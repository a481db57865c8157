# Verification of CynaOrg/cyna-api

TLA+ models of the CYNA e-commerce back end (a NestJS monorepo: nine services
over RabbitMQ and PostgreSQL), TLC runs on small instances and TLAPS proofs
for every value of the constants.  The project starts from the path on which
money is at stake, a customer's checkout, Stripe, the webhook and the order
row, and goes on to what surrounds it: stock and catalog, subscriptions and
licences, accounts, sessions and carts, mails, reports, the gateway's calls.

Contents: 1 the system; 2 the plan; 3 the modules and the code they translate;
4 the runs; 5 fairness; 6 the proofs; 7 findings; 8 what is left out.  Paths
such as `order.service.ts:130` are under `src/apps/<service>/src/`.

## 1. The system

### What all services share

A request enters `api-gateway` over HTTP and becomes a message: `send` is a
request with a reply, a timeout and often one `retry`; `emit` is an event that
nobody acknowledges.  Every consumer runs with `noAck: true` and a prefetch of
ten (`payment-service/src/main.ts:30`), so a message is gone once it is handed
over, whether its handler finishes or not, and up to ten handlers of a service
are in progress at once.  A handler is an `async` function: another may run at
each `await`.  Nearly all writes are TypeORM `findOne`, a change to the
entity, and `save`, outside a transaction and without a version column.  From
these facts follow the hard behaviours: copies that are stale when they are
saved, events applied in any order, effects done halfway, retries of a request
that is still at work.

### Components

| Component | State | Operations | What makes it correct |
|---|---|---|---|
| order-service: orders | `orders`, `order_items` | create from cart, attach an intent, payment confirmed / failed / refunded, administrator's edit, hourly cleanup of pending rows | an intent names one order; a status has a cause and is not undone; a created order is complete; a shipment is announced |
| order-service: carts | `carts`, `cart_items`, a copy of each cart in Redis | get, add, update, remove, clear, merge at login, reminders, cleanup of guest carts | the copy follows the cart; a merge keeps the lines; what was removed stays removed; one reminder |
| payment-service: webhooks | `processed_webhooks`, invoices at Stripe | claim an event, its handler, verdict, mail | an event is processed by one activation at a time; nothing confirmed without its licences |
| payment-service: licences | `license_keys` | generate, activate | keys once per order, each link mailed, activated once |
| payment-service: PaymentIntents, prices | Stripe's intents, customers, Prices | create, retrieve, replace, archive | one payable intent per order; sold as listed |
| payment-service: subscriptions | `subscriptions`, Stripe's subscriptions | create, cancel, reactivate, change terms, five events, sweep of incomplete rows | the row follows Stripe; nobody is told it is over while it is billed; one welcome |
| api-gateway: checkout, webhook | none (local variables of a request) | POST payment-intent, POST stripe | every request ends; the response's secret belongs to the order |
| api-gateway: calls, guards | none | a message per route with timeout and retries; decisions from the token | what a client is told is what was done |
| catalog-service: stock | `products.stock`, `stock_reservations`, a cached product | reserve, renew, release, confirm, update, expiry cron | reservations never pass the stock; the copy follows the row |
| catalog-service: products, categories, images | one row each, cached pages | create, update, delete, images, featured flag, Stripe prices | a slug shows what has it; one primary image; flags agree with the list |
| content-service | top products, carousel, hero text, messages | replace, toggle, synchronise | the list stays within its limit and catalog follows it |
| auth-service | `refresh_tokens`, mail and reset tokens, lockout counter, 2FA codes, `admins` | register, login, refresh, logout, verify, reset, administrators' changes, cleanup | sessions end with their password; at most five; a link and a code work once; somebody can administer |
| user-service | users, addresses | profile, password, language, deletion, addresses with defaults | a save loses nothing; one default per kind, a bounded number |
| libs/common: cache, RabbitMQ | Redis; queues | `getOrSet`, invalidate; events and requests | a value older than the last invalidation is not kept; every event finds its handler |
| notification-service | none (queue and mailbox) | one mail per event | a mail that is asked for is sent; the newest comes last |
| analytics-service | `analytics_cache` | dashboard, sales, categories, stock, MRR, export | reports agree with each other and with the past; no older figure after a newer |
| s3, migrations, seeds, DTOs, i18n, Swagger | - | - | - |

### How a purchase runs

    browser   --POST checkout/payment-intent--> gateway
    gateway   --CREATE_ORDER (rpc, 10 s, one retry)--> order-service
    gateway   --RETRIEVE / CREATE_PAYMENT_INTENT (rpc)--> payment-service --> Stripe
    gateway   --UPDATE_ORDER_STATUS (event: the intent)--> order-service
    browser   --card--> Stripe --POST webhooks/stripe, answered 200--> gateway
    gateway   --PAYMENT.WEBHOOK_RECEIVED (event)--> payment-service
    payment   --GET_ORDER_BY_PAYMENT_INTENT (rpc)--> order-service
    payment   --PAYMENT.CONFIRMED / FAILED / REFUNDED (event)--> order-service

The order row is written by five handlers (creation, intent, verdict, edit,
cron), of which three save a copy they read earlier.  The webhook looks the
order up by the intent that an unacknowledged event has put in the row, or not
yet.  `PROJECT.json` lists every hazard of this kind at the line where it
bites, with the property that watches it.

## 2. The plan

Written in this order, each before the next; all of it is done.

1. **OrderService, OrderSystem**: the orders table and its handlers among
   callers that may do anything.
2. **EventClaim, WebhookService, WebhookSystem**: the processing of Stripe
   events and the abstract claim it implements.
3. **Purchase**: gateway, Stripe, both services and the messages between them;
   it implements OrderSystem.
4. **Stock, ProductImages, Categories, FeaturedProducts, ProductPrices**:
   catalog-service with what Redis, content-service and Stripe keep of it.
5. **Subscriptions, Licences**: the rest of payment-service.
6. **Sessions, Credentials, TwoFactor, AdminAccess, Addresses, CartService**:
   what one user, or one administrator, has.
7. **SalesFigures, MetricCache, RecurringRevenue**: analytics-service.
8. **Notifications, GatewayCalls**: what passes between the services.

Nothing of the plan is left but what section 6 lists as only model-checked.

## 3. The modules

### OrderService and OrderSystem

`order-service/src/services/order.service.ts` with its controller and the cron
`pending-orders-cleanup.cron.ts`.  `orders` is the table, items included;
`carts` the products of each cart.  The local variables of an activation are a
record: `call` for `createOrderFromCart`, `patch` for
`updateStripePaymentIntentId`, `notice` for the three payment handlers, `edit`
for `adminUpdateOrderStatus`; `pc` says at which `await` it stands and `copy`
is the entity it read.

| Code | Actions |
|---|---|
| `createOrderFromCart` | `FindExisting` / `FindNone`, `SaveExisting`, `ReplyExisting`; `ReadCart`, `InsertOrder`, `SaveItem` (once per item), `ReplyNew`; `FailCall` |
| `updateStripePaymentIntentId` | `AttachIntent` (one UPDATE), `FailPatch` |
| `handlePaymentConfirmed/Failed/Refunded` | `ReadNotice`, `SaveNotice`, `ClearPaidCart`, `FailNotice` |
| `adminUpdateOrderStatus` | `ReadEdit`, `SaveEdit`, `FailEdit` |
| `PendingOrdersCleanupCron` | `CleanupPending` (one DELETE), `GoIdle` for the age of `updated_at` |

`Save` is TypeORM's `save` on a loaded entity.  TypeORM selects the row again,
compares and updates what differs, so that after it every loaded column equals
the entity's; a row that was deleted is inserted again.  The SELECT and the
UPDATE of `save` are taken as one step.  Where the entity was loaded with its
items and the table meanwhile holds more of them, TypeORM would orphan the
missing ones, whose `order_id` may not be null: the save is refused
(`CanSave`). `updated_at` moves when a column changed.

`OrderSystem` puts these handlers among callers that do what the other
services can do, and more: verdicts in any number and order for any intent
that was attached, edits to any status, carts that fill up at any time.

### EventClaim, WebhookService and WebhookSystem

`payment-service/src/services/webhook.service.ts`: `handleWebhookEvent` with
`tryClaimEvent`,
`releaseClaim` and the handlers of the three events that concern orders, and
`generateForOrder` of `license.service.ts`.  `claims` is `processed_webhooks`,
`licenses` the licence keys with the activation that issued them, `invoices`
the invoices generated at Stripe, `hook` the activations.

| Code | Actions |
|---|---|
| `handleStripeWebhook` of the gateway | `SendHook` |
| `tryClaimEvent`, `releaseClaim` | `TryClaim`, `ReleaseClaim` |
| `handlePaymentIntentSucceeded` | `FetchOrder`, `CheckLicenses`, `GenerateLicenses`, `ResolveInvoice`, `EmitVerdict`, `Notify` |
| `handlePaymentIntentFailed`, `handleChargeRefunded` | `EmitVerdict`, `Notify` |
| default branch of the switch | `IgnoreEvent` |
| errors; the death of the process | `Throw`, `Die` |

`EventClaim` says in four definitions what the table is for: an event is held
by at most one activation, which settles it or gives it back, and an
activation that dies keeps it.  `WebhookSystem` maps the activations to
holders and settled events and states `ClaimIsExclusive`; it also lets
order-service answer anything: any subset of the items, null, an error.
TLC runs it as one of the parts of `customers`.

### Purchase

`checkout.controller.ts` and `webhook.controller.ts` of the gateway, the
PaymentIntent calls of `payment.service.ts` and `stripe.service.ts`, and
Stripe.  It EXTENDS OrderSystem and takes WebhookService with INSTANCE; the
call, patch and notice activations are those the gateway and the webhook
start.

| Code | Actions |
|---|---|
| `createPaymentIntent` of the gateway | `StartCheckout`, `RetryOrder`, `GiveUpOrder`, `TakeOrder`, `ReuseIntent` / `RefuseIntent`, `Mint`, `MintAgain`, `FailMint`, `Respond` |
| Stripe, the customer's card | `Submit`, `Succeed`, `Decline`, `Refund` (external) |
| `handleStripeWebhook` | `Deliver` |
| `GET_ORDER_BY_PAYMENT_INTENT` | `OrderAnswers`, joined in `AskOrderService` |

Stripe is modelled from how the code uses it: an intent is `open` (any payable
status), `processing` or `succeeded`; a declined intent is payable again; a
refund is made in Stripe's dashboard.

### The modules of one part each

The modules below share their form.  They model what one user, product, order
or reader sees, with variables of their own, and no two share a variable.  A
call runs in a *slot*, a record with the label `pc` of the next database
access, request or event and what the earlier ones read; each such access is
an action, and a call begins in any idle slot.  `save` writes the copy that
was read and inserts a row again that was deleted, as in OrderService.  A stop,
an error and a timeout are actions too.

Most promises of this code hold of calls that follow one another and fail in
named situations.  The modules therefore keep a history variable with
**fault marks** (`overlap`: two calls were at work on the same rows; `died`,
`lost`, `late`, `overwritten`, ...), set by the actions that bring such a
situation about, and their invariants read "a bad state has one of these
marks".  What an invariant says is which situations are *not* on its list: it
fails as soon as the code reaches the bad state by any other way.  Marks are
dropped once nothing runs and all is well again, so that they excuse no later
damage.

A *load* (`Workloads`, `SubLoads`, ...) is the set of handlers, slots and
values one behaviour is made of, chosen in Init: a bound that keeps the
product of all handlers out of one behaviour and lists the combinations that
are explored.

**Stock** - `stock.service.ts`, `stock-cleanup.cron.ts`, and `findById`,
`update` and the deletions of `product.service.ts` as far as they write the
same row and its copy in Redis.

| Code | Actions |
|---|---|
| `reserveStock` | `FindReservation`, `RenewReservation` or `SumReserved`, `InsertReservation` |
| `releaseReservation` | `RemoveFound` |
| `confirmReservation` | `DecrementStock` or `ConfirmThrows`, `RemoveConfirmed` |
| `updateStock`, `update`, `delete`, `bulkDelete` | `SaveProduct`, `SoftDelete`, `Invalidate` |
| `findById` (`getOrSet`) | `ReadAgain`, `FillCache`; `ExpireCached` |
| `cleanupExpiredReservations` | `CleanupExpired`; `Expire` is the clock |

`OversoldOnlyByFault`, `CacheFollowsRow`, and the action property
`DeletedStaysDeleted`.

**ProductImages** - `confirmUpload` (`ConfirmUpload`, `DemoteAll`,
`InsertImage`), `addImage` (`AddImage`), `deleteImage` (`DeleteImage`,
`RemoveImage`, `FindNext`, `PromoteImage`), `setPrimaryImage`
(`SetPrimaryImage`, `DemoteOthers`), `reorderImages` (`ReorderImages`,
`UpdateOrder`).  `ImageStops` ends a request before any of its statements, as
between demoting the images and inserting the new primary one;
`UpdateOrderFails` refuses one UPDATE of a reorder, whose others go on.
`ImagesConsistent`: one primary image, never two, distinct positions, the limit.

**Categories** - create, update and delete of categories and products by their
slugs: the look-up of a slug, the save the unique index may refuse, the keys
dropped in Redis (none of a product's by `bulkDelete`, which `DeleteItem`
includes), and the pages `FindCategory`, `FillCategory`, `FindItem`, `FillItem`
put there.  `update` of a product works on what `findById` answers, the copy
under `product:<id>` if there is one (`UpdateItem`, `FillId`, `CheckItem`,
`SaveItem`, and `RereadItem` for the answer), so a stale copy may be saved.
`StopCat` ends a call anywhere.  `CategoryPagesTrue`, `ItemPagesTrue`.

**FeaturedProducts** - the list of `top-products.service.ts` (`ReplaceList`,
`ToggleFeatured`, `SaveList`, `InvalidateAndEmit`, `GetTopList`,
`FillTopList`), the flags of `product.service.ts` (`CreateProduct`,
`UpdateFlag`, `UpdateOther`, `SaveFlag`, with `ToggleRefused` and
`ToggleTimesOut` of the RPC), the copy of a product in Redis from which every
update starts (`FindProduct`, `FillCopy`, `DropCopy`, `RereadProduct`), so that
an update of something else may save an old flag, the event between them (`ReceiveUpdate`, `FlagAdded`, `FlagRemoved`,
`LoseUpdate`), `Reconcile` at the start of the service, and `FeatureStops`.
`FeaturedConsistent`, `CachedListFollows`.

**ProductPrices** - a subscription product's row, its copy in Redis, its Prices
at Stripe and its buyers: `CreateOffer`, `ImportOffer` (creation with ids that
Stripe has already), `UpdateOffer`, `DeleteOffer`, `BulkDeleteOffer` with the
calls `Bootstrap`, `Refresh`, `Replace`, `ArchiveProduct`, each of which may
fail, do part of its work or answer too late, and the saves `SaveOffer` and
`SaveIds` around them.  Updates and buyers begin with `findById`
(`FindOffer`, `FillOffer`, `AnswerOffer`): they get the copy in Redis, or the
row, which they cache in a later step.  Creation drops no copy, an update and a
deletion do (`DropOffer`), and creation and update read the product again
(`RereadOffer`).  `Subscribe` takes the ids the copy names, `CreateAtStripe`
what Stripe makes of them; `PriceStops` ends a request anywhere.
`PricesConsistent`: sold as listed, not sold when deleted, no stray Price.

**Subscriptions** - `createSubscription` (`ReadUser`, `CreateCustomer`,
`CreateSubscription`, `InsertRow`, `AnswerSecret`, and `ReceiveCustomer` /
`LoseCustomer` for the event to user-service), cancel, reactivate and the
administrator's terms (`BeginChange`, `AskStripe`, `SaveChange`), Stripe
(`FirstPayment`, `FirstDecline`, `GiveUpUnpaid`, `Renewal`, `FailedRenewal`,
`PeriodEnd`), its events (`BeginEvent`, `HandleCreated`, `ReadSync`,
`SaveSync`, `SavePaid`, `SavePastDue`, `EndRow`) taken in any order, and the
cron `SweepIncomplete`.  `SubscriptionsConsistent` has `CancelledIsOver` (no
mark excuses it), `IncompleteIsUnpaid`, `RowFollowsStripe`,
`UnpaidLeavesNoTrace`, `OneCustomer`, `PaidIsWelcomed`; `WelcomedOnce` is an
action property.

**Licences** - the keys of one order that several payments may pay:
`DeliverPaid`, `CheckKeys`, `GenerateKeys`, `NotifyKeys` or `NotifyNobody` of
`handlePaymentIntentSucceeded`, and `activate` (`ReadKey`, `SaveKey`) under
the 30 days of a link.  `IssuedOnce`, `KeysAreMailed`, `ActivatedOnce`.

**Sessions** - one user's row and refresh tokens: `Login`, `Refresh`,
`CheckUser`, `Rotate`, `ListSessions`, `TrimSessions`, `InsertToken`,
`Logout`, `ResetPassword`, `RevokeAll`; the saves of `user.service.ts` and
`user-admin.service.ts` (`ReadUserRow`, `SaveUserRow`, `EmitNews`) and the
events they send (`ReceiveRevocation`, `LoseRevocation`); the grace period and
the cleanup.  `SessionsSafe`, `UserRowKept`.

**Credentials** - registration with its RPC (`Register`, `CreateAccount`,
`CreateTimesOut`), mailed links (`AskForLink`, `DeleteOpen`, `InsertLink`,
`MailLink`, `FollowLink`, `ApplyLink`, `ApplyTimesOut`, `UseLink`) and the
lockout counter (`TryPassword`, `Miss`, `CountMiss`, `Hit`, `WindowEnds`).
`CredentialsSafe`.

**TwoFactor** - `two-factor.service.ts` and its callers: `AskForCode`,
`InvalidatePrevious`, `InsertCode`, `MailCode`, `Guess`, `SaveCode`.
`FactorSafe`.

**AdminAccess** - sign-in, refresh and logout of administrators, what they do
to each other (`ChangeAdmin`, `SaveAdmin`, `RemoveAdmin`, `CreateAdmin`), and
`SuperAdminGuard`, which knows the role of the token only.  `AdminsSafe`,
`AdminRowKept`, `AccessFollowsRow`.

**CartService** - the cart of a user and of the guest who logs in:
`GetCart`/`FillCopy`, `AddItem`/`FindItem`/`SaveItem`,
`UpdateItem`/`ClampItem`, `RemoveItems`, the merge (`MergeGuest`, `MergeLine`,
`SaveMerged`, `DropGuest`, `InvalidateUser`, `InvalidateGuest`), the reminder
(`FindAbandoned`, `MailReminder`, `SaveNotified`) and `CleanupGuest`; the stock
(`ChangeStock`), deleted products and the silence of the catalog (`NoProduct`)
are inputs.  `CartsConsistent`, `MergeKeepsLines`,
`RemovedStaysRemoved`.

**Addresses** - the transactions of `user-address.service.ts`, statement by
statement, at READ COMMITTED.  `AddressesConsistent`, `DeletedAddressStays`.

**SalesFigures** - the reports of `sales.service.ts` and
`dashboard.service.ts` as operators on the orders, products and alerts the
other services answer with, where any of these may be silent: `Sales` with its
buckets, `SalesByCategory`, `SalesByProductType`, `AverageCart`, `Dashboard`,
`StockStatus`, `ExportSales`.  Where the others count a silent service as one
that has nothing, the export fails (`NoReport`).  Actions move the data and the
day: an order appears with its total (`MakeSale`) and gets its items one by one
(`SaveLine`), or never; a product may have no stock at all (`NoStock`, the
null of the column).  `FiguresTrue` compares the reports with each other.

**MetricCache** - `getCachedMetric`, the request to a service and
`setCachedMetric`, of calls at a time, any of whose database accesses may fail.
`NeverOlder`.

**RecurringRevenue** - `getMrr` and the churn of the dashboard, computed from
rows that say what is so today, against a history of what was.  A call of
`getMrr` fetches the subscriptions (`FetchSubscriptions`), reads the clock
(`StartHistory`), takes each past month from its row or computes and keeps it
(`MonthFromRow`, `ComputeMonth`, `KeepMonth`), and keeps the answer under
`mrr:current` (`SaveMrr`); months may end in between.  `HistoryBlamed` and
`HistoryNeverMore` are of all that is told of a past month: its row, the kept
answer, the answer a call puts together.  `ChangeBlamed`.

**Notifications** - every event the publishers emit, by the service it goes
to, and every handler and template there is: `EmitEvent`, `EmitFails`,
`Deliver`, `SendEmail`, `SendFails`, `MailerDies`, `BrokerRestarts`.
`LostIsBlamed`, `NewestMailLast`.

**GatewayCalls** - every call of the gateway by its retries and by what a
second execution of it does (nothing, the same, once more, a refusal, or once
more only if it began before the first was done).  An execution begins
(`Begin`), and ends well (`Finish`) or with an error (`Break`), at any time and
beside others; `Lose`, `TimesOut`, `TakesAnswer`, `TakesRefusal`, with the
retry of rxjs in `RetryOr`.  `RefusedIsUndone`, `DoneOnce`, `OkIsDone`.

### Abstractions

- Quantities, prices, addresses, names and locales are dropped: `lines` is the
  set of products a total was computed from, and "charged for what the order
  lists" compares such sets.
- A crash of a service is its activations failing, each at its own point; the
  constants `Faulty`, `FaultyDeliveries` and `FaultyCheckouts` say which ones
  may.  A lost message is an activation that fails before its first step.
- Messages wait in no queue: an event is an activation in state `sent`, taken
  at any time, so every order of arrival is covered.
- `GoIdle` waits until the creator has saved its items, since creating an
  order takes seconds and the limit is a day.  An activation that holds a copy
  to save may be overtaken by it.
- Uuids are drawn once (`Drawn`); `Orders` bounds how many rows are ever made.
- The clearing of the cart reads and deletes in one step.
- In the modules of one part each, what other users do is left out: the rows
  they share (a product, a list, the administrators) are in one module with
  all who write them.  Amounts are small numbers where sums matter (stock,
  cart, reports) and dropped elsewhere; ids are numbered in the order they are
  drawn; time is what passes between two reads (`Expire...`, `Age`,
  `DayPasses`), and a day, a month and a week are numbers only in SalesFigures.

## 4. The runs

Passing runs; times with two workers.

| Run | Instance | Distinct states | Question |
|---|---|---|---|
| `orders` | 2 orders, 1 product, 2 creations, 1 intent update, 1 verdict of any kind, 1 edit; creations, the intent update and the edit may fail | 780 thousand (40 s) | Do rows stay well-formed and truthful under every interleaving of two creations, an intent, a verdict, an edit and the cron? |
| `webhooks` | 4 deliveries: a payment twice, a refund, an unhandled event; two may fail or die; order-service answers anything | 19 thousand | Is an event processed once, and is nothing confirmed unlicensed? |
| `purchase_alone` | 1 checkout, 1 intent that may be declined, paid and refunded, two products, the creation may fail | 770 thousand (80 s) | Does a status tell the truth, and is a paid order delivered, when a customer buys alone? |
| `purchase_rivals` | 2 checkouts of one cart, 2 orders, 2 intents | 220 thousand (40 s) | The same with two browser tabs, and: does a purchase do only what OrderSystem allows? |
| `purchase_live` | 1 checkout with the retry of CREATE_ORDER, the first creation may fail; cron | 22 thousand (25 s) | Do requests, calls and unpaid orders all come to an end? |
| `catalog` | one part per behaviour: 1 product, 2 carts and a stock of 2; 3 images; 2 featured products of a limit of 1; 2 prices and 3 Prices at Stripe; 2 slugs; 2 orders over 18 days; 2 calls of one report; 1 subscription over 3 months | 1.1 million (2 min) | Are stock, cached pages, images, flags and prices what the rows say, and do the reports say what was? |
| `customers` | one part per behaviour: 2 subscriptions; 3 sessions of a cap of 2; 3 links; 3 codes; 3 administrators; 2 carts with 2 lines; 3 addresses of a limit of 2; 2 events; every call of the gateway; 3 deliveries of 2 payments | 0.8 million (2 min) | Do the things one customer or administrator has survive handlers at a time, stops, late answers and lost events? |
| `purchase_confirmed` | 1 checkout, its card declined at most once, the payment delivered twice; no fault, the cron unforced | 29 thousand (30 s) | Does a payment whose order was found reach the row, whatever overtakes it? |

What they show:

- `IntentNamesOneOrder`, `StatusHasCause`, `CreatorAnswersComplete`,
  `ShippedIsMailed` and the action property `OnlyStaleReuseUndoesVerdict` hold
  of order-service whatever its callers send.  The last is as strong as the
  code allows: apart from an administrator, a single line of the code undoes a
  verdict.
- `ClaimsAreHeld`, `ClaimIsExclusive`, `LicensesOnce` and
  `ConfirmedIsLicensed` hold of the webhook, deaths included.  `LicensesOnce`
  is checked for orders of which one intent succeeds; two successful intents
  of one order can generate keys twice (section 7).
- `StatusIsTrue` and `PaidIsDelivered` hold of a lone purchase, and wherever a
  delivery or a verdict stops halfway: for a safety property that is a
  behaviour that goes no further, so `purchase_alone` need not declare these
  activations faulty; `StatusIsTrue` and `ImplementsOrderSystem` hold of
  rivals. `PaidIsDelivered` is shown where CREATE_ORDER is not sent again;
  with the retry it is the finding `paid_undelivered`.
- `CheckoutsEnd`, `CallsEnd` and `PendingOrdersLeave` hold under the fairness
  of section 5, and `FoundIsConfirmed` without that of the cron: with it the
  property would hold by the deletion of every order that stays pending.  It
  is checked without the retry of CREATE_ORDER and without rivals; with either
  of them a creation still inserting items can make the save of a verdict be
  refused (`CanSave`), which takes a payment made within the seconds of that
  creation.

- `catalog` and `customers` show that the list of faults in each invariant is
  complete: no state in which a promise is broken is reached without one of
  the situations named.  Some promises are excused by none: `CancelledIsOver`,
  `ListBounded`, `OkIsDone`, `PeriodsMeet`, `ReportsAgree`.  The excuses are
  as telling as the promises; section 7 lists those a reader of the code
  would not expect.

The parts in `catalog` and `customers` share no variable, so a joint run of two
of them reaches no state that one of them does not reach alone; `part` picks
the one that moves, and the states are the sum and not the product.  Where an
invariant joins those of several parts (`CachesTrue`, `OwnDataConsistent`,
`RowsKept`), its conjuncts are the properties of section 3.

Runs that end in a counterexample, each of one property: `payment_undone`,
`payment_forgotten`, `paid_undelivered`, `charged_twice`; see section 7.

**Bounds.**  Two creations are what it takes for one to find, copy and save
the order of another; two orders let both miss each other; one product is what
an order can miss (`purchase_alone` and the proof of `CreatorsAnswerComplete`
have partial orders of several); one verdict, one edit and one intent update
are each a rival to a copy held by a creation.  Two deliveries of the same
event are a duplicate, or a retry after a release; a third kind tests that
events are independent.  `MaxTries = 2` is the code's own `retry(1)`.  More
actors of a kind add interleavings of the same pairs; that nothing depends on
the number is what section 6 proves for the modules it covers.  The loads
of `catalog` and `customers` have two slots wherever the question is one of
interleaving and one slot where it is of sequence, stops or the clock; two ids
or three where one has to be the oldest, the previous or the one too many;
limits (sessions, addresses, images, attempts) are lowered to two, featured
products to one, so that they are reached.  In ProductPrices administrators
make one request at a time.  Every passing
run sets `CHECK_DEADLOCK FALSE`: activations are bounded and each ends, so the
system stops when all are used up.

**Symmetry** is declared over orders and creations in `orders` and over
checkouts, intents and orders in `purchase_rivals`; neither run checks a
liveness property, and their properties name no single element.

## 5. Fairness

`PurchaseFairness` is weak fairness of each activation and of each delivery: a
handler in flight runs on (Node's event loop, and every RPC has a timeout),
the gateway answers each request it has accepted, and Stripe delivers an event
it has.  Nothing forces a customer to pay, to retry or to open a second tab,
nor a fault to happen.  `PendingOrdersLeave` also needs `CronFairness`: a row
nobody writes to gets old, and the cron fires every hour.  `payment_forgotten`
uses `FairPurchaseSpec`, so its counterexample is a payment that the system
gives up, not a system that stops.  The modules of one part each state safety
only: their promises are about what is left once nothing runs, and nothing in
this code retries what failed until it succeeds, so that no fairness would
make a lost event or a failed step good.

## 6. What is proved

Checked by TLAPS for every set of orders, carts, products, intents and
activations, finite or not.

**OrderProofs**: `TypeCorrect` (`OrderTypeOK`).  The type of a row is
not inductive: `SaveExisting` writes `call.copy`, which may be `NoRow` in some
states.  `Shape` adds that an activation about to save holds a row and the id
of an order, for each kind of activation; it is shown to be kept by one step
per action.

The rest of the module is a classification of the steps, since five
handlers write the same row and a property by property, action by action proof
would repeat itself.  `Moves` shows that a step does to each row a `RowMove`
(unchanged, deleted, inserted, aged, given an item or an intent, or
overwritten by somebody's copy) and to each activation a `CallMove`,
`PatchMove`, `NoticeMove` or `EditMove`; the invariants are then proved of the
moves.

- `IntentsNameOneOrder`: the rows alone do not say it, for a stale copy may
  bring an old intent back.  `Origins` says that the intent of every row *and
  of every copy* was sent by a patch for that very order, and that a patch
  sends an intent nobody sent before.
- `StatusesHaveCauses`: `Causes` adds that creations hold pending copies only,
  which cannot bring an undecided status back, and that a verdict at work on
  an order found it by an intent minted for it.
- `VerdictsAreKept` (the action property `OnlyStaleReuseUndoesVerdict`): from
  `Shape` and the pending status of the copies a creation reuses.
- `ShippedOrdersAreMailed`: the edit that finds its copy already shipped sends
  nothing; `Mails` says that the shipment it saw was announced by another.
  (Verdicts and creations never write shipped.)
- `CreatorsAnswerComplete`: `Creators` says that while an order is being
  created its row is in the table, fresh, and holds exactly the items inserted
  so far, that no two activations create the same order, and that every copy
  of it held elsewhere has some of those items and is not idle.  Such a copy
  is refused by `CanSave` unless it has them all, and cannot make the row look
  old to the cron.

**PurchaseProofs** composes the two.  `PurchaseInv` is `PurchaseShape` (the
types of all four parties and what each holds at each `pc`), `Joined` (what
they owe each other: the answer a checkout holds is of the call it made,
`RepliesHold` and `Answered`; an intent is minted by one checkout, `MintedOnce`,
for the order its patch names, `PatchesMinted` and `IntentsSent`; a notice comes
from a charge or a refund that happened, `EventsHappened`) and OrderProofs'
`Origins`, `Causes` and `Creators`.
- `PurchaseTypeCorrect` (`PurchaseTypeOK`).
- `PurchaseRefinesOrders` (`ImplementsOrderSystem`): every step of a purchase is
  a step of OrderSystem or leaves its variables alone.  The guard that is not
  there to see is that a patch sends an intent nobody sent before; it follows
  from `MintedOnce`.
- `StatusesAreTrue` (`StatusIsTrue`): from `Causes`, a verdict was decided on an
  intent of its own order, and from `EventsHappened` it is true.  That the order
  lists what was charged needs `LinesAre`: the lines of an order are fixed
  when it is created, in the row, in every copy and in what the checkout was
  answered, so some function gives them for the whole behaviour.
- `UnsharedOrdersAreDelivered` and `PaidOrdersAreDelivered` (`PaidIsDelivered`):
  `Delivering` says that an order only one creation works on is complete once
  that creation is answered, that the webhook saw all of its licence products
  (`Covers`), and that it licensed them before it announced the payment
  (`LicensedFirst`).  The first theorem excepts the orders two creations
  share, which the run `paid_undelivered` shows undelivered; the second has the
  hypothesis of the run `purchase_alone`, one activation of CREATE_ORDER.

**PaymentProofs** is about what payment-service keeps.  `HookInv` is the type, `HooksOK` (an activation past
the fetch handles a payment and holds an answer for its event's order),
`ClaimsAreHeld`, `SoleHolder` (one activation per event between claim and
release) and `LicensesOK` (an activation past the generation sees its order
licensed).  From it: `WebhookTypeCorrect`, `ClaimsHeld`,
`ConfirmedOrdersAreLicensed`, and `WebhookImplementsClaim`, the refinement of
`EventClaim` step by step: claiming is `Acquire`, the release `GiveBack`, the
last step `Settle`, and all others stutter.  `LicensesIssuedOnce` assumes
`OneSuccess`, one `succeeded` event per order, and adds `NoneYet`: who is about
to generate found no licence and there still is none, since only another
delivery of the same event could have issued one and it would hold the claim.
`LicencesKept` (`LicencesConsistent`) drops that assumption, for any number of payments, deliveries, units and requests.
The deliveries' side needs `WorkersApart` (two at work were noted in
`licTogether` and have different events), `LateKeys` and `NoKeyYet` (keys that
appear after somebody found none are of a delivery at work since); the
requests' side `ReadersTogether` and `DoneIsUsed`.  `CancelledRowsAreOver`
(`CancelledIsOver`) excuses no fault, so its invariant may not either:
`WordsTrue` says that every word that a subscription is over (in a row, in an
event on its way, in the copy or the event a call holds) is true at Stripe, and
Stripe takes none of them back.  That is why a stale copy, a lost event or a
late one cannot make a row say so falsely.

`SubscriptionsStayConsistent` (`SubscriptionsConsistent`) is about what is left
once nothing is on its way, so its invariant `FollowInv` says, for every state,
what still comes.  Marks are handled as in AccountProofs: `SettledTogether` and
`SettledCustomer` show that `Follows` implies the invariant where they are
taken away, every other lemma is about a step that keeps them.  The parts:
`LifeTrue`, what a subscription has been through whatever failed (a billed one
was paid, an unpaid one whose secret was handed out has a row, events are no
newer than Stripe); `OneCreation`, each is inserted by one call; `Alone`, two
calls on one subscription are marked.  Then, per subscription and property,
`Promoted` (an incomplete row of a paid subscription has the event that
promotes it on its way, or in the hands of its only call, and a copy that would
take it back is saved before that event), `Told` (Stripe's last word is in the
row, in an event or in the only call, and no event or copy that contradicts it
comes after it), `UntoldUnbegun` (nothing says that an unpaid subscription
began), `Welcomed` (the event that begins it comes before all that would take
the row out of incomplete) and `CustomerTrue` (one creation at a time, one
customer on its way to user-service).  `StripeNews` is what a change at Stripe owes
the first four; `Saves`, `Drops` and `Closes` are the ways a call ends.  The proof
found `IncompleteIsUnpaid` weaker than the code: an update to active or past
due takes a row out of incomplete whatever the order, and without overlapping
calls nothing brings it back, so events that come out of order cannot leave it
incomplete; it excuses that no more.

`WelcomesGoOnce` (`WelcomedOnce`) adds `OnceTrue` to it. `CountsFit` says that a
mail needs a subscription at Stripe, `WordsInOrder` that its creation has one
event, the first, which once a mail was sent can only come out of order, and
`FirstWelcome` that while calls are alone nothing takes a welcomed row back to
incomplete and who means to welcome is the first; that an unpaid one which
nobody declined or dropped is never begun is `FollowInv`. The proof found the
marks of `Follows` taken away too early: after a declined payment, calls that
overlapped and a creation notified late could leave a welcomed row incomplete
with no mark standing, and the property was false of a second welcome, with more
events than the run's load has. `Follows` now keeps the marks while a welcomed
row is incomplete, and `WelcomedOnce` excuses fewer faults: an event that was
lost or overtaken, or an earlier one out of order, does not repeat a welcome.

**CatalogProofs** has three parts, and then all of MCCatalog at once.
`PricesStayConsistent` (`PricesConsistent`) is for
any number of Prices, periods, amounts and slots.  `PriceMade` holds whatever fails: a row and
each copy name Prices that exist, the request at work has the row's copy
(`RequestFits`), and between requests what is cached is the row.  Then one part
for each property: while nothing failed and no price was emptied, a Price that
a row, a copy or a purchase names has the amount it lists (`ListedFits`; Prices
are immutable, `PricesKept`), and what is active is named by the row or by the
copy that is about to become the row (`StraysFit`).  `RunningStep` says what
a step of a request owes; `Forgotten` that prices which agree need no mark.
`CreatedPrices` and `ReplacedPrices` are the lemmas about Stripe's table.  The
proof found `DeletedIsNotSold` weaker than the code: a failed archive call was
an excuse, but a deletion also takes the row out of the cache, so that a
product that is active at Stripe is not found.  The excuse is gone.
`ImagesStayConsistent` (`ImagesConsistent`) is for any number of images and
requests and any limit.  `ImageMade` holds whatever happens; while `overlap` is
not marked, `ImagesCalm` adds that one request runs at a time and what it knows
of the rows (`AloneKnows`): an insertion asks for a place that is free
(`NextOrderIsLast`, the lemma about the greatest order) and has demoted the
primary image before it puts in another, a copy to be promoted is the row but
for its flag, and a reorder that names all images has given the places it has
no UPDATE left for.  Only between removing a primary image and promoting
another, or demoting one and inserting another, is there none (`Between`).
`ImageStep` says what a step owes; `FormNeedsNoMark` that well-formed rows need
no mark.
`FlagsStayTrue` (`FeaturedConsistent`) and `CachedListStaysTrue`
(`CachedListFollows`) are for any number of products, handlers and events and
any limit.  That the list keeps its limit holds even through overlaps, because
a list about to be saved does (`ChangeMade`).  The flags need what the events
on their way still have to say: of a product that some event names, the last
one says what the list says (`LastSays`); the flag of one that none names is
that of the list, but for what the event at work has yet to set (`FlagSays`),
and a change is not told between its save and its event (`Told`).  `EventTold`
and `EventTaken` are the lemmas about the two ends of the queue.
At the end `PartsRun` shows that a behaviour of MCCatalog is one of each of its
eight parts.  With the invariants of StockProofs, `CatalogWellTyped`
(`CatalogTypeOK`), `CachesStayTrue` (`CachesTrue`), `FiguresStayTrue`
(`FiguresTrue`) and `MetricsStayTrue` (`MetricsTrue`) follow for the whole.

**AccountProofs, SessionsProofs** (users and administrators) prove properties that
marks excuse ("unless calls overlapped"), and share one shape.  The inductive
invariant is a part that holds whatever happens (`Made`, `CredMade`,
`SessMade`: what a call or a row refers to exists) and a part for each mark
that is not set: while `overlap` is not, one call at a time, whose copy is the
row.  A lemma (`Blamed`, `CredBlamed`, `SessBlamed`) shows when marks come and
go: they are taken away only where no call runs and the module's `InOrder`
holds, so `InOrder` must imply the invariant on its own; else a step owes what
its marks do not excuse.  Lemmas for whole classes of steps (`CallOnly`,
`CallStep`, `BesideStep`) leave each action what is particular to it.

- `FactorStaysSafe` (`FactorSafe`): one open code and it is the newest
  (`CodesFit`), the last mailed one dead only while the next is on its way
  (`LastFits`).
- `CredentialsStaySafe` (`CredentialsSafe`): a call that inserts a link has
  deleted what was open, the link it mails is open (`LinkCallsFit`); the last
  mailed link is dead only while the next is on its way (`LastMailFits`); the
  counter is one behind only while a call counts (`CountFits`); an open link
  took no effect but for the call about to mark it (`WorksFit`).  `Reached`
  holds through overlaps: an account nobody wrote to has its link on the way.
- `SessionsStaySafe` (`SessionsSafe`) and the action property
  `UserRowsAreKept` (`UserRowKept`): there is room for the token a call is
  about to insert (`CallsHold`; `ExcessLeavesRoom` is the lemma about
  `Excess`, and finite sets of numbers have a least one), the token a call
  renews is live until it is revoked and then its login has none
  (`CallsRenew`), a live token is the newest of its login (`LoginsFit`), and
  what is live is from now or its end is on the way (`FollowFits`).  The proof
  found that the marks were taken away too early: after a double refresh whose
  newer token was lost with its call, one live token is left, but an older one,
  which the client's logout does not name.  `SessionsInOrder` now asks for the
  newest (`Newest`).
- `AdministratorsStaySafe` (`AdminsSafe`), and the action properties
  `AdminRowsAreKept` and `AccessIsOfTheRow`: a rotation holds the only live
  token of its login; `SuperInv` adds, while no mark is set at all, that a
  change on its way that takes a super administrator away leaves another.
  Without `AdminTokMade` a first login could not be told from a rotation.

AccountProofs also has what is about calls and mails.  `AnswersTell` (`CallsAnswerTrue`) is for any
bound on the requests.  The calls are classified once (`RetriedCalls`: a call
that is sent again is a read, repeats itself, or is one of the four named);
`RequestsInOrder`, `FirstStands` and `EffectsTold` say which requests exist,
that an executed one is executed, and how many changes there are.
`MailsAreAccounted` (`MailsAccounted`) is for any number of events and any
prefetch.  That no mail is lost for want of a handler or a template is read off
the tables (`TemplatesExist`, `MailedPatterns`, `RoutesAre`), which are sets of
records for that.  The order of the mails needs `QueueFits` (the queue is
increasing and holds just the events in stage "queued"), the lemma `TakeOut`
(what `RemoveAt` leaves of a sequence) and `TakenInOrder`: what waits is later
than what was taken, and an event at work beside a later one that is at work or
mailed is marked together with it.

**StockProofs** begins with sums.  What a fold over a set computes for every
input is no induction over data here, since `FS_StrictSubsetOrderingWellFounded`
gives a least counterexample among the subsets of a finite set
(`SmallestSubset`).  From it `SumsAgree` and `SumExists` show that the fold
satisfies its recursive definition, `SumType` that a sum of naturals is one, and
`SumWithout`, `SumSame` and `SumPart` what one element, equal values and a
subset do to it; `ClaimedIs` makes `Owed`, the units that fresh reservations
claim, such a sum.

- `StockWellTyped` (`StockTypeOK`), `NeverOversoldAlone`
  (`OversoldOnlyByFault`), `CacheStaysTrue` (`CacheFollowsRow`) and the action
  property `DeletionStands` (`DeletedStaysDeleted`) are for any number of
  products, carts, reservations and slots.  `StockInv` is `StockMade` and, per
  product, what its marks do not excuse: one request at a time; `Sells`, the
  stock covers `Owed`, plus the quantity of the reservation about to be
  inserted, and a confirmation about to save has read the rows it will decrement
  and enough stock for all it still has to take (`SellCall`); and `Caches`, a
  copy that will be saved or cached agrees with the row and a stale one is
  about to be dropped.  A confirmation takes several reservations of one product
  one after the other, so `Bound` follows which are left.  The proof found that
  the first state must not be oversold already: the reservations a behaviour
  begins with stand for earlier ones of the same code.
- `CategoriesWellTyped` (`CategoryTypeOK`), `CategoryPagesStayTrue` and
  `ItemPagesStayTrue`: `SlugsUnique` is the index of the table; while no requests
  overlapped, one runs at a time, what it has read still holds and a page that
  is not true is about to be dropped (`PagesFit`, `ItemsFit`).
- `MetricsWellTyped` and `FiguresGrow` (`NeverOlder`): `MetricInv` says that what
  a row or a call holds may be told to who asks now (`AnswerFits`), and that a
  call not marked `overlap` computes while no row answers and nothing newer was
  told (`ComputesAlone`).
- `RevenueWellTyped` and `RevenueIsTrue` (`HistoryBlamed`, `HistoryNeverMore`,
  `ChangeBlamed`): the row of a subscription that nothing befell tells in which
  past months it was active (`Tells`), and one that was never unpaid in which at
  least (`TellsPaid`); what is computed of a month is therefore true
  (`CountedTells`), and what was kept stays so because past months do not change.
- `SalesWellTyped`, and `FiguresAreTrue`, that `SaleInv` implies `SeriesMisses`,
  `ReportsAgree`, `PeriodsMeet` and `StockAgrees`.  These are about one state, so
  that the invariant is only the types; the work is in arithmetic and sums.  A
  period begins at a multiple of its length and a bucket at one of its own
  (`Rounds`, `Rounded`).  The last step of a series before a day `d` starts less
  than one bucket before `d`, so that the bucket of `d` is its own or the next;
  the next has a step too unless that step is after today, and then `d` and today
  are in one bucket (`BucketMissed`).  A period that begins with a bucket, or
  that is one day, has no such `d` (`MeetsBuckets`): by-week series of a month, a
  quarter or a year and by-month series of a week are what is left.  That the
  revenue by category and by type is the revenue of the orders is that a sum over
  a set is the sum of the sums over its parts (`SumParts`, `SumBeside`), used
  twice: the sold items by order and by kind (`RevenueInParts`).

**CustomerProofs** has carts and addresses, and then all of MCCustomers at once.

- `CartsWellTyped` (`CartsTypeOK`), `CartsStayConsistent` (`CartsConsistent`) and
  the action properties `MergesKeepLines` (`MergeKeepsLines`) and
  `RemovedLinesStayRemoved` (`RemovedStaysRemoved`) are for any lines,
  quantities and calls.  `CartInv` is `CartMade`, what a call holds whatever
  happens, and a part for each fault that has not happened: without overlaps
  one call runs, and what it has read still holds (`CartFits`; for a merge
  `MergeFits`, every line of the guest is still to do, about to be saved, or the
  user's already); `NoneEmpty`, no quantity of nothing is in a cart or on its way
  into one; `CopiesFollow`, a copy that is not the cart has a call that will
  drop it; `RemindFits`, a mail has its mark or a call about to set it.  Why a
  merge drops no line is `MergeFits` at its end; why a stale copy needs the calls
  that end, die or meet an expiry to be marked is `CopiesFollow`.
- `AddressesWellTyped` (`AddressTypeOK`), `AddressesStayConsistent`
  (`AddressesConsistent`) and the action property `DeletedAddressesStay`
  (`DeletedAddressStays`): without overlaps, the address about to be saved
  exists or there was room for it, and each default that it takes is still to
  be cleared or was cleared on all who had it (`WriteFits`); so a default moves
  and does not multiply.
- `OwnDataStaysConsistent` (`OwnDataConsistent`), `CustomersKeepRows`
  (`RowsKept`) and `CustomersWellTyped` (`CustomerTypeOK`): `PartsRun` shows that a
  behaviour of MCCustomers is one of each of its ten parts, so that what is
  proved of a part holds of the whole; the types come from the inductive
  invariants of all ten.

**Assumptions** are those of the modules: the values that stand for "nothing"
(`NoRow`, `NoOrder`, `NoIntent`, `NoAnswer`, `NoCode`, `NoLink`, `NoAccount`,
`NoToken`, `NoAdmin`, `NoAdminTok`, `NoPrice`, `NoImage`, `Nothing`, `NoLines`,
`NoCopy`, `Unanswered`, `NoAddress`, `NoPlan`, `NoMonth`, `NoFigure`) are not
values of the set they leave (nor is `NoRow` a subscription, a product or a
reservation), reservations are finitely many, loads name slots, tokens, links,
subscriptions, periods, amounts, Prices and images there are, name lines,
owners and kinds of default there are, and begin with a super administrator,
the slots of carts and addresses and the address ids are finitely many, image
ids and featured products are finitely many, amounts are numbers and 0 is one,
orders and products of the reports are finitely many, prices, thresholds and
stocks are numbers, a product has one of the three types, an order moves to one
of the statuses of `OrderStatus`, weeks, months, quarters and years last at
least one of what they count, subscriptions of the revenue are no numbers
(months are), events have one of the four types, `EventOf` and `PaidEventOf`
give each activation an event, `OrderOf` each event an order, licence products
are products, a checkout asks at least once, the gateway may send more than two
requests, codes, links and tokens are numbered, a user may have one session,
and at least one wrong guess and one wrong password are allowed.

**Only model-checked**: the liveness properties (`CheckoutsEnd`, `CallsEnd`,
`PendingOrdersLeave`, `FoundIsConfirmed`), since TLAPS reasons about neither
fairness nor ENABLED.  Every invariant and every action property of a passing
run is stated by a theorem.  No module uses a RECURSIVE operator.

## 7. Findings

Each is a run whose counterexample is a behaviour of the code.

- `payment_undone` (`ConfirmedStaysPaid`).  A checkout finds the pending
  order; the payment of another tab is confirmed; the checkout saves its copy
  and the order is pending again (`order.service.ts:130`), and a day later the
  cleanup deletes it.  The comment of `pending-orders-cleanup.cron.ts:34-36`
  rules out the same overwrite for the cron, whose single DELETE is indeed
  safe.
- `payment_forgotten` (`PaymentsAreConfirmed`).  The webhook overtakes the
  event that attaches the intent; the handler throws "so Stripe retries"
  (`webhook.service.ts:297`), but Stripe was answered 200 before it ran.
- `paid_undelivered` (`PaidIsDelivered`).  The first creation stops after the
  order and before its items; the retry returns that order; it is paid and
  confirmed with nothing in it.
- `charged_twice` (`ChargedOnce`).  Two tabs mint an intent each for one order
  and both are paid.

Seen while modelling, and left without a run because no text of the repository
says otherwise: two pending orders of one cart; `ORDER.SHIPPED` sent twice by
two edits that read the same status; products added during the payment cleared
from the cart by `ClearPaidCart`; an intent still payable after the cron
deleted its order; licence keys generated twice when two intents of one order
succeed together; the late failure of an intent cancelling the order that a
later attempt paid.  The order-service README also differs from its code where
the code is consistent in itself: a failed payment gives `cancelled` and not
`failed` (`README.md:11`), and the cleanup deletes hourly and releases no
stock (`README.md:19`).

The modules of one part each show the following, all of them as marks in
invariants that hold, not as failed runs.

- *Subscriptions.*  `handleInvoicePaid` saves the copy it read
  (`webhook.service.ts:513`): a late save of an incomplete copy undoes
  `active`, and the cron then deletes a row that is paid, which
  `incomplete-subscriptions-cleanup.cron.ts:32-34` calls race-safe.
  `invoice.payment_failed` of a first payment makes an incomplete row
  `past_due`, whose expiry is then mailed as a cancellation, which
  `webhook.service.ts:659-665` means to avoid.  A `created` event that comes
  after another status welcomes an unpaid subscription.
- *Licences.*  The token of a link is in its mail only; a delivery that stops
  before the mail, or whose second look-up of the order fails, leaves keys
  nobody can activate.  Nothing revokes the keys of a refunded order:
  `revokeByOrderId` has no caller.
- *Accounts.*  A late answer to USER.CREATE makes the retry a conflict, and no
  verification mail is sent.  Asking for a link deletes the one that was mailed
  before the new one is.  `emitAccountDeleted` and `emitPasswordChanged` of
  `auth-events.publisher.ts` have no caller, so their handlers never run.
- *Administrators.*  Someone may demote themselves and leave nobody; a
  deactivated administrator keeps the role until the access token expires; a
  login that was at work brings a deactivated row back.
- *Cart.*  The reminder looks at `carts.updated_at`, which changes of lines do
  not move; `mergeGuestCart` drops a line when the catalog does not answer, and
  may leave one with quantity 0; expired guest carts stay in Redis.
- *Catalog.*  `update` drops the key of the new slug and leaves the old page
  (`product.service.ts:642`); no product handler drops a category's page; a
  bulk delete leaves the Prices at Stripe active; `addImage` passes the limit
  of images; confirmed reservations leave the cached stock alone; the events
  of order-service that should confirm and release reservations reach no
  handler.
- *Reports.*  Grouping by week (of a month, quarter or year) or by month (of a
  week) leaves the running bucket out; orders in `processing` are no revenue;
  zeros from a service that did not answer are kept for the life of a figure;
  the revenue of past months is recomputed from today's rows.
- *Mails.*  The alert of low stock is deduplicated by a cache that is optional
  and not bound (`catalog-events.handler.ts:18`), so that every event is
  mailed; two mails handled at a time may arrive in reverse order.
- *Gateway.*  The comment "No retry: mutation, must stay idempotent" is kept by
  the services' classes, not by four controllers: creating and deleting an
  administrator, cancelling a subscription and subscribing are retried once.

## 8. Not modelled

`PROJECT.json` lists every component with its status.  Left out:

- `libs/s3`, migrations, seeds, DTO validation, translations and Swagger: no
  behaviour over time; connection handling in `libs/common`, the rendering of
  mails and of exported files: pure input and output;
- single-row edits that no other code depends on: carousel, hero text, contact
  messages, the display order of categories;
- code that nothing calls or no event reaches: `cancelAllForCustomer`,
  `revokeAllForUser`, `revokeByOrderId`, the stock operations of
  `ProductService`;
- order numbers, amounts, addresses of an order, translations of a product and
  all listings without a cache;
- of the gateway, the mapping of HTTP to messages and the guards other than
  SuperAdminGuard, which all decide from the token alone.
