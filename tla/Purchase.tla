------------------------------ MODULE Purchase ------------------------------
(***************************************************************************)
(* A purchase from end to end: the gateway's checkout endpoint, Stripe,    *)
(* order-service and payment-service's webhook processing, joined by the   *)
(* messages they exchange over RabbitMQ.                                   *)
(*                                                                         *)
(*   gateway --CREATE_ORDER (rpc, one retry)--> order-service              *)
(*   gateway --RETRIEVE / CREATE_PAYMENT_INTENT (rpc)--> Stripe            *)
(*   gateway --UPDATE_ORDER_STATUS (event)--> order-service                *)
(*   Stripe  --webhook, answered 200 at once--> gateway --event--> payment *)
(*   payment --GET_ORDER_BY_PAYMENT_INTENT (rpc)--> order-service          *)
(*   payment --PAYMENT.CONFIRMED / FAILED / REFUNDED (event)--> order      *)
(*                                                                         *)
(* Events are delivered in any order: publishers differ, and two handlers  *)
(* started one after the other reach the database in either order.         *)
(* Administrators take no part here: OrderSystem has them.                 *)
(***************************************************************************)
EXTENDS OrderSystem

CONSTANTS
  Checkouts,        \* activations of POST checkout/payment-intent
  MaxTries,         \* CREATE_ORDER is sent again once, after retry(1): 2
  Events, Deliveries, EventOf, LicenseProducts, NoAnswer, FaultyDeliveries,
  FaultyCheckouts,  \* checkouts whose calls to payment-service may fail
  Declinable,       \* bound: the intents a card may be declined on
  Refundable        \* bound: the intents that may be refunded

ASSUME CallsAssumption   == Calls = Checkouts \X (1 .. MaxTries)
ASSUME PatchesAssumption == Patches = Checkouts
ASSUME NoticesAssumption == Notices = Deliveries
ASSUME IntentsAssumption == \A e \in Events : e.intent \in Intents

VARIABLES
  checkout,         \* the gateway's activations
  stripe,           \* Stripe's PaymentIntents
  claims, licenses, invoices, hook

Hooks == INSTANCE WebhookService

ASSUME TriesAssumption == MaxTries \in Nat \ {0}
(* What WebhookService assumes of its parameters.                           *)
ASSUME EventsAssumption   == \A e \in Events : e.type \in Hooks!EventTypes
ASSUME EventOfAssumption  == EventOf \in [Deliveries -> Events]
ASSUME LicenseAssumption  == LicenseProducts \subseteq Products
ASSUME NoAnswerAssumption == NoAnswer \notin Hooks!Answers

gatewayVars  == <<checkout, stripe>>
hookVars     == <<claims, licenses, invoices, hook>>
purchaseVars == <<orderVars, gatewayVars, hookVars>>

PurchaseTypeOK ==
  /\ OrderTypeOK
  /\ Hooks!WebhookTypeOK
  /\ checkout \in [Checkouts ->
       [pc : {"idle", "asking", "retrieve", "mint", "minted", "paying", "failed"},
        cart : Carts \cup {NoCart}, try : 0 .. MaxTries,
        order : Orders \cup {NoOrder},
        lines : SUBSET Products,
        intent : Intents \cup {NoIntent},
        reminted : BOOLEAN]]
  /\ stripe \in [Intents ->
       [state : {"unborn", "open", "processing", "succeeded"},
        order : Orders \cup {NoOrder}, lines : SUBSET Products,
        declined : BOOLEAN, refunded : BOOLEAN]]

-----------------------------------------------------------------------------
(* The gateway: createPaymentIntent.                                        *)

CallOf(x) == <<x, checkout[x].try>>

StartCheckout(x, k) ==
  /\ checkout[x].pc = "idle"
  /\ checkout' = [checkout EXCEPT ![x].pc = "asking", ![x].cart = k, ![x].try = 1]
  /\ SendCall(<<x, 1>>, k)
  /\ UNCHANGED stripe

(* timeout(10000) or an error, then retry(1): a second CREATE_ORDER, while  *)
(* the first may still be at work.                                          *)
RetryOrder(x) ==
  /\ checkout[x].pc = "asking"
  /\ checkout[x].try < MaxTries
  /\ call[CallOf(x)].pc # "replied"
  /\ checkout' = [checkout EXCEPT ![x].try = @ + 1]
  /\ SendCall(<<x, checkout[x].try + 1>>, checkout[x].cart)
  /\ UNCHANGED stripe

(* Mutants: a status nobody expects, and an error that is swallowed.        *)
GiveUpAsTimeout(x) ==
  /\ checkout[x].pc = "asking"
  /\ checkout[x].try = MaxTries
  /\ call[CallOf(x)].pc # "replied"
  /\ checkout' = [checkout EXCEPT ![x].pc = "timeout"]
  /\ UNCHANGED <<orderVars, stripe>>

SwallowError(x) ==
  /\ checkout[x].pc = "asking"
  /\ checkout[x].try = MaxTries
  /\ call[CallOf(x)].pc # "replied"
  /\ UNCHANGED <<orderVars, gatewayVars>>

GiveUpOrder(x) ==
  /\ checkout[x].pc = "asking"
  /\ checkout[x].try = MaxTries
  /\ call[CallOf(x)].pc # "replied"
  /\ checkout' = [checkout EXCEPT ![x].pc = "failed"]
  /\ UNCHANGED <<orderVars, stripe>>

TakeOrder(x) ==
  /\ checkout[x].pc = "asking"
  /\ call[CallOf(x)].pc = "replied"
  /\ LET reply == call[CallOf(x)].copy IN
       checkout' = [checkout EXCEPT
         ![x].pc = IF reply.intent = NoIntent THEN "mint" ELSE "retrieve",
         ![x].order = call[CallOf(x)].order,
         ![x].lines = reply.lines,
         ![x].intent = reply.intent]
  /\ UNCHANGED <<orderVars, stripe>>

(* Mutant: the reused intent is attached to the order once more.            *)
ReuseAndAttach(x) ==
  /\ checkout[x].pc = "retrieve"
  /\ stripe[checkout[x].intent].state = "open"
  /\ checkout' = [checkout EXCEPT ![x].pc = "paying"]
  /\ SendPatch(x, checkout[x].order, checkout[x].intent)
  /\ UNCHANGED stripe

(* RETRIEVE_PAYMENT_INTENT: any error falls through to a new intent.        *)
ReuseIntent(x) ==
  /\ checkout[x].pc = "retrieve"
  /\ stripe[checkout[x].intent].state = "open"
  /\ checkout' = [checkout EXCEPT ![x].pc = "paying"]
  /\ UNCHANGED <<orderVars, stripe>>

RefuseIntent(x) ==
  /\ checkout[x].pc = "retrieve"
  /\ stripe[checkout[x].intent].state # "open" \/ x \in FaultyCheckouts
  /\ checkout' = [checkout EXCEPT ![x].pc = "mint"]
  /\ UNCHANGED <<orderVars, stripe>>

(* CREATE_PAYMENT_INTENT, for the total of the order the reply carried.     *)
NewIntent(i, o, ps) ==
  stripe' = [stripe EXCEPT ![i].state = "open", ![i].order = o, ![i].lines = ps]

Mint(x, i) ==
  /\ checkout[x].pc = "mint"
  /\ stripe[i].state = "unborn"
  /\ NewIntent(i, checkout[x].order, checkout[x].lines)
  /\ checkout' = [checkout EXCEPT ![x].pc = "minted", ![x].intent = i]
  /\ UNCHANGED orderVars

(* The answer came after timeout(10000): retry(1) mints again.              *)
MintAgain(x, i) ==
  /\ x \in FaultyCheckouts
  /\ checkout[x].pc = "minted" /\ ~checkout[x].reminted
  /\ stripe[i].state = "unborn"
  /\ NewIntent(i, checkout[x].order, checkout[x].lines)
  /\ checkout' = [checkout EXCEPT ![x].intent = i, ![x].reminted = TRUE]
  /\ UNCHANGED orderVars

FailMint(x) ==
  /\ x \in FaultyCheckouts
  /\ checkout[x].pc \in {"mint", "minted"}
  /\ checkout' = [checkout EXCEPT ![x].pc = "failed"]
  /\ UNCHANGED <<orderVars, stripe>>

(* The intent is emitted to order-service and its secret goes to the client.*)
Respond(x) ==
  /\ checkout[x].pc = "minted"
  /\ checkout' = [checkout EXCEPT ![x].pc = "paying"]
  /\ SendPatch(x, checkout[x].order, checkout[x].intent)
  /\ UNCHANGED stripe

GatewayStep(x) ==
  \/ RetryOrder(x) \/ GiveUpOrder(x) \/ TakeOrder(x)
  \/ ReuseIntent(x) \/ RefuseIntent(x)
  \/ \E i \in Intents : Mint(x, i) \/ MintAgain(x, i)
  \/ FailMint(x) \/ Respond(x)

-----------------------------------------------------------------------------
(* Stripe and the customer's card.                                          *)

Submit(i) ==
  /\ stripe[i].state = "open"
  /\ \E x \in Checkouts : checkout[x].pc = "paying" /\ checkout[x].intent = i
  /\ stripe' = [stripe EXCEPT ![i].state = "processing"]

Succeed(i) ==
  /\ stripe[i].state = "processing"
  /\ stripe' = [stripe EXCEPT ![i].state = "succeeded"]

Decline(i) ==
  /\ i \in Declinable
  /\ stripe[i].state = "processing"
  /\ stripe' = [stripe EXCEPT ![i].state = "open", ![i].declined = TRUE]

Refund(i) ==
  /\ i \in Refundable
  /\ stripe[i].state = "succeeded" /\ ~stripe[i].refunded
  /\ stripe' = [stripe EXCEPT ![i].refunded = TRUE]

StripeStep(i) == Submit(i) \/ Succeed(i) \/ Decline(i) \/ Refund(i)

Happened(e) ==
  CASE e.type = "succeeded"      -> stripe[e.intent].state = "succeeded"
    [] e.type = "payment_failed" -> stripe[e.intent].declined
    [] e.type = "refunded"       -> stripe[e.intent].refunded
    [] OTHER                     -> FALSE

-----------------------------------------------------------------------------
(* The webhook, joined to what it reads from and sends to order-service.    *)

(* handleStripeWebhook: emit, then 200 whatever becomes of the event.       *)
Deliver(d) == Happened(EventOf[d]) /\ Hooks!SendHook(d) /\ UNCHANGED orderVars

(* GET_ORDER_BY_PAYMENT_INTENT.                                             *)
OrderAnswers(i) ==
  IF WithIntent(i) = {} THEN {NoAnswer}
  ELSE {[order |-> o, items |-> orders[o].items] : o \in WithIntent(i)}

AnswersTo(d) ==
  OrderAnswers(EventOf[d].intent)
    \cup IF d \in FaultyDeliveries THEN {NoAnswer} ELSE {}

EmitVerdict(d) ==
  /\ Hooks!EmitVerdict(d)
  /\ SendNotice(d, Hooks!KindOf(d), EventOf[d].intent)

AskOrderService(d) ==
  /\ \E a \in AnswersTo(d) : Hooks!FetchOrder(d, a) \/ Hooks!Notify(d, a)
  /\ UNCHANGED orderVars

HookStep(d) ==
  \/ Hooks!LocalHookStep(d) /\ UNCHANGED orderVars
  \/ AskOrderService(d)
  \/ EmitVerdict(d)

-----------------------------------------------------------------------------
PurchaseInit ==
  /\ OrderInit
  /\ Hooks!WebhookInit
  /\ checkout = [x \in Checkouts |->
       [pc |-> "idle", cart |-> NoCart, try |-> 0, order |-> NoOrder,
        lines |-> {}, intent |-> NoIntent, reminted |-> FALSE]]
  /\ stripe = [i \in Intents |->
       [state |-> "unborn", order |-> NoOrder, lines |-> {},
        declined |-> FALSE, refunded |-> FALSE]]

Shop ==
  /\ \/ \E x \in Checkouts, k \in Carts : StartCheckout(x, k)
     \/ \E x \in Checkouts : GatewayStep(x)
  /\ UNCHANGED hookVars

Pay ==
  /\ \E i \in Intents : StripeStep(i)
  /\ UNCHANGED <<orderVars, checkout, hookVars>>

ProcessEvent ==
  /\ \E d \in Deliveries : Deliver(d) \/ HookStep(d)
  /\ UNCHANGED gatewayVars

KeepOrders ==
  /\ \/ OrderStep
     \/ \E k \in Carts, p \in Products : AddToCart(k, p)
  /\ UNCHANGED <<gatewayVars, hookVars>>

PurchaseNext == Shop \/ Pay \/ ProcessEvent \/ KeepOrders

PurchaseSpec == PurchaseInit /\ [][PurchaseNext]_purchaseVars

(* Handlers in flight run on; Stripe delivers each event it has, and the    *)
(* gateway answers each request.  Customers, time and the cron owe nothing. *)
PurchaseFairness ==
  /\ \A c \in Calls   : WF_purchaseVars(CallStep(c) /\ UNCHANGED <<gatewayVars, hookVars>>)
  /\ \A p \in Patches : WF_purchaseVars(PatchStep(p) /\ UNCHANGED <<gatewayVars, hookVars>>)
  /\ \A n \in Notices : WF_purchaseVars(NoticeStep(n) /\ UNCHANGED <<gatewayVars, hookVars>>)
  /\ \A x \in Checkouts : WF_purchaseVars(GatewayStep(x) /\ UNCHANGED hookVars)
  /\ \A d \in Deliveries :
       WF_purchaseVars((Deliver(d) \/ HookStep(d)) /\ UNCHANGED gatewayVars)

FairPurchaseSpec == PurchaseSpec /\ PurchaseFairness

(* An order nobody writes to gets old, and the cron fires every hour.       *)
CronFairness ==
  /\ \A o \in Orders : WF_purchaseVars(GoIdle(o) /\ UNCHANGED <<gatewayVars, hookVars>>)
  /\ WF_purchaseVars(CleanupPending /\ UNCHANGED <<gatewayVars, hookVars>>)

TimelyPurchaseSpec == FairPurchaseSpec /\ CronFairness

-----------------------------------------------------------------------------
(* Safety.                                                                  *)

(* What Stripe knows of some intent minted for order o.                     *)
IntentOf(o, Fact(_)) == \E i \in Intents : stripe[i].order = o /\ Fact(stripe[i])

(* An order's status tells the truth: a paid order was charged, for what it *)
(* lists, a cancelled one was declined and a refunded one refunded, on an   *)
(* intent minted for that very order.  The fact crosses Stripe, two queues  *)
(* and four handlers before it reaches the row.                             *)
StatusIsTrue ==
  \A o \in Rows : LET s == orders[o].status IN
    /\ s = "paid" => IntentOf(o, LAMBDA t : /\ t.state = "succeeded"
                                            /\ t.lines = orders[o].lines)
    /\ s = "cancelled" => IntentOf(o, LAMBDA t : t.declined)
    /\ s = "refunded"  => IntentOf(o, LAMBDA t : t.refunded)

(* A paid order is complete: every product charged is one of its items, and *)
(* its license products are licensed.                                       *)
PaidIsDelivered ==
  \A o \in Rows : orders[o].status = "paid" =>
    /\ orders[o].items = orders[o].lines
    /\ orders[o].lines \cap LicenseProducts # {} => Hooks!LicensesOf(o) # {}

(* The gateway, Stripe and payment-service ask of order-service nothing     *)
(* that OrderSystem does not allow: what is shown of OrderSystem holds of a *)
(* whole purchase.                                                          *)
ImplementsOrderSystem == OrderSpec

(* Every checkout ends with an intent to pay or an error.                   *)
CheckoutsEnd ==
  \A x \in Checkouts :
    checkout[x].pc = "asking" ~> checkout[x].pc \in {"paying", "failed"}

-----------------------------------------------------------------------------
(* Once payment-service has found the order of a payment, the order is paid *)
(* at some time: no duplicate and no failure or copy that overtakes the     *)
(* verdict on its way to the row makes it disappear, unless the cron has    *)
(* deleted the order.  Stated without fairness of the cron, which would     *)
(* delete every order that stays pending.                                   *)
FoundIsConfirmed ==
  \A d \in Deliveries :
    hook[d].pc = "fetched"
      ~> hook[d].answer # NoAnswer /\ LET o == hook[d].answer.order IN
           o \in Rows => orders[o].status = "paid"

-----------------------------------------------------------------------------
(* What the repository says and the code does not do.                       *)

(* webhook.service.ts:296-301: when the order does not carry the intent yet *)
(* the handler throws so that Stripe retries: a payment for an order that   *)
(* is still there is confirmed in the end.                                  *)
PaymentsAreConfirmed ==
  \A i \in Intents :
    stripe[i].state = "succeeded"
      ~> \/ stripe[i].order \notin Rows
         \/ orders[stripe[i].order].status = "paid"

(* checkout.controller.ts:83-84: a fresh intent is only created when none   *)
(* exists or the existing one is no longer payable: one charge per order.   *)
ChargedOnce ==
  \A i, j \in Intents :
    /\ stripe[i].state = "succeeded" /\ stripe[j].state = "succeeded"
    /\ stripe[i].order = stripe[j].order
    => i = j
=============================================================================
