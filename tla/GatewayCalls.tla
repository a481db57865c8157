---------------------------- MODULE GatewayCalls ----------------------------
(***************************************************************************)
(* How api-gateway calls the services: it sends a request, waits for an    *)
(* answer no longer than a timeout, and sends it again after a timeout or  *)
(* a refusal as often as the call says.  A request that timed out is not   *)
(* withdrawn: the service still executes it, at any time, also at the time *)
(* it executes the next one.  A behaviour makes one call; its effect says  *)
(* what executing it does when it has been executed before:                *)
(*   "read"   nothing changes                                              *)
(*   "same"   the state is the one the first execution left                *)
(*   "again"  it is done once more (a second row, a second mail)           *)
(*   "once"   it is refused (the slug is taken, the row is gone)           *)
(*   "unless" it is done once more unless the first was done when it began *)
(*            (the status leaves no trace, but the mail goes out again)    *)
(***************************************************************************)
EXTENDS Naturals, FiniteSets

CONSTANTS Attempts,     \* the numbers of the requests of a call
          MaxRequests   \* one more than the retries of any call

ASSUME CallAssumption == MaxRequests \in Nat /\ MaxRequests > 2 /\ Attempts = 1..MaxRequests

VARIABLES
  call,       \* the call that is made
  valid,      \* whether the service would take it at first
  request,    \* what becomes of each request
  attempt,    \* the request the gateway waits for
  timedOut,   \* those it gave up waiting for
  changes,    \* how often the call has been executed with an effect
  informed,       \* the requests that found an effect when they began
  broken,     \* those that ended in an error on the way
  reply       \* what the client is told

callVars == <<call, valid, request, attempt, timedOut, changes, informed, broken, reply>>

Calls(effect, retries, names) ==
  {[name |-> n, effect |-> effect, retries |-> retries] : n \in names}

(* sendMessage: a read is retried twice, a mutation never.                  *)
Reads(names) == Calls("read", 2, names)
(* Mutant: every call is retried.                                           *)
WriteTwice(effect, names) == Calls(effect, 2, names)
Write(effect, names) == Calls(effect, 0, names)

CategoryCalls ==
  Reads({"categories", "category by slug", "category by id"})
    \cup Write("once", {"create category", "delete category"})
    \cup Write("same", {"update category", "reorder categories"})

ProductCalls ==
  Reads({"products", "product by slug", "product by id", "search products",
         "featured products", "products of a category"})
    \cup Write("once", {"create product", "delete product"})
    \cup Write("same", {"update product", "delete products"})

ImageCalls ==
  Write("again", {"add image", "confirm upload"})
    \cup Write("once", {"delete image"})
    \cup Write("same", {"set primary image", "reorder images"})
    \cup Write("read", {"request upload"})

StockCalls ==
  Reads({"stock", "stock alerts", "stock availability"})
    \cup Write("same", {"update stock", "reserve stock", "release stock",
                        "confirm stock"})

PageCalls ==
  Reads({"homepage", "carousel", "top services", "top products", "top licenses"})
    \cup Write("again", {"contact"})

ContentCalls ==
  Reads({"slides", "hero text", "top lists", "contact messages"})
    \cup Write("again", {"create slide"})
    \cup Write("once", {"delete slide", "delete contact message"})
    \cup Write("same", {"update slide", "reorder slides", "update hero text",
                        "update top list", "update contact message"})
    \cup Write("read", {"request slide upload"})

CartCalls ==
  Reads({"cart"})
    \cup Write("again", {"add item"})
    \cup Write("once", {"remove item"})
    \cup Write("same", {"update item", "clear cart", "merge cart"})

ProfileCalls ==
  Reads({"profile"})
    \cup Write("same", {"update profile", "update language"})
    \cup Write("once", {"update password", "delete account"})

AnalyticsCalls ==
  Reads({"dashboard", "sales", "sales by category", "sales by product type",
         "average cart", "mrr", "stock status", "export sales",
         "export orders", "export subscriptions"})

AuthCalls ==
  Write("once", {"register", "verify email", "reset password",
                 "refresh token", "verify code", "refresh admin token"})
    \cup Write("again", {"login", "resend verification", "forgot password",
                         "admin login", "resend code"})
    \cup Write("same", {"logout", "admin logout"})

(* The controllers that call a service on their own give their own counts.  *)
AdminCalls ==
  Reads({"admins", "admin"})
    \cup Calls("once", 1, {"create admin", "delete admin"})
    \cup Calls("same", 1, {"update admin"})

OrderCalls == Reads({"my orders", "my order"})

OrderAdminCalls ==
  Reads({"all orders", "any order"}) \cup Calls("unless", 1, {"order status"})

SubscriptionCalls ==
  Reads({"my subscriptions", "my subscription"})
    \cup Calls("again", 1, {"subscribe"})
    \cup Calls("once", 1, {"cancel now"})
    \cup Calls("same", 1, {"cancel at period end"})

SubscriptionAdminCalls ==
  Reads({"all subscriptions", "any subscription"})
    \cup Calls("once", 1, {"cancel subscription"})
    \cup Calls("same", 1, {"reactivate subscription", "subscription terms"})

LicenseCalls ==
  Calls("read", 1, {"my licenses", "my license"})
    \cup Write("once", {"activate license"})

AddressCalls ==
  Write("read", {"addresses"}) \cup Write("again", {"create address"})
    \cup Write("once", {"delete address"}) \cup Write("same", {"update address"})

UserAdminCalls ==
  Write("read", {"users", "user", "orders of a user", "subscriptions of a user"})
    \cup Write("same", {"user status"})

AllCalls ==
  CategoryCalls \cup ProductCalls \cup ImageCalls \cup StockCalls
    \cup PageCalls \cup ContentCalls \cup CartCalls \cup ProfileCalls
    \cup AnalyticsCalls \cup AuthCalls \cup AdminCalls \cup OrderCalls
    \cup OrderAdminCalls \cup SubscriptionCalls \cup SubscriptionAdminCalls
    \cup LicenseCalls \cup AddressCalls \cup UserAdminCalls
----------------------------------------------------------------------------
CallInit ==
  /\ call \in AllCalls /\ valid \in BOOLEAN
  /\ request = [a \in Attempts |-> IF a = 1 THEN "sent" ELSE "none"]
  /\ attempt = 1 /\ timedOut = {} /\ changes = 0 /\ reply = "waiting"
  /\ informed = {} /\ broken = {}

Becomes(a, stage) == request' = [request EXCEPT ![a] = stage]
AsAsked == UNCHANGED <<call, valid, attempt, timedOut, reply>>

(* A service takes a request, and refuses at once what it need not try.     *)
Begin(a) ==
  /\ request[a] = "sent"
  /\ Becomes(a, IF valid /\ ~(call.effect = "once" /\ changes > 0)
                THEN "running" ELSE "refused")
  /\ informed' = IF changes > 0 THEN informed \cup {a} ELSE informed
  /\ UNCHANGED <<changes, broken>> /\ AsAsked

(* Whether executing it to the end does something.                          *)
Effective(a) ==
  \/ call.effect = "again"
  \/ call.effect = "unless" /\ a \notin informed
  \/ call.effect \in {"same", "once"} /\ changes = 0

(* It executes it to the end.  Of two at a time that can be done once, the  *)
(* unique index or Stripe refuses the second, or it finds nothing to do.    *)
Finish(a) ==
  /\ request[a] = "running"
  /\ \/ Becomes(a, "done")
     \/ call.effect = "once" /\ changes > 0 /\ Becomes(a, "refused")
  /\ changes' = IF Effective(a) THEN changes + 1 ELSE changes
  /\ UNCHANGED <<informed, broken>> /\ AsAsked

(* An error on the way, before or after it did something.                   *)
Break(a) ==
  /\ request[a] = "running"
  /\ Becomes(a, "refused") /\ broken' = broken \cup {a}
  /\ \/ UNCHANGED changes
     \/ Effective(a) /\ changes' = changes + 1
  /\ UNCHANGED informed /\ AsAsked

(* A service or the broker stops: the request is lost, or its answer.       *)
Lose(a) ==
  /\ request[a] \in {"sent", "running", "done", "refused"}
  /\ Becomes(a, "lost")
  /\ UNCHANGED <<changes, informed, broken>> /\ AsAsked

(* What retry does with an error: the next request, or the client is told.  *)
RetryOr(answer) ==
  IF attempt <= call.retries
  THEN /\ attempt' = attempt + 1
       /\ request' = [request EXCEPT ![attempt + 1] = "sent"]
       /\ UNCHANGED reply
  ELSE reply' = answer /\ UNCHANGED <<request, attempt>>

TakesAnswer ==
  /\ reply = "waiting" /\ request[attempt] = "done"
  /\ reply' = "ok"
  /\ UNCHANGED <<call, valid, request, attempt, timedOut, changes, informed, broken>>

TakesRefusal ==
  /\ reply = "waiting" /\ request[attempt] = "refused"
  /\ RetryOr("refused")
  /\ UNCHANGED <<call, valid, timedOut, changes, informed, broken>>

TimesOut ==
  /\ reply = "waiting"
  /\ timedOut' = timedOut \cup {attempt}
  /\ RetryOr("unavailable")
  /\ UNCHANGED <<call, valid, changes, informed, broken>>

CallNext ==
  \/ \E a \in Attempts : Begin(a) \/ Finish(a) \/ Break(a) \/ Lose(a)
  \/ TakesAnswer \/ TakesRefusal \/ TimesOut

CallSpec == CallInit /\ [][CallNext]_callVars
----------------------------------------------------------------------------
(* A call and its requests have their types, and the retries fit.           *)
CallTypeOK ==
  /\ call \in AllCalls /\ valid \in BOOLEAN
  /\ \A c \in AllCalls : c.retries < MaxRequests
  /\ request \in [Attempts -> {"none", "sent", "running", "done", "refused", "lost"}]
  /\ attempt \in Attempts /\ timedOut \subseteq 1..attempt
  /\ changes \in Nat /\ informed \subseteq Attempts /\ broken \subseteq Attempts
  /\ reply \in {"waiting", "ok", "refused", "unavailable"}

(* Who is told that a call is refused may rely on it: none of its requests  *)
(* did anything, unless one of them met an error on its way.  Not so for    *)
(* the calls that are retried although they can be done once only: their    *)
(* answer came too late the first time.                                     *)
RefusedIsUndone ==
  reply = "refused" /\ changes > 0 =>
    \/ broken # {}
    \/ /\ call.name \in {"create admin", "delete admin", "cancel subscription",
                        "cancel now"}
       /\ timedOut # {}

(* One call is done at most once, the comments on the calls say, save to    *)
(* subscribe and to ship an order: a first request that is late or met an   *)
(* error is a second subscription, and a second mail if it runs beside the  *)
(* next one.                                                                *)
DoneOnce ==
  changes > 1 => /\ call.name \in {"subscribe", "order status"}
                 /\ (timedOut # {} \/ (call.name = "subscribe" /\ broken # {}))

(* Who is told that it is done may rely on it.                              *)
OkIsDone == reply = "ok" => valid /\ (call.effect # "read" => changes > 0)

(* What a client is told about a call against what the services did.        *)
CallsAnswerTrue == RefusedIsUndone /\ DoneOnce /\ OkIsDone
=============================================================================
