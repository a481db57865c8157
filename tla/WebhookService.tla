--------------------------- MODULE WebhookService ---------------------------
(***************************************************************************)
(* payment-service's processing of the Stripe events that concern orders.  *)
(*                                                                         *)
(* One activation of handleWebhookEvent per message of the                 *)
(* PAYMENT.WEBHOOK_RECEIVED event pattern; activations of the same event   *)
(* and of different ones interleave at every await.  Its local variables   *)
(* are a record of hook.  What order-service answers to an RPC is a        *)
(* parameter of the action that receives the answer.                       *)
(***************************************************************************)
EXTENDS Naturals, FiniteSets

CONSTANTS
  Events,          \* Stripe events: records [type, intent]
  Deliveries,      \* activations; bounds their number
  EventOf,         \* the event each activation is for
  LicenseProducts, \* the products of type "license"
  Orders,
  Products,
  NoAnswer,        \* null: order-service knows no order with that intent
  FaultyDeliveries \* activations an error or a crash may stop

(* The order as GET_ORDER_BY_PAYMENT_INTENT returns it.                     *)
Answers == [order : Orders, items : SUBSET Products]

EventTypes == {"succeeded", "payment_failed", "refunded", "other"}

ASSUME EventsAssumption   == \A e \in Events : e.type \in EventTypes
ASSUME EventOfAssumption  == EventOf \in [Deliveries -> Events]
ASSUME LicenseAssumption  == LicenseProducts \subseteq Products
ASSUME NoAnswerAssumption == NoAnswer \notin Answers

VARIABLES
  claims,       \* processed_webhooks
  licenses,     \* license_keys: <<order, product, activation that issued it>>
  invoices,     \* Stripe invoices: <<order, activation that generated it>>
  hook          \* the activations

webhookVars == <<claims, licenses, invoices, hook>>

HookPC == {"unsent", "sent", "claimed", "fetched", "generate", "issued",
           "invoiced", "emitted", "done", "skipped", "releasing",
           "released", "failed", "dead"}

(* Past the insert into processed_webhooks and not yet settled.             *)
Processing == {"claimed", "fetched", "generate", "issued", "invoiced",
               "emitted", "releasing"}

Mails == {"confirmed", "licenses", "failed", "refunded"}

WebhookTypeOK ==
  /\ claims   \subseteq Events
  /\ licenses \subseteq Orders \X Products \X Deliveries
  /\ invoices \subseteq Orders \X Deliveries
  /\ hook \in [Deliveries -> [pc : HookPC,
                              answer : Answers \cup {NoAnswer},
                              issued : SUBSET Products,
                              mails : SUBSET Mails]]

-----------------------------------------------------------------------------
(* The gateway's emit puts the event in the queue.                          *)
SendHook(d) ==
  /\ hook[d].pc = "unsent"
  /\ hook' = [hook EXCEPT ![d].pc = "sent"]
  /\ UNCHANGED <<claims, licenses, invoices>>

(* Mutant: the claim is upserted, and a conflict goes unnoticed.            *)
ClaimByUpsert(d) ==
  /\ hook[d].pc = "sent"
  /\ claims' = claims \cup {EventOf[d]}
  /\ hook' = [hook EXCEPT ![d].pc = "claimed"]
  /\ UNCHANGED <<licenses, invoices>>

(* tryClaimEvent: insert, and unique violation means another one claimed.   *)
TryClaim(d) ==
  /\ hook[d].pc = "sent"
  /\ claims' = claims \cup {EventOf[d]}
  /\ hook' = [hook EXCEPT ![d].pc =
                IF EventOf[d] \in claims THEN "skipped" ELSE "claimed"]
  /\ UNCHANGED <<licenses, invoices>>

(* handlePaymentIntentSucceeded: the order is fetched first; none, an error *)
(* or a timeout makes the handler throw.                                    *)
FetchOrder(d, answer) ==
  /\ hook[d].pc = "claimed" /\ EventOf[d].type = "succeeded"
  /\ hook' = IF answer = NoAnswer
               THEN [hook EXCEPT ![d].pc = "releasing"]
               ELSE [hook EXCEPT ![d].pc = "fetched", ![d].answer = answer]
  /\ UNCHANGED <<claims, licenses, invoices>>

LicenseItems(d) == hook[d].answer.items \cap LicenseProducts

LicensesOf(o) == {l \in licenses : l[1] = o}

(* generateLicensesForOrder up to findByOrderId: nothing to do without      *)
(* license items or when the order already has licenses.                    *)
CheckLicenses(d) ==
  /\ hook[d].pc = "fetched"
  /\ hook' = [hook EXCEPT ![d].pc =
                IF LicenseItems(d) = {} \/ LicensesOf(hook[d].answer.order) # {}
                  THEN "issued" ELSE "generate"]
  /\ UNCHANGED <<claims, licenses, invoices>>

(* Mutant: an error while saving the keys is logged and the handler goes on.*)
GenerateBestEffort(d) ==
  /\ hook[d].pc = "generate"
  /\ \/ licenses' = licenses
          \cup {<<hook[d].answer.order, p, d>> : p \in LicenseItems(d)}
     \/ UNCHANGED licenses
  /\ hook' = [hook EXCEPT ![d].pc = "issued"]
  /\ UNCHANGED <<claims, invoices>>

(* generateForOrder saves all the keys in one transaction.                  *)
GenerateLicenses(d) ==
  /\ hook[d].pc = "generate"
  /\ licenses' = licenses
       \cup {<<hook[d].answer.order, p, d>> : p \in LicenseItems(d)}
  /\ hook' = [hook EXCEPT ![d].pc = "issued", ![d].issued = LicenseItems(d)]
  /\ UNCHANGED <<claims, invoices>>

(* resolveInvoiceForPurchase: an invoice is generated at Stripe when the    *)
(* intent has a customer and the order has items; errors are swallowed.     *)
ResolveInvoice(d) ==
  /\ hook[d].pc = "issued"
  /\ \/ /\ hook[d].answer.items # {}
        /\ invoices' = invoices \cup {<<hook[d].answer.order, d>>}
     \/ UNCHANGED invoices
  /\ hook' = [hook EXCEPT ![d].pc = "invoiced"]
  /\ UNCHANGED <<claims, licenses>>

(* The event for order-service.  A failed or refunded intent is forwarded   *)
(* without looking at the order.                                            *)
EmitVerdict(d) ==
  /\ \/ EventOf[d].type = "succeeded" /\ hook[d].pc = "invoiced"
     \/ EventOf[d].type \in {"payment_failed", "refunded"} /\ hook[d].pc = "claimed"
  /\ hook' = [hook EXCEPT ![d].pc = "emitted"]
  /\ UNCHANGED <<claims, licenses, invoices>>

(* Mutant: two cases of the switch exchanged.                               *)
KindExchanged(d) ==
  CASE EventOf[d].type = "succeeded"      -> "confirmed"
    [] EventOf[d].type = "payment_failed" -> "refunded"
    [] EventOf[d].type = "refunded"       -> "failed"

KindOf(d) ==
  CASE EventOf[d].type = "succeeded"      -> "confirmed"
    [] EventOf[d].type = "payment_failed" -> "failed"
    [] EventOf[d].type = "refunded"       -> "refunded"

(* resolveOrderByPaymentIntent answers null on any error; then no mail.     *)
Notify(d, answer) ==
  /\ hook[d].pc = "emitted"
  /\ hook' = [hook EXCEPT ![d].pc = "done",
       ![d].mails =
         IF answer = NoAnswer THEN {}
         ELSE {KindOf(d)} \cup IF hook[d].issued = {} THEN {} ELSE {"licenses"}]
  /\ UNCHANGED <<claims, licenses, invoices>>

(* The default branch: logged, and the claim stays.                         *)
IgnoreEvent(d) ==
  /\ hook[d].pc = "claimed" /\ EventOf[d].type = "other"
  /\ hook' = [hook EXCEPT ![d].pc = "done"]
  /\ UNCHANGED <<claims, licenses, invoices>>

(* Mutant: the catch forgets to release.                                    *)
ForgetRelease(d) ==
  /\ hook[d].pc = "releasing"
  /\ hook' = [hook EXCEPT ![d].pc = "released"]
  /\ UNCHANGED <<claims, licenses, invoices>>

(* releaseClaim in the catch; the controller then swallows the error.       *)
ReleaseClaim(d) ==
  /\ hook[d].pc = "releasing"
  /\ claims' = claims \ {EventOf[d]}
  /\ hook' = [hook EXCEPT ![d].pc = "released"]
  /\ UNCHANGED <<licenses, invoices>>

(* Mutant: the claim is taken inside the try, so a failed claim releases.   *)
ThrowAlwaysReleases(d) ==
  /\ d \in FaultyDeliveries
  /\ hook[d].pc \in {"sent", "fetched", "generate"}
  /\ hook' = [hook EXCEPT ![d].pc = "releasing"]
  /\ UNCHANGED <<claims, licenses, invoices>>

(* A database error while the handler runs.                                 *)
Throw(d) ==
  /\ d \in FaultyDeliveries
  /\ hook[d].pc \in {"sent", "fetched", "generate"}
  /\ hook' = [hook EXCEPT ![d].pc =
                IF hook[d].pc = "sent" THEN "failed" ELSE "releasing"]
  /\ UNCHANGED <<claims, licenses, invoices>>

(* The process dies, or the DELETE of the release fails: the message is     *)
(* gone (noAck) and the claim, if any, stays.                               *)
Die(d) ==
  /\ d \in FaultyDeliveries
  /\ hook[d].pc \in Processing \cup {"sent"}
  /\ hook' = [hook EXCEPT ![d].pc = IF hook[d].pc = "sent" THEN "failed" ELSE "dead"]
  /\ UNCHANGED <<claims, licenses, invoices>>

-----------------------------------------------------------------------------
WebhookInit ==
  /\ claims = {} /\ licenses = {} /\ invoices = {}
  /\ hook = [d \in Deliveries |-> [pc |-> "unsent", answer |-> NoAnswer,
                                   issued |-> {}, mails |-> {}]]

(* What an activation does without hearing from order-service or telling it *)
(* anything.                                                                *)
LocalHookStep(d) ==
  \/ TryClaim(d) \/ CheckLicenses(d) \/ GenerateLicenses(d) \/ ResolveInvoice(d)
  \/ IgnoreEvent(d) \/ ReleaseClaim(d) \/ Throw(d) \/ Die(d)
=============================================================================
