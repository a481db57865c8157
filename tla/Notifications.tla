---------------------------- MODULE Notifications ----------------------------
(***************************************************************************)
(* The events the services emit at each other, and the mails of            *)
(* notification-service.  An event is a message without an answer: its     *)
(* emitter logs a broker that does not take it and goes on; its queue      *)
(* hands it over without waiting for an acknowledgement (noAck, main.ts),  *)
(* so messages are handled at a time and those in hand when the service    *)
(* stops are lost; a handler catches whatever goes wrong and logs it.      *)
(***************************************************************************)
EXTENDS Naturals, Sequences

CONSTANTS EventIds,   \* a bound on the events of a behaviour, taken in order
          NoEvent

ASSUME NotificationAssumption == EventIds \subseteq Nat /\ NoEvent = NoEvent

VARIABLES
  event,     \* what was emitted, and to which service
  stage,     \* where it is
  queue,     \* the messages that wait, in the order they were emitted
  inbox,     \* the mails, in the order the mail server took them
  alerted,   \* the key that marks the product as alerted, in Redis
  why        \* what happened to an event: the ways it may be lost

mailVars == <<event, stage, queue, inbox, alerted, why>>

To(service, patterns) == {[to |-> service, what |-> p] : p \in patterns}

(* The events of each service, with the service each is emitted to.        *)
AuthEvents ==
  To("notification",
     {"auth.user.registered", "auth.user.verified", "auth.user.login",
      "auth.admin.login", "auth.admin.2fa_code_requested",
      "auth.password.reset.requested", "auth.password.reset.completed"})

UserEvents == To("auth", {"user.user.deleted", "user.password.changed"})

CatalogEvents ==
  LET all == {"catalog.product.created", "catalog.product.updated",
              "catalog.product.deleted", "catalog.stock.reserved",
              "catalog.stock.released", "catalog.stock.confirmed",
              "catalog.stock.low"}
  IN To("notification", all) \cup To("analytics", all)

OrderEvents ==
  To("catalog", {"catalog.stock.confirmed", "catalog.stock.released"})
    \cup To("notification", {"order.order.shipped", "order.checkout.expired"})

PaymentEvents ==
  LET settled == {"payment.payment.confirmed", "payment.payment.failed",
                  "payment.payment.refunded"}
  IN To("order", settled)
       \cup To("notification",
               settled \cup {"payment.licenses.issued",
                             "payment.subscription.created",
                             "payment.subscription.renewed",
                             "payment.subscription.cancelled",
                             "payment.subscription.past_due"})

ContentEvents ==
  To("notification", {"content.contact.message.received"})
    \cup To("catalog", {"content.top_products.updated"})

WebhookEvents == To("payment", {"payment.webhook.received"})

Routes == AuthEvents \cup UserEvents \cup CatalogEvents \cup OrderEvents
            \cup PaymentEvents \cup ContentEvents \cup WebhookEvents

(* The mail each handler of notification-service renders.                   *)
Mail(pattern, template) == [on |-> pattern, template |-> template]

AccountMails ==
  {Mail("auth.user.registered", "email-verification"),
   Mail("auth.password.reset.requested", "password-reset")}

AdminMails == {Mail("auth.admin.2fa_code_requested", "admin-2fa-code")}

AccountNotices ==
  {Mail("auth.user.verified", "welcome"),
   Mail("auth.password.changed", "password-changed"),
   Mail("auth.password.reset.completed", "password-reset-success")}

PaymentMails ==
  {Mail("payment.payment.confirmed", "order-confirmation"),
   Mail("payment.payment.failed", "payment-failed")}

SubscriptionMails ==
  {Mail("payment.subscription.created", "subscription-welcome"),
   Mail("payment.subscription.renewed", "subscription-renewal"),
   Mail("payment.subscription.past_due", "subscription-past-due"),
   Mail("payment.subscription.cancelled", "subscription-cancellation")}

(* Mutant: the mail with the keys has no handler.                           *)
NoLicenceMails == {}
LicenceMails == {Mail("payment.licenses.issued", "license-delivery")}

RefundMails == {Mail("payment.payment.refunded", "refund-confirmation")}

OrderMails ==
  {Mail("order.order.shipped", "order-shipped"),
   Mail("order.checkout.expired", "cart-abandoned")}

StockMails == {Mail("catalog.stock.low", "stock-low-alert")}

ContactMails == {Mail("content.contact.message.received", "contact-auto-reply")}

SentMails == AccountMails \cup AdminMails \cup AccountNotices \cup PaymentMails
               \cup SubscriptionMails \cup LicenceMails \cup RefundMails
               \cup OrderMails \cup StockMails \cup ContactMails

(* The templates a handler of pattern renders: none, if nothing handles it. *)
RenderedOn(pattern, mails) == {m.template : m \in {x \in mails : x.on = pattern}}

(* The templates on disk, in French as in English: a handler whose template *)
(* is missing throws, and its mail is not sent.                             *)
Templates ==
  {"admin-2fa-code", "cart-abandoned", "contact-auto-reply",
   "email-verification", "license-delivery", "order-confirmation",
   "order-shipped", "password-changed", "password-reset",
   "password-reset-success", "payment-failed", "refund-confirmation",
   "stock-low-alert", "subscription-cancellation", "subscription-past-due",
   "subscription-renewal", "subscription-welcome", "welcome"}

(* The events the other services listen to.                                 *)
Heard ==
  To("auth", {"user.user.deleted", "user.password.changed"})
    \cup To("catalog", {"content.top_products.updated"})
    \cup To("order", {"payment.payment.confirmed", "payment.payment.failed",
                      "payment.payment.refunded"})
    \cup To("payment", {"payment.webhook.received", "auth.account.deleted"})

(* The module of notification-service imports no cache, and its handler of  *)
(* low stock takes one only if there is one: it does without.               *)
CacheBound == FALSE
----------------------------------------------------------------------------
Seqs == INSTANCE SequencesExt

MailInit ==
  /\ event = [e \in EventIds |-> NoEvent]
  /\ stage = [e \in EventIds |-> "unsent"]
  /\ queue = <<>> /\ inbox = <<>> /\ alerted = FALSE
  /\ why = [e \in EventIds |-> {}]

MailHandling(e) == stage[e] = "handling"

Drop(e, reason) ==
  /\ stage' = [stage EXCEPT ![e] = "dropped"]
  /\ why' = [why EXCEPT ![e] = @ \cup {reason}]

EmitNext(e, r) ==
  /\ stage[e] = "unsent" /\ \A d \in EventIds : d < e => stage[d] # "unsent"
  /\ event' = [event EXCEPT ![e] = r]

EmitEvent(e, r) ==
  /\ EmitNext(e, r)
  /\ stage' = [stage EXCEPT ![e] = "queued"]
  /\ queue' = Append(queue, e)
  /\ UNCHANGED <<inbox, alerted, why>>

(* emit throws, or loses its connection later: the emitter logs, if it sees *)
(* it at all, and what it did before stays done.                            *)
EmitFails(e, r) ==
  /\ EmitNext(e, r)
  /\ Drop(e, "broker")
  /\ UNCHANGED <<queue, inbox, alerted>>

(* The first message of a queue is handed over.  Nothing listens to some;   *)
(* the other services' handlers are those of their own modules.             *)
Deliver(i) ==
  LET e == queue[i]
      r == event[e]
      templates == RenderedOn(r.what, SentMails)
      others == {d \in EventIds : MailHandling(d)}
  IN
  /\ \A k \in 1..(i - 1) : event[queue[k]].to # r.to
  /\ queue' = Seqs!RemoveAt(queue, i)
  /\ \/ /\ r.to # "notification" /\ r \in Heard
        /\ stage' = [stage EXCEPT ![e] = "heard"]
        /\ UNCHANGED why
     \/ /\ IF r.to = "notification" THEN templates = {} ELSE r \notin Heard
        /\ Drop(e, "unheard")
     \/ /\ r.to = "notification" /\ templates # {}
        /\ IF ~(templates \subseteq Templates) THEN Drop(e, "template")
           ELSE IF r.what = "catalog.stock.low" /\ CacheBound /\ alerted
           THEN Drop(e, "alerted")
           ELSE /\ stage' = [stage EXCEPT ![e] = "handling"]
                /\ why' = [d \in EventIds |->
                             IF others # {} /\ d \in others \cup {e}
                             THEN why[d] \cup {"overlap"} ELSE why[d]]
  /\ UNCHANGED <<event, inbox, alerted>>

SendEmail(e) ==
  /\ MailHandling(e)
  /\ inbox' = Append(inbox, e)
  /\ stage' = [stage EXCEPT ![e] = "mailed"]
  /\ alerted' = (alerted \/ (event[e].what = "catalog.stock.low" /\ CacheBound))
  /\ UNCHANGED <<event, queue, why>>

(* sendEmail answers false; the handlers go on as if it were true.          *)
(* Mutant: the event is emitted again.                                      *)
SendFailsAgain(e) ==
  /\ MailHandling(e)
  /\ stage' = [stage EXCEPT ![e] = "queued"]
  /\ queue' = Append(queue, e)
  /\ UNCHANGED <<event, inbox, alerted, why>>
SendFails(e) ==
  /\ MailHandling(e)
  /\ Drop(e, "smtp")
  /\ UNCHANGED <<event, queue, inbox, alerted>>

(* The service stops with mails in hand: their messages are gone.           *)
MailerDies ==
  /\ \E e \in EventIds : MailHandling(e)
  /\ stage' = [e \in EventIds |->
                 IF MailHandling(e) THEN "dropped" ELSE stage[e]]
  /\ why' = [e \in EventIds |->
               IF MailHandling(e) THEN why[e] \cup {"stop"} ELSE why[e]]
  /\ UNCHANGED <<event, queue, inbox, alerted>>

(* The broker restarts: its queues are durable, the messages are not.       *)
BrokerRestarts ==
  /\ queue # <<>>
  /\ queue' = <<>>
  /\ stage' = [e \in EventIds |->
                 IF stage[e] = "queued" THEN "dropped" ELSE stage[e]]
  /\ why' = [e \in EventIds |->
               IF stage[e] = "queued" THEN why[e] \cup {"broker"} ELSE why[e]]
  /\ UNCHANGED <<event, inbox, alerted>>

MailNext ==
  \/ \E e \in EventIds, r \in Routes : EmitEvent(e, r) \/ EmitFails(e, r)
  \/ \E i \in DOMAIN queue : Deliver(i)
  \/ \E e \in EventIds : SendEmail(e) \/ SendFails(e)
  \/ MailerDies \/ BrokerRestarts

MailSpec == MailInit /\ [][MailNext]_mailVars
----------------------------------------------------------------------------
(* Events, queue and mails have their types.                                *)
MailTypeOK ==
  /\ event \in [EventIds -> Routes \cup {NoEvent}]
  /\ stage \in [EventIds ->
       {"unsent", "queued", "handling", "heard", "mailed", "dropped"}]
  /\ \A i \in DOMAIN queue : queue[i] \in EventIds
  /\ \A i \in DOMAIN inbox : inbox[i] \in EventIds
  /\ alerted \in BOOLEAN
  /\ \A e \in EventIds :
       why[e] \subseteq {"broker", "unheard", "template", "alerted",
                         "overlap", "smtp", "stop"}

(* The events that nothing listens to where they are sent: sign-ins, and    *)
(* those about products and stock, at every service they reach, the two of  *)
(* order-service among them, save low stock at notification-service.        *)
Unheard(r) ==
  \/ r.what \in {"auth.user.login", "auth.admin.login"}
  \/ r \in To("analytics", {c.what : c \in CatalogEvents})
  \/ r \in To("catalog", {"catalog.stock.confirmed", "catalog.stock.released"})
  \/ r \in To("notification", {c.what : c \in CatalogEvents} \ {"catalog.stock.low"})

(* An event that asks for a mail is mailed, or a mail server, a broker or a *)
(* stop is to blame: every one finds its handler and its template, and no   *)
(* alert of low stock is held back.                                         *)
LostIsBlamed ==
  \A e \in EventIds :
    stage[e] = "dropped" =>
      \/ why[e] \cap {"broker", "smtp", "stop"} # {}
      \/ why[e] = {"unheard"} /\ Unheard(event[e])

(* Whose mail it is: codes, alerts, or what customers get.                  *)
Reader(e) ==
  CASE RenderedOn(event[e].what, AdminMails) # {} -> "admin"
    [] RenderedOn(event[e].what, StockMails) # {} -> "shop"
    [] OTHER                                      -> "customer"

(* Of two mails to one reader the one of the later event comes last, so the *)
(* newest link or code in the inbox is the one that is open, unless they    *)
(* were handled at a time: nothing keeps those in order.                    *)
NewestMailLast ==
  \A i, j \in DOMAIN inbox :
    i < j /\ Reader(inbox[i]) = Reader(inbox[j]) /\ inbox[i] > inbox[j] =>
      "overlap" \in why[inbox[i]] \cap why[inbox[j]]

(* What becomes of the events: lost ones are accounted for, and mails come  *)
(* in order.                                                                *)
MailsAccounted == LostIsBlamed /\ NewestMailLast
=============================================================================
