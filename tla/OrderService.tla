--------------------------- MODULE OrderService ---------------------------
(***************************************************************************)
(* The order side of order-service: the orders table and the asynchronous  *)
(* handlers that read and write it.                                        *)
(*                                                                         *)
(* Every handler is a TypeScript async function: the event loop may run    *)
(* another handler at each await, so a handler is a sequence of actions,   *)
(* one per database access, and its local variables are a record kept in   *)
(* call, patch, notice or edit.  An entity read with findOne and written   *)
(* back with save() is a copy of the row: between the two steps the row    *)
(* can move on.                                                            *)
(*                                                                         *)
(* Products stand for what a customer buys; quantities and prices are      *)
(* abstracted, "lines" being the products the total was computed from.     *)
(***************************************************************************)
EXTENDS Naturals, FiniteSets

CONSTANTS
  Orders,       \* uuids of order rows; bounds the rows ever created
  Carts,        \* uuids of carts
  Products,
  Intents,      \* Stripe PaymentIntent ids
  NoIntent,     \* the empty stripePaymentIntentId
  Calls,        \* activations of CREATE_ORDER; bounds their number
  Patches,      \* activations of UPDATE_ORDER_STATUS
  Notices,      \* activations of PAYMENT.CONFIRMED / FAILED / REFUNDED
  Edits,        \* activations of ADMIN_UPDATE_STATUS
  Faulty,       \* the activations a database error or a crash may stop
  NoCart,       \* "no cart id yet"
  NoOrder,      \* "no order id"
  NoRow         \* "no row": not in the table, or findOne returned null

Status == {"pending", "paid", "processing", "shipped", "delivered",
           "completed", "cancelled", "refunded"}

(* What a row holds.  idle: updated_at is older than PENDING_TTL_MS.        *)
Row == [cart   : Carts,
        status : Status,
        intent : Intents \cup {NoIntent},
        lines  : SUBSET Products,
        items  : SUBSET Products,
        idle   : BOOLEAN]

ASSUME NoRowAssumption    == NoRow \notin Row
ASSUME NoOrderAssumption  == NoOrder \notin Orders
ASSUME NoIntentAssumption == NoIntent \notin Intents

VARIABLES
  orders,       \* the orders table, items included
  carts,        \* the products in each cart
  call,         \* createOrderFromCart activations
  patch,        \* updateStripePaymentIntentId activations
  notice,       \* handlePayment{Confirmed,Failed,Refunded} activations
  edit          \* adminUpdateOrderStatus activations

orderVars == <<orders, carts, call, patch, notice, edit>>

CallPC   == {"unsent", "sent", "reuse", "kept", "fresh", "draft", "items",
             "built", "replied", "failed"}
NoticePC == {"unsent", "sent", "save", "clear", "done", "dropped", "failed"}

Kinds == {"confirmed", "failed", "refunded"}

OrderTypeOK ==
  /\ orders \in [Orders -> Row \cup {NoRow}]
  /\ carts  \in [Carts -> SUBSET Products]
  /\ call   \in [Calls -> [pc : CallPC, cart : Carts \cup {NoCart},
                           order : Orders \cup {NoOrder},
                           copy : Row \cup {NoRow}]]
  /\ patch  \in [Patches -> [pc : {"unsent", "sent", "done", "failed"},
                             order : Orders \cup {NoOrder},
                             intent : Intents \cup {NoIntent}]]
  /\ notice \in [Notices -> [pc : NoticePC, kind : Kinds,
                             intent : Intents \cup {NoIntent},
                             order : Orders \cup {NoOrder},
                             copy : Row \cup {NoRow}]]
  /\ edit   \in [Edits -> [pc : {"unsent", "sent", "save", "done", "dead", "failed"},
                           order : Orders \cup {NoOrder},
                           target : Status,
                           copy : Row \cup {NoRow},
                           mailed : BOOLEAN]]

-----------------------------------------------------------------------------
(* The table.                                                               *)

Rows == {o \in Orders : orders[o] # NoRow}

(* uuids are never drawn twice: an id some activation holds was drawn.      *)
Drawn == {call[c].order : c \in Calls} \ {NoOrder}

(* Mutant: an order_items.order_id that may be null.                        *)
OrphansItems(o, r) == TRUE

(* TypeORM refuses a save() whose loaded items miss a row of order_items:   *)
(* it would orphan that item, whose order_id is not nullable.               *)
CanSave(o, r) == orders[o] # NoRow => orders[o].items \subseteq r.items

(* TypeORM save(): every loaded column and item is made equal to the        *)
(* entity's, and the row is inserted again if it was deleted meanwhile.     *)
(* updated_at is bumped when a column of the entity changed, and otherwise  *)
(* gets the value the entity was loaded with.                               *)
Save(o, r) ==
  /\ CanSave(o, r)
  /\ \E idle \in {r.idle, FALSE} :
       orders' = [orders EXCEPT ![o] = [r EXCEPT !.idle = idle]]

-----------------------------------------------------------------------------
(* createOrderFromCart.                                                     *)

SendCall(c, k) ==
  /\ call[c].pc = "unsent"
  /\ call' = [call EXCEPT ![c].pc = "sent", ![c].cart = k]
  /\ UNCHANGED <<orders, carts, patch, notice, edit>>

(* The idempotence lookup: any pending order of the cart.                   *)
PendingOf(k) ==
  {o \in Rows : orders[o].cart = k /\ orders[o].status = "pending"}

FindExisting(c) ==
  /\ call[c].pc = "sent"
  /\ \E o \in PendingOf(call[c].cart) :
       call' = [call EXCEPT ![c].pc = "reuse", ![c].order = o,
                            ![c].copy = orders[o]]
  /\ UNCHANGED <<orders, carts, patch, notice, edit>>

FindNone(c) ==
  /\ call[c].pc = "sent"
  /\ PendingOf(call[c].cart) = {}
  /\ call' = [call EXCEPT ![c].pc = "fresh"]
  /\ UNCHANGED <<orders, carts, patch, notice, edit>>

(* The gateway always sends a billing address: the existing order is always *)
(* saved again.                                                             *)
SaveExisting(c) ==
  /\ call[c].pc = "reuse"
  /\ Save(call[c].order, call[c].copy)
  /\ call' = [call EXCEPT ![c].pc = "kept"]
  /\ UNCHANGED <<carts, patch, notice, edit>>

(* return reloaded ?? existing                                              *)
ReplyExisting(c) ==
  /\ call[c].pc = "kept"
  /\ call' = [call EXCEPT ![c].pc = "replied",
                ![c].copy = IF call[c].order \in Rows
                              THEN orders[call[c].order] ELSE call[c].copy]
  /\ UNCHANGED <<orders, carts, patch, notice, edit>>

NewRow(k, ps) ==
  [cart |-> k, status |-> "pending", intent |-> NoIntent,
   lines |-> ps, items |-> {}, idle |-> FALSE]

(* Mutant: an empty cart makes the handler return without an answer.        *)
ReadCartInSilence(c) ==
  /\ call[c].pc = "fresh"
  /\ LET ps == carts[call[c].cart] IN
       /\ ps # {}
       /\ call' = [call EXCEPT ![c].pc = "draft",
                                ![c].copy = NewRow(call[c].cart, ps)]
  /\ UNCHANGED <<orders, carts, patch, notice, edit>>

(* The cart and its products are read and the totals computed.              *)
ReadCart(c) ==
  /\ call[c].pc = "fresh"
  /\ LET ps == carts[call[c].cart] IN
       IF ps = {}
         THEN call' = [call EXCEPT ![c].pc = "failed"]
         ELSE call' = [call EXCEPT ![c].pc = "draft",
                                   ![c].copy = NewRow(call[c].cart, ps)]
  /\ UNCHANGED <<orders, carts, patch, notice, edit>>

InsertOrder(c) ==
  /\ call[c].pc = "draft"
  /\ \E o \in Orders \ (Rows \cup Drawn) :
       /\ orders' = [orders EXCEPT ![o] = call[c].copy]
       /\ call' = [call EXCEPT ![c].pc = "items", ![c].order = o]
  /\ UNCHANGED <<carts, patch, notice, edit>>

(* Mutant: the item inserts are not awaited, and only the first is done.    *)
SaveFirstItem(c) ==
  /\ call[c].pc = "items"
  /\ call[c].order \in Rows
  /\ \E p \in call[c].copy.lines :
       /\ orders' = [orders EXCEPT ![call[c].order].items = {p}]
       /\ call' = [call EXCEPT ![c].copy.items = {p}, ![c].pc = "built"]
  /\ UNCHANGED <<carts, patch, notice, edit>>

(* Items are inserted one by one, after the order and outside any           *)
(* transaction; the foreign key refuses the item of a deleted order.        *)
SaveItem(c) ==
  /\ call[c].pc = "items"
  /\ call[c].order \in Rows
  /\ \E p \in call[c].copy.lines \ call[c].copy.items :
       LET saved == call[c].copy.items \cup {p} IN
         /\ orders' = [orders EXCEPT ![call[c].order].items = @ \cup {p}]
         /\ call' = [call EXCEPT
               ![c].copy.items = saved,
               ![c].pc = IF saved = call[c].copy.lines THEN "built" ELSE "items"]
  /\ UNCHANGED <<carts, patch, notice, edit>>

ReplyNew(c) ==
  /\ call[c].pc = "built"
  /\ call[c].order \in Rows
  /\ call' = [call EXCEPT ![c].pc = "replied", ![c].copy = orders[call[c].order]]
  /\ UNCHANGED <<orders, carts, patch, notice, edit>>

(* A database error, an RPC error or timeout, five order number collisions, *)
(* a refused save, or the death of the process, which loses the message     *)
(* (noAck).  A crash of the service is this step for every activation.      *)
FailCall(c) ==
  /\ call[c].pc \in {"sent", "reuse", "kept", "fresh", "draft", "items", "built"}
  /\ \/ c \in Faulty
     \/ call[c].pc = "reuse" /\ ~CanSave(call[c].order, call[c].copy)
     \/ call[c].pc \in {"items", "built"} /\ call[c].order \notin Rows
  /\ call' = [call EXCEPT ![c].pc = "failed"]
  /\ UNCHANGED <<orders, carts, patch, notice, edit>>

-----------------------------------------------------------------------------
(* updateStripePaymentIntentId: one set-based UPDATE.                       *)

SendPatch(p, o, i) ==
  /\ patch[p].pc = "unsent"
  /\ patch' = [patch EXCEPT ![p] = [pc |-> "sent", order |-> o, intent |-> i]]
  /\ UNCHANGED <<orders, carts, call, notice, edit>>

(* Mutant: the UPDATE names the cart instead of the order.                  *)
AttachIntentToCart(p) ==
  /\ patch[p].pc = "sent"
  /\ LET k == orders[patch[p].order].cart IN
       orders' = IF patch[p].order \in Rows
                   THEN [o \in Orders |-> IF o \in PendingOf(k)
                           THEN [orders[o] EXCEPT !.intent = patch[p].intent]
                           ELSE orders[o]]
                   ELSE orders
  /\ patch' = [patch EXCEPT ![p].pc = "done"]
  /\ UNCHANGED <<carts, call, notice, edit>>

AttachIntent(p) ==
  /\ patch[p].pc = "sent"
  /\ orders' = IF patch[p].order \in Rows
                 THEN [orders EXCEPT ![patch[p].order].intent = patch[p].intent,
                                     ![patch[p].order].idle = FALSE]
                 ELSE orders
  /\ patch' = [patch EXCEPT ![p].pc = "done"]
  /\ UNCHANGED <<carts, call, notice, edit>>

FailPatch(p) ==
  /\ p \in Faulty /\ patch[p].pc = "sent"
  /\ patch' = [patch EXCEPT ![p].pc = "failed"]
  /\ UNCHANGED <<orders, carts, call, notice, edit>>

-----------------------------------------------------------------------------
(* handlePaymentConfirmed, handlePaymentFailed, handlePaymentRefunded.      *)

SendNotice(n, kind, i) ==
  /\ notice[n].pc = "unsent"
  /\ notice' = [notice EXCEPT ![n].pc = "sent", ![n].kind = kind,
                              ![n].intent = i]
  /\ UNCHANGED <<orders, carts, call, patch, edit>>

(* Mutant: findOne whose condition is undefined matches any row.            *)
AnyRow(i) == Rows

WithIntent(i) == {o \in Rows : orders[o].intent = i}

(* Mutant: only an order that is still pending takes a verdict.             *)
ReadNoticeOfPending(n) ==
  /\ notice[n].pc = "sent"
  /\ \/ /\ \A o \in WithIntent(notice[n].intent) : orders[o].status # "pending"
        /\ notice' = [notice EXCEPT ![n].pc = "dropped"]
     \/ \E o \in WithIntent(notice[n].intent) :
          /\ orders[o].status = "pending"
          /\ notice' = [notice EXCEPT ![n].pc = "save", ![n].order = o,
                                      ![n].copy = orders[o]]
  /\ UNCHANGED <<orders, carts, call, patch, edit>>

ReadNotice(n) ==
  /\ notice[n].pc = "sent"
  /\ \/ /\ WithIntent(notice[n].intent) = {}
        /\ notice' = [notice EXCEPT ![n].pc = "dropped"]
     \/ \E o \in WithIntent(notice[n].intent) :
          notice' = [notice EXCEPT ![n].pc = "save", ![n].order = o,
                                   ![n].copy = orders[o]]
  /\ UNCHANGED <<orders, carts, call, patch, edit>>

(* Mutant: the status README.md:11 names for a failed payment.              *)
VerdictOfReadme(kind) ==
  CASE kind = "confirmed" -> "paid"
    [] kind = "failed"    -> "failed"
    [] kind = "refunded"  -> "refunded"

Verdict(kind) ==
  CASE kind = "confirmed" -> "paid"
    [] kind = "failed"    -> "cancelled"
    [] kind = "refunded"  -> "refunded"

SaveNotice(n) ==
  /\ notice[n].pc = "save"
  /\ Save(notice[n].order, [notice[n].copy EXCEPT !.status = Verdict(notice[n].kind)])
  /\ notice' = [notice EXCEPT
                  ![n].pc = IF notice[n].kind = "confirmed" THEN "clear" ELSE "done"]
  /\ UNCHANGED <<carts, call, patch, edit>>

(* Best effort: an error here is logged and the order stays paid.  The      *)
(* stock events emitted last have no subscriber.                            *)
ClearPaidCart(n) ==
  /\ notice[n].pc = "clear"
  /\ \/ carts' = [carts EXCEPT ![notice[n].copy.cart] = {}]
     \/ n \in Faulty /\ UNCHANGED carts
  /\ notice' = [notice EXCEPT ![n].pc = "done"]
  /\ UNCHANGED <<orders, call, patch, edit>>

(* The controller logs the error and swallows it.                           *)
FailNotice(n) ==
  /\ notice[n].pc \in {"sent", "save"}
  /\ \/ n \in Faulty
     \/ notice[n].pc = "save" /\ ~CanSave(notice[n].order, notice[n].copy)
  /\ notice' = [notice EXCEPT ![n].pc = "failed"]
  /\ UNCHANGED <<orders, carts, call, patch, edit>>

-----------------------------------------------------------------------------
(* adminUpdateOrderStatus.                                                  *)

SendEdit(e, o, s) ==
  /\ edit[e].pc = "unsent"
  /\ edit' = [edit EXCEPT ![e].pc = "sent", ![e].order = o, ![e].target = s]
  /\ UNCHANGED <<orders, carts, call, patch, notice>>

ReadEdit(e) ==
  /\ edit[e].pc = "sent"
  /\ edit' = IF edit[e].order \in Rows
               THEN [edit EXCEPT ![e].pc = "save", ![e].copy = orders[edit[e].order]]
               ELSE [edit EXCEPT ![e].pc = "failed"]
  /\ UNCHANGED <<orders, carts, call, patch, notice>>

(* Mutant: the previous status is taken from the entity once it has its new *)
(* one, so that it never differs.                                           *)
SaveEditReadsLate(e) ==
  /\ edit[e].pc = "save"
  /\ Save(edit[e].order, [edit[e].copy EXCEPT !.status = edit[e].target])
  /\ edit' = [edit EXCEPT ![e].pc = "done"]
  /\ UNCHANGED <<carts, call, patch, notice>>

(* ORDER.SHIPPED is emitted after the save when the status read was not     *)
(* already shipped, whatever else it was.                                   *)
SaveEdit(e) ==
  /\ edit[e].pc = "save"
  /\ Save(edit[e].order, [edit[e].copy EXCEPT !.status = edit[e].target])
  /\ edit' = [edit EXCEPT ![e].pc = "done",
                ![e].mailed = edit[e].target = "shipped"
                              /\ edit[e].copy.status # "shipped"]
  /\ UNCHANGED <<carts, call, patch, notice>>

(* The process ends once the row is saved, before the emit.                 *)
EditDies(e) ==
  /\ edit[e].pc = "save" /\ e \in Faulty
  /\ Save(edit[e].order, [edit[e].copy EXCEPT !.status = edit[e].target])
  /\ edit' = [edit EXCEPT ![e].pc = "dead"]
  /\ UNCHANGED <<carts, call, patch, notice>>

FailEdit(e) ==
  /\ edit[e].pc \in {"sent", "save"}
  /\ \/ e \in Faulty
     \/ edit[e].pc = "save" /\ ~CanSave(edit[e].order, edit[e].copy)
  /\ edit' = [edit EXCEPT ![e].pc = "failed"]
  /\ UNCHANGED <<orders, carts, call, patch, notice>>

-----------------------------------------------------------------------------
(* Time and the hourly cron.                                                *)

(* A pending row has not been written for PENDING_TTL_MS.  Creating an      *)
(* order takes seconds, so its creator is no longer at work.                *)
GoIdle(o) ==
  /\ o \in Rows
  /\ orders[o].status = "pending" /\ ~orders[o].idle
  /\ \A c \in Calls : call[c].order = o => call[c].pc \notin {"items", "built"}
  /\ orders' = [orders EXCEPT ![o].idle = TRUE]
  /\ UNCHANGED <<carts, call, patch, notice, edit>>

(* Mutants: the DELETE forgets the status, or spares rows with an intent.   *)
ExpiredInAnyStatus(o) == o \in Rows /\ orders[o].idle
ExpiredWithoutIntent(o) ==
  o \in Rows /\ orders[o].status = "pending" /\ orders[o].idle
    /\ orders[o].intent = NoIntent

Expired(o) == o \in Rows /\ orders[o].status = "pending" /\ orders[o].idle

(* PendingOrdersCleanupCron: one DELETE ... WHERE.                          *)
CleanupPending ==
  /\ \E o \in Orders : Expired(o)
  /\ orders' = [o \in Orders |-> IF Expired(o) THEN NoRow ELSE orders[o]]
  /\ UNCHANGED <<carts, call, patch, notice, edit>>

(* The customer adds a product to the cart at any time.                     *)
AddToCart(k, p) ==
  /\ p \notin carts[k]
  /\ carts' = [carts EXCEPT ![k] = @ \cup {p}]
  /\ UNCHANGED <<orders, call, patch, notice, edit>>

-----------------------------------------------------------------------------
OrderInit ==
  /\ orders = [o \in Orders |-> NoRow]
  /\ carts \in [Carts -> SUBSET Products]
  /\ call = [c \in Calls |-> [pc |-> "unsent", cart |-> NoCart,
                              order |-> NoOrder, copy |-> NoRow]]
  /\ patch = [p \in Patches |-> [pc |-> "unsent", order |-> NoOrder,
                                 intent |-> NoIntent]]
  /\ notice = [n \in Notices |-> [pc |-> "unsent", kind |-> "confirmed",
                                  intent |-> NoIntent, order |-> NoOrder,
                                  copy |-> NoRow]]
  /\ edit = [e \in Edits |-> [pc |-> "unsent", order |-> NoOrder,
                              target |-> "pending", copy |-> NoRow,
                              mailed |-> FALSE]]

CallStep(c) ==
  \/ FindExisting(c) \/ FindNone(c) \/ SaveExisting(c) \/ ReplyExisting(c)
  \/ ReadCart(c) \/ InsertOrder(c) \/ SaveItem(c) \/ ReplyNew(c) \/ FailCall(c)

PatchStep(p)  == AttachIntent(p) \/ FailPatch(p)

NoticeStep(n) ==
  ReadNotice(n) \/ SaveNotice(n) \/ ClearPaidCart(n) \/ FailNotice(n)

EditStep(e)   == ReadEdit(e) \/ SaveEdit(e) \/ EditDies(e) \/ FailEdit(e)

(* Everything order-service does by itself.                                 *)
OrderStep ==
  \/ \E c \in Calls   : CallStep(c)
  \/ \E p \in Patches : PatchStep(p)
  \/ \E n \in Notices : NoticeStep(n)
  \/ \E e \in Edits   : EditStep(e)
  \/ \E o \in Orders  : GoIdle(o)
  \/ CleanupPending
=============================================================================
