---------------------------- MODULE OrderSystem ----------------------------
(***************************************************************************)
(* order-service among callers that may do whatever the other services do: *)
(* the gateway asks for orders and attaches intents, payment-service sends  *)
(* verdicts in any order and number, an administrator edits any order, the *)
(* customer fills the cart.                                                *)
(***************************************************************************)
EXTENDS OrderService

(* A PaymentIntent is minted for the order a CREATE_ORDER call answered     *)
(* with, and Stripe ids are unique.                                         *)
MayAttach(o, i) ==
  /\ \E c \in Calls : call[c].pc = "replied" /\ call[c].order = o
  /\ \A p \in Patches : patch[p].intent # i

(* The verdict of an intent comes after the checkout that minted it sent    *)
(* its UPDATE_ORDER_STATUS.                                                 *)
MayJudge(i) == \E p \in Patches : patch[p].intent = i

Ask ==
  \/ \E c \in Calls, k \in Carts : SendCall(c, k)
  \/ \E p \in Patches, o \in Orders, i \in Intents :
       MayAttach(o, i) /\ SendPatch(p, o, i)
  \/ \E n \in Notices, kind \in Kinds, i \in Intents :
       MayJudge(i) /\ SendNotice(n, kind, i)
  \/ \E e \in Edits, o \in Drawn, s \in Status : SendEdit(e, o, s)
  \/ \E k \in Carts, p \in Products : AddToCart(k, p)

OrderNext == Ask \/ OrderStep

OrderSpec == OrderInit /\ [][OrderNext]_orderVars

-----------------------------------------------------------------------------
(* Safety.                                                                  *)

(* No two order rows carry the same PaymentIntent, although stale copies    *)
(* write old intents back and deleted rows reappear: getOrderByPaymentIntent*)
(* never has a choice.                                                      *)
IntentNamesOneOrder ==
  \A o1, o2 \in Rows :
    orders[o1].intent = orders[o2].intent /\ orders[o1].intent # NoIntent
      => o1 = o2

(* A verdict on order o was applied: the notice names an intent that was    *)
(* minted for o.                                                            *)
Judged(o, s) ==
  \E n \in Notices :
    /\ notice[n].pc \in {"clear", "done"}
    /\ notice[n].order = o /\ Verdict(notice[n].kind) = s
    /\ \E p \in Patches : patch[p].order = o /\ patch[p].intent = notice[n].intent

EditedTo(o, s) ==
  \E e \in Edits : /\ edit[e].pc \in {"done", "dead"}
                    /\ edit[e].order = o /\ edit[e].target = s

(* The status of a row past "pending" was put there by a verdict on one of  *)
(* the order's own intents or by an administrator, whatever was written     *)
(* back from stale copies since.                                            *)
StatusHasCause ==
  \A o \in Rows : orders[o].status # "pending" =>
    Judged(o, orders[o].status) \/ EditedTo(o, orders[o].status)

(* The call that creates an order answers with every item its total was     *)
(* computed from, although other handlers save partial copies of the same   *)
(* order while the items are being inserted.                                *)
CreatorAnswersComplete ==
  \A c \in Calls : call[c].pc = "built" /\ call[c].order \in Rows =>
      orders[call[c].order].items = call[c].copy.lines

(* No order is shipped in silence: some edit sent ORDER.SHIPPED for it, or  *)
(* died when it was about to, although each edit decides on the status it   *)
(* read and not on the status it overwrites.                                *)
ShippedIsMailed ==
  \A o \in Rows : orders[o].status = "shipped" =>
    \E e \in Edits : /\ (edit[e].mailed \/ edit[e].pc = "dead")
                      /\ edit[e].order = o /\ edit[e].target = "shipped"

(* "Emit ORDER.SHIPPED only on the PAID -> SHIPPED transition",             *)
(* order.service.ts:621: an edit that sends it read a paid order.  The code *)
(* sends it from every status but shipped.                                  *)
ShippedFromPaid ==
  \A e \in Edits : edit[e].mailed => edit[e].copy.status = "paid"

(* A row past "pending" is never deleted, and goes back to "pending" only   *)
(* when createOrderFromCart saves the pending copy it read before, another  *)
(* handler of the same order having run in between, or by an edit.          *)
OnlyStaleReuseUndoesVerdict ==
  [][\A o \in Rows : orders[o].status # "pending" =>
       /\ orders'[o] # NoRow
       /\ orders'[o].status = "pending" =>
            \/ \E c \in Calls : call[c].pc = "reuse" /\ call[c].order = o
            \/ \E e \in Edits : edit[e].order = o /\ edit[e].target = "pending"
    ]_orderVars

-----------------------------------------------------------------------------
(* Liveness, under the fairness Purchase states.                            *)

(* Every CREATE_ORDER is answered or fails: no activation is left waiting   *)
(* on a row another one deleted or a save that can never succeed.           *)
CallsEnd ==
  \A c \in Calls : call[c].pc = "sent" ~> call[c].pc \in {"replied", "failed"}

(* An order nobody pays for does not stay pending: it gets a verdict or the *)
(* cron deletes it, however often it is reused in the meantime.             *)
PendingOrdersLeave ==
  \A o \in Orders :
    (o \in Rows /\ orders[o].status = "pending")
      ~> (o \notin Rows \/ orders[o].status # "pending")

-----------------------------------------------------------------------------
(* What the repository says and the code does not do.                       *)

(* pending-orders-cleanup.cron.ts:34-36: a webhook flipping a row to paid   *)
(* cannot be silently overwritten by a stale in-memory entity: without an   *)
(* administrator or a later verdict, a confirmed order stays paid.          *)
ConfirmedStaysPaid ==
  \A n \in Notices, o \in Orders :
    /\ notice[n].pc \in {"clear", "done"}
    /\ notice[n].kind = "confirmed" /\ notice[n].order = o
    /\ \A m \in Notices : notice[m].pc # "unsent" => notice[m].kind = "confirmed"
    /\ \A e \in Edits : edit[e].pc = "unsent"
    => o \in Rows /\ orders[o].status = "paid"
=============================================================================
