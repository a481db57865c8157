--------------------------- MODULE PurchaseProofs ---------------------------
(***************************************************************************)
(* What a whole purchase guarantees, for any number of checkouts, tries,   *)
(* intents, Stripe events and deliveries, whichever of them fail: it asks  *)
(* of order-service only what OrderSystem allows, so that what OrderProofs *)
(* shows holds here, and the status of an order tells what happened at     *)
(* Stripe.                                                                 *)
(***************************************************************************)
EXTENDS Purchase, OrderProofs

-----------------------------------------------------------------------------
(* The shape of the state.                                                  *)

CheckoutRecord ==
  [pc : {"idle", "asking", "retrieve", "mint", "minted", "paying", "failed"},
   cart : Carts \cup {NoCart}, try : 0 .. MaxTries, order : Orders \cup {NoOrder},
   lines : SUBSET Products, intent : Intents \cup {NoIntent}, reminted : BOOLEAN]

StripeRecord ==
  [state : {"unborn", "open", "processing", "succeeded"},
   order : Orders \cup {NoOrder}, lines : SUBSET Products,
   declined : BOOLEAN, refunded : BOOLEAN]

HookRecord == [pc : Hooks!HookPC, answer : Hooks!Answers \cup {NoAnswer},
               issued : SUBSET Products, mails : SUBSET Hooks!Mails]

(* The order and the intent of a checkout are known when they are used.     *)
CheckoutOK(r) ==
  /\ r.pc # "idle" => r.cart \in Carts /\ r.try \in 1 .. MaxTries
  /\ r.pc \in {"retrieve", "mint", "minted", "paying"} => r.order \in Orders
  /\ r.pc \in {"retrieve", "minted", "paying"} => r.intent \in Intents

CheckoutsHold == checkout \in [Checkouts -> CheckoutRecord]
                   /\ \A x \in Checkouts : CheckoutOK(checkout[x])

HookOK(r, type) ==
  /\ r.pc \in {"fetched", "generate", "issued", "invoiced"} =>
       r.answer \in Hooks!Answers /\ type = "succeeded"
  /\ r.pc = "emitted" => type # "other"

HooksHold == /\ claims   \subseteq Events
             /\ licenses \subseteq Orders \X Products \X Deliveries
             /\ invoices \subseteq Orders \X Deliveries
             /\ hook \in [Deliveries -> HookRecord]
             /\ \A d \in Deliveries : HookOK(hook[d], EventOf[d].type)

StripeHolds == stripe \in [Intents -> StripeRecord]

PurchaseShape == Shape /\ CheckoutsHold /\ HooksHold /\ StripeHolds

-----------------------------------------------------------------------------
(* What the gateway, Stripe and the webhook know is so.                     *)

(* What CREATE_ORDER answers with is a whole row of the order, and carries  *)
(* an intent minted for it.                                                 *)
RepliesHold ==
  \A c \in Calls : call[c].pc \in {"kept", "replied"} =>
    /\ call[c].order \in Orders /\ call[c].copy \in Row
    /\ MintedFor(call[c].order, call[c].copy.intent)

(* A checkout past the order has had its answer.                            *)
AnsweredFor(r, c) == call[c].pc = "replied" /\ call[c].order = r.order

Answered ==
  \A x \in Checkouts :
    checkout[x].pc \in {"retrieve", "mint", "minted", "paying"}
      => AnsweredFor(checkout[x], CallOf(x))

(* An intent that was minted and not yet sent is nobody else's.             *)
MintedOnce ==
  \A x \in Checkouts : checkout[x].pc = "minted" =>
    /\ stripe[checkout[x].intent].state # "unborn"
    /\ stripe[checkout[x].intent].order = checkout[x].order
    /\ \A p \in Patches : patch[p].intent # checkout[x].intent
    /\ \A y \in Checkouts :
         checkout[y].pc = "minted" /\ checkout[y].intent = checkout[x].intent => y = x

(* UPDATE_ORDER_STATUS is sent last, and names the order Stripe knows.      *)
PatchesMinted ==
  \A p \in Patches : patch[p].pc # "unsent" =>
    /\ checkout[p].pc = "paying" /\ checkout[p].order = patch[p].order
    /\ stripe[patch[p].intent].state # "unborn"
    /\ stripe[patch[p].intent].order = patch[p].order

(* Nobody can pay, and nothing happens to, an intent that was not sent.     *)
Touched(t) == t.state \in {"processing", "succeeded"} \/ t.declined \/ t.refunded

IntentsSent ==
  /\ \A x \in Checkouts :
       checkout[x].pc \in {"retrieve", "paying"} => MayJudge(checkout[x].intent)
  /\ \A i \in Intents : Touched(stripe[i]) => MayJudge(i)

(* Stripe delivers what happened, and payment-service forwards it as such.  *)
FactOf(kind, t) ==
  CASE kind = "confirmed" -> t.state = "succeeded"
    [] kind = "failed"    -> t.declined
    [] kind = "refunded"  -> t.refunded

EventsHappened ==
  /\ \A d \in Deliveries : hook[d].pc # "unsent" => Happened(EventOf[d])
  /\ \A n \in Notices : notice[n].pc # "unsent" =>
       FactOf(notice[n].kind, stripe[notice[n].intent])

NoEdits == \A e \in Edits : edit[e].pc = "unsent"

Joined == /\ RepliesHold /\ Answered /\ MintedOnce /\ PatchesMinted
          /\ IntentsSent /\ EventsHappened /\ NoEdits

(* The products an order was created for never change: every copy of it,    *)
(* and the intent minted for it, are for the same ones.                     *)
LinesAre(lines) ==
  /\ \A o \in Rows : orders[o].lines = lines[o]
  /\ \A c \in Calls : call[c].pc \in {"reuse", "kept", "items", "built", "replied"} =>
       call[c].copy.lines = lines[call[c].order]
  /\ \A n \in Notices : notice[n].pc = "save" =>
       notice[n].copy.lines = lines[notice[n].order]
  /\ \A x \in Checkouts : checkout[x].pc \in {"retrieve", "mint", "minted"} =>
       checkout[x].lines = lines[checkout[x].order]
  /\ \A i \in Intents : stripe[i].state # "unborn" =>
       stripe[i].order \in Drawn /\ stripe[i].lines = lines[stripe[i].order]

LinesKnown == \E lines \in [Orders -> SUBSET Products] : LinesAre(lines)

-----------------------------------------------------------------------------
(* What a step may do to one checkout, one intent, one patch, one notice.   *)

Took(x) ==
  /\ checkout[x].pc = "asking" /\ checkout'[x].pc \in {"retrieve", "mint"}
  /\ call[CallOf(x)].pc = "replied" /\ checkout'[x].try = checkout[x].try
  /\ checkout'[x].order = call[CallOf(x)].order
  /\ checkout'[x].lines = call[CallOf(x)].copy.lines
  /\ checkout'[x].intent = call[CallOf(x)].copy.intent
  /\ checkout'[x].pc = "retrieve" => checkout'[x].intent # NoIntent

SameDeal(x) ==
  /\ checkout'[x].try = checkout[x].try /\ checkout'[x].order = checkout[x].order
  /\ checkout'[x].lines = checkout[x].lines

Minting(x, i) ==
  /\ checkout[x].pc \in {"mint", "minted"} /\ checkout'[x].pc = "minted"
  /\ SameDeal(x) /\ checkout'[x].intent = i
  /\ stripe[i].state = "unborn" /\ stripe'[i].state = "open"
  /\ stripe'[i].order = checkout[x].order /\ stripe'[i].lines = checkout[x].lines
  /\ UNCHANGED orderVars
  /\ \A y \in Checkouts : y # x => checkout'[y] = checkout[y]

Sending(x) ==
  /\ checkout[x].pc = "minted" /\ checkout'[x].pc = "paying"
  /\ SameDeal(x) /\ checkout'[x].intent = checkout[x].intent
  /\ patch[x].pc = "unsent" /\ patch'[x].pc = "sent"
  /\ patch'[x].order = checkout[x].order /\ patch'[x].intent = checkout[x].intent
  /\ UNCHANGED stripe

CheckoutMove(x) ==
  \/ checkout'[x] = checkout[x]
  \/ /\ checkout[x].pc \in {"idle", "asking", "mint", "minted"}
     /\ checkout'[x].pc \in {"asking", "failed"}
  \/ Took(x)
  \/ /\ checkout[x].pc = "retrieve" /\ checkout'[x].pc \in {"paying", "mint"}
     /\ SameDeal(x) /\ checkout'[x].intent = checkout[x].intent
  \/ \E i \in Intents : Minting(x, i)
  \/ Sending(x)

StripeMove(i) ==
  \/ stripe'[i] = stripe[i]
  \/ /\ \E x \in Checkouts : Minting(x, i)
     /\ stripe'[i].declined = stripe[i].declined
     /\ stripe'[i].refunded = stripe[i].refunded
  \/ /\ stripe[i].state # "unborn" /\ stripe'[i].state # "unborn"
     /\ stripe'[i].order = stripe[i].order /\ stripe'[i].lines = stripe[i].lines
     /\ \A kind \in Kinds : FactOf(kind, stripe[i]) => FactOf(kind, stripe'[i])
     /\ \/ Touched(stripe[i])
        \/ \E x \in Checkouts : checkout[x].pc = "paying" /\ checkout[x].intent = i

PatchDeal(p) ==
  \/ /\ patch'[p].order = patch[p].order /\ patch'[p].intent = patch[p].intent
     /\ patch'[p].pc = "unsent" <=> patch[p].pc = "unsent"
  \/ Sending(p)

(* payment-service forwards what it was told.                               *)
Forwarding(n) ==
  /\ hook[n].pc # "unsent" /\ EventOf[n].type # "other" /\ UNCHANGED stripe
  /\ hook'[n].pc = "emitted" /\ hook'[n].answer = hook[n].answer
  /\ EventOf[n].type = "succeeded" => hook[n].pc = "invoiced"
  /\ notice'[n].kind = Hooks!KindOf(n) /\ notice'[n].intent = EventOf[n].intent

NoticeDeal(n) ==
  \/ /\ notice'[n].kind = notice[n].kind /\ notice'[n].intent = notice[n].intent
     /\ notice'[n].pc # "unsent" => notice[n].pc # "unsent"
  \/ Forwarding(n)

HookDeal(d) ==
  hook'[d].pc # "unsent" => hook[d].pc # "unsent" \/ Happened(EventOf[d])

Deal == /\ \A x \in Checkouts  : CheckoutMove(x)
        /\ \A i \in Intents    : StripeMove(i)
        /\ \A p \in Patches    : PatchDeal(p)
        /\ \A n \in Notices    : NoticeDeal(n)
        /\ \A d \in Deliveries : HookDeal(d)
        /\ UNCHANGED edit

LEMMA CallsOfCheckouts ==
  ASSUME NEW x \in Checkouts, NEW t \in 1 .. MaxTries
  PROVE  <<x, t>> \in Calls
BY CallsAssumption

LEMMA FirstTry == 1 \in 0 .. MaxTries /\ 1 \in 1 .. MaxTries
BY TriesAssumption

(* A step of the gateway writes one checkout.                               *)
LEMMA CheckoutWrite ==
  ASSUME CheckoutsHold, NEW x \in Checkouts, NEW r \in CheckoutRecord, CheckoutOK(r),
         checkout' = [checkout EXCEPT ![x] = r]
  PROVE  /\ CheckoutsHold'
         /\ checkout'[x] = r
         /\ \A y \in Checkouts : y # x => checkout'[y] = checkout[y]
<1>1. checkout' \in [Checkouts -> CheckoutRecord]
  BY DEF CheckoutsHold
<1>2. \A y \in Checkouts : checkout'[y] = IF y = x THEN r ELSE checkout[y]
  BY DEF CheckoutsHold
<1> QED
  BY <1>1, <1>2 DEF CheckoutsHold

LEMMA StartStep ==
  ASSUME PurchaseShape, NEW x \in Checkouts, NEW k \in Carts, StartCheckout(x, k)
  PROVE  CheckoutsHold' /\ \A y \in Checkouts : CheckoutMove(y)
<1> DEFINE r == [checkout[x] EXCEPT !.pc = "asking", !.cart = k, !.try = 1]
<1>1. checkout[x] \in CheckoutRecord
  BY DEF PurchaseShape, CheckoutsHold
<1>2. checkout' = [checkout EXCEPT ![x] = r]
  BY DEF StartCheckout, PurchaseShape, CheckoutsHold
<1>3. /\ r \in CheckoutRecord /\ CheckoutOK(r)
      /\ r.pc = "asking" /\ checkout[x].pc = "idle"
  BY <1>1, FirstTry DEF StartCheckout, CheckoutRecord, CheckoutOK
<1> HIDE DEF r
<1>4. /\ CheckoutsHold'
      /\ checkout'[x] = r
      /\ \A y \in Checkouts : y # x => checkout'[y] = checkout[y]
  BY <1>2, <1>3, CheckoutWrite DEF PurchaseShape
<1> QED
  BY <1>3, <1>4 DEF CheckoutMove

LEMMA RetryStep ==
  ASSUME PurchaseShape, NEW x \in Checkouts, RetryOrder(x)
  PROVE  CheckoutsHold' /\ \A y \in Checkouts : CheckoutMove(y)
<1> DEFINE r == [checkout[x] EXCEPT !.try = checkout[x].try + 1]
<1>1. checkout[x] \in CheckoutRecord /\ CheckoutOK(checkout[x])
  BY DEF PurchaseShape, CheckoutsHold
<1>2. checkout' = [checkout EXCEPT ![x] = r]
  BY DEF RetryOrder, PurchaseShape, CheckoutsHold
<1>3. /\ r \in CheckoutRecord /\ CheckoutOK(r)
      /\ r.pc = "asking" /\ checkout[x].pc = "asking"
  BY <1>1, TriesAssumption DEF RetryOrder, CheckoutRecord, CheckoutOK
<1> HIDE DEF r
<1>4. /\ CheckoutsHold'
      /\ checkout'[x] = r
      /\ \A y \in Checkouts : y # x => checkout'[y] = checkout[y]
  BY <1>2, <1>3, CheckoutWrite DEF PurchaseShape
<1> QED
  BY <1>3, <1>4 DEF CheckoutMove

LEMMA FailStep ==
  ASSUME PurchaseShape, NEW x \in Checkouts, GiveUpOrder(x) \/ FailMint(x)
  PROVE  CheckoutsHold' /\ \A y \in Checkouts : CheckoutMove(y)
<1> DEFINE r == [checkout[x] EXCEPT !.pc = "failed"]
<1>1. checkout[x] \in CheckoutRecord /\ CheckoutOK(checkout[x])
  BY DEF PurchaseShape, CheckoutsHold
<1>2. checkout' = [checkout EXCEPT ![x] = r]
  BY DEF GiveUpOrder, FailMint, PurchaseShape, CheckoutsHold
<1>3. /\ r \in CheckoutRecord /\ CheckoutOK(r) /\ r.pc = "failed"
      /\ checkout[x].pc \in {"asking", "mint", "minted"}
  BY <1>1 DEF GiveUpOrder, FailMint, CheckoutRecord, CheckoutOK
<1> HIDE DEF r
<1>4. /\ CheckoutsHold'
      /\ checkout'[x] = r
      /\ \A y \in Checkouts : y # x => checkout'[y] = checkout[y]
  BY <1>2, <1>3, CheckoutWrite DEF PurchaseShape
<1> QED
  BY <1>3, <1>4 DEF CheckoutMove

LEMMA TakeStep ==
  ASSUME PurchaseShape, RepliesHold, NEW x \in Checkouts, TakeOrder(x)
  PROVE  CheckoutsHold' /\ \A y \in Checkouts : CheckoutMove(y)
<1> DEFINE c == CallOf(x)
           r == [checkout[x] EXCEPT
                   !.pc = IF call[c].copy.intent = NoIntent THEN "mint" ELSE "retrieve",
                   !.order = call[c].order, !.lines = call[c].copy.lines,
                   !.intent = call[c].copy.intent]
<1>1. checkout[x] \in CheckoutRecord /\ CheckoutOK(checkout[x])
  BY DEF PurchaseShape, CheckoutsHold
<1>2. c \in Calls
  BY <1>1, CallsOfCheckouts DEF TakeOrder, CheckoutOK, CallOf
<1>3. call[c].pc = "replied" /\ call[c].order \in Orders /\ call[c].copy \in Row
  BY <1>2 DEF TakeOrder, RepliesHold
<1>4. checkout' = [checkout EXCEPT ![x] = r]
  BY DEF TakeOrder, PurchaseShape, CheckoutsHold
<1>5. /\ r \in CheckoutRecord /\ CheckoutOK(r) /\ r.pc \in {"retrieve", "mint"}
      /\ r.try = checkout[x].try /\ r.order = call[c].order
      /\ r.lines = call[c].copy.lines /\ r.intent = call[c].copy.intent
      /\ r.pc = "retrieve" => r.intent # NoIntent
  BY <1>1, <1>3 DEF TakeOrder, CheckoutRecord, CheckoutOK, Row
<1> HIDE DEF r
<1>6. /\ CheckoutsHold'
      /\ checkout'[x] = r
      /\ \A y \in Checkouts : y # x => checkout'[y] = checkout[y]
  BY <1>4, <1>5, CheckoutWrite DEF PurchaseShape
<1>7. Took(x)
  BY <1>3, <1>5, <1>6 DEF Took, TakeOrder
<1> QED
  BY <1>6, <1>7 DEF CheckoutMove

LEMMA RetrieveStep ==
  ASSUME PurchaseShape, NEW x \in Checkouts, ReuseIntent(x) \/ RefuseIntent(x)
  PROVE  CheckoutsHold' /\ \A y \in Checkouts : CheckoutMove(y)
<1>1. checkout[x] \in CheckoutRecord /\ CheckoutOK(checkout[x])
  BY DEF PurchaseShape, CheckoutsHold
<1>2. PICK pc \in {"paying", "mint"} : checkout' = [checkout EXCEPT ![x].pc = pc]
  BY DEF ReuseIntent, RefuseIntent
<1> DEFINE r == [checkout[x] EXCEPT !.pc = pc]
<1>3. checkout' = [checkout EXCEPT ![x] = r]
  BY <1>2 DEF PurchaseShape, CheckoutsHold
<1>4. /\ r \in CheckoutRecord /\ CheckoutOK(r) /\ r.pc = pc
      /\ r.try = checkout[x].try /\ r.order = checkout[x].order
      /\ r.lines = checkout[x].lines /\ r.intent = checkout[x].intent
      /\ checkout[x].pc = "retrieve"
  BY <1>1 DEF ReuseIntent, RefuseIntent, CheckoutRecord, CheckoutOK
<1> HIDE DEF r
<1>5. /\ CheckoutsHold'
      /\ checkout'[x] = r
      /\ \A y \in Checkouts : y # x => checkout'[y] = checkout[y]
  BY <1>3, <1>4, CheckoutWrite DEF PurchaseShape
<1> QED
  BY <1>4, <1>5 DEF CheckoutMove, SameDeal

LEMMA RespondStep ==
  ASSUME PurchaseShape, NEW x \in Checkouts, Respond(x)
  PROVE  /\ CheckoutsHold' /\ \A y \in Checkouts : CheckoutMove(y)
         /\ \A p \in Patches : PatchDeal(p)
<1> DEFINE r == [checkout[x] EXCEPT !.pc = "paying"]
<1>1. checkout[x] \in CheckoutRecord /\ CheckoutOK(checkout[x])
  BY DEF PurchaseShape, CheckoutsHold
<1>2. checkout' = [checkout EXCEPT ![x] = r]
  BY DEF Respond, PurchaseShape, CheckoutsHold
<1>3. /\ r \in CheckoutRecord /\ CheckoutOK(r) /\ r.pc = "paying"
      /\ r.try = checkout[x].try /\ r.order = checkout[x].order
      /\ r.lines = checkout[x].lines /\ r.intent = checkout[x].intent
      /\ checkout[x].pc = "minted"
  BY <1>1 DEF Respond, CheckoutRecord, CheckoutOK
<1> HIDE DEF r
<1>4. /\ CheckoutsHold'
      /\ checkout'[x] = r
      /\ \A y \in Checkouts : y # x => checkout'[y] = checkout[y]
  BY <1>2, <1>3, CheckoutWrite DEF PurchaseShape
<1>5. patch \in [Patches -> PatchRecord] /\ x \in Patches
  BY TypeParts, PatchesAssumption DEF PurchaseShape, Shape
<1>6. /\ patch'[x].pc = "sent" /\ patch'[x].order = checkout[x].order
      /\ patch'[x].intent = checkout[x].intent /\ patch[x].pc = "unsent"
      /\ \A p \in Patches : p # x => patch'[p] = patch[p]
  BY <1>5 DEF Respond, SendPatch
<1>7. Sending(x)
  BY <1>3, <1>4, <1>6 DEF Sending, SameDeal, Respond
<1> QED
  BY <1>4, <1>6, <1>7 DEF CheckoutMove, PatchDeal

LEMMA MintStep ==
  ASSUME PurchaseShape, NEW x \in Checkouts, NEW i \in Intents,
         Mint(x, i) \/ MintAgain(x, i)
  PROVE  /\ CheckoutsHold' /\ StripeHolds'
         /\ \A y \in Checkouts : CheckoutMove(y)
         /\ \A j \in Intents : StripeMove(j)
<1>1. checkout[x] \in CheckoutRecord /\ CheckoutOK(checkout[x])
  BY DEF PurchaseShape, CheckoutsHold
<1>2. checkout[x].pc \in {"mint", "minted"}
  BY DEF Mint, MintAgain
<1>3. PICK r : /\ checkout' = [checkout EXCEPT ![x] = r]
               /\ r \in CheckoutRecord /\ CheckoutOK(r) /\ r.pc = "minted"
               /\ r.try = checkout[x].try /\ r.order = checkout[x].order
               /\ r.lines = checkout[x].lines /\ r.intent = i
  <2>1. CASE Mint(x, i)
    <3> DEFINE r == [checkout[x] EXCEPT !.pc = "minted", !.intent = i]
    <3>1. checkout' = [checkout EXCEPT ![x] = r]
      BY <2>1 DEF Mint, PurchaseShape, CheckoutsHold
    <3>2. r \in CheckoutRecord /\ CheckoutOK(r) /\ r.pc = "minted" /\ r.intent = i
      BY <1>1, <2>1 DEF Mint, CheckoutRecord, CheckoutOK
    <3>3. /\ r.try = checkout[x].try /\ r.order = checkout[x].order
          /\ r.lines = checkout[x].lines
      BY <1>1 DEF CheckoutRecord
    <3> QED
      BY <3>1, <3>2, <3>3
  <2>2. CASE MintAgain(x, i)
    <3> DEFINE r == [checkout[x] EXCEPT !.intent = i, !.reminted = TRUE]
    <3>1. checkout' = [checkout EXCEPT ![x] = r]
      BY <2>2 DEF MintAgain, PurchaseShape, CheckoutsHold
    <3>2. r \in CheckoutRecord /\ CheckoutOK(r) /\ r.pc = "minted" /\ r.intent = i
      BY <1>1, <2>2 DEF MintAgain, CheckoutRecord, CheckoutOK
    <3>3. /\ r.try = checkout[x].try /\ r.order = checkout[x].order
          /\ r.lines = checkout[x].lines
      BY <1>1 DEF CheckoutRecord
    <3> QED
      BY <3>1, <3>2, <3>3
  <2> QED
    BY <2>1, <2>2
<1>4. /\ CheckoutsHold'
      /\ checkout'[x] = r
      /\ \A y \in Checkouts : y # x => checkout'[y] = checkout[y]
  BY <1>3, CheckoutWrite DEF PurchaseShape
<1>5. stripe[i] \in StripeRecord
  BY DEF PurchaseShape, StripeHolds
<1> DEFINE t == [stripe[i] EXCEPT !.state = "open", !.order = checkout[x].order,
                                  !.lines = checkout[x].lines]
<1>6. stripe' = [stripe EXCEPT ![i] = t] /\ stripe[i].state = "unborn"
  BY DEF Mint, MintAgain, NewIntent, PurchaseShape, StripeHolds
<1>7. /\ t \in StripeRecord /\ t.state = "open" /\ t.order = checkout[x].order
      /\ t.lines = checkout[x].lines
      /\ t.declined = stripe[i].declined /\ t.refunded = stripe[i].refunded
  BY <1>1, <1>5 DEF StripeRecord, CheckoutRecord
<1> HIDE DEF t
<1>8. StripeHolds' /\ stripe'[i] = t /\ \A j \in Intents : j # i => stripe'[j] = stripe[j]
  BY <1>6, <1>7 DEF PurchaseShape, StripeHolds
<1>9. UNCHANGED orderVars
  BY DEF Mint, MintAgain
<1>10. Minting(x, i)
  BY <1>2, <1>3, <1>4, <1>6, <1>7, <1>8, <1>9 DEF Minting, SameDeal
<1>11. \A y \in Checkouts : CheckoutMove(y)
  BY <1>4, <1>10 DEF CheckoutMove
<1>12. \A j \in Intents : StripeMove(j)
  BY <1>7, <1>8, <1>10 DEF StripeMove
<1> QED
  BY <1>4, <1>8, <1>11, <1>12

LEMMA PayStep ==
  ASSUME PurchaseShape, NEW i \in Intents, StripeStep(i)
  PROVE  StripeHolds' /\ \A j \in Intents : StripeMove(j)
<1>1. stripe[i] \in StripeRecord
  BY DEF PurchaseShape, StripeHolds
<1>2. PICK t : /\ stripe' = [stripe EXCEPT ![i] = t]
               /\ t \in StripeRecord /\ stripe[i].state # "unborn" /\ t.state # "unborn"
               /\ t.order = stripe[i].order /\ t.lines = stripe[i].lines
               /\ stripe[i].state = "succeeded" => t.state = "succeeded"
               /\ stripe[i].declined => t.declined
               /\ stripe[i].refunded => t.refunded
               /\ \/ Touched(stripe[i])
                  \/ \E x \in Checkouts :
                       checkout[x].pc = "paying" /\ checkout[x].intent = i
  <2>1. CASE Submit(i)
    <3> DEFINE t == [stripe[i] EXCEPT !.state = "processing"]
    <3>1. stripe' = [stripe EXCEPT ![i] = t] /\ stripe[i].state = "open"
      BY <2>1 DEF Submit, PurchaseShape, StripeHolds
    <3>2. /\ t \in StripeRecord /\ t.state = "processing"
          /\ t.order = stripe[i].order /\ t.lines = stripe[i].lines
          /\ t.declined = stripe[i].declined /\ t.refunded = stripe[i].refunded
      BY <1>1 DEF StripeRecord
    <3> QED
      BY <2>1, <3>1, <3>2 DEF Submit
  <2>2. CASE Succeed(i)
    <3> DEFINE t == [stripe[i] EXCEPT !.state = "succeeded"]
    <3>1. stripe' = [stripe EXCEPT ![i] = t] /\ stripe[i].state = "processing"
      BY <2>2 DEF Succeed, PurchaseShape, StripeHolds
    <3>2. /\ t \in StripeRecord /\ t.state = "succeeded"
          /\ t.order = stripe[i].order /\ t.lines = stripe[i].lines
          /\ t.declined = stripe[i].declined /\ t.refunded = stripe[i].refunded
      BY <1>1 DEF StripeRecord
    <3> QED
      BY <3>1, <3>2 DEF Touched
  <2>3. CASE Decline(i)
    <3> DEFINE t == [stripe[i] EXCEPT !.state = "open", !.declined = TRUE]
    <3>1. stripe' = [stripe EXCEPT ![i] = t] /\ stripe[i].state = "processing"
      BY <2>3 DEF Decline, PurchaseShape, StripeHolds
    <3>2. /\ t \in StripeRecord /\ t.state = "open" /\ t.declined
          /\ t.order = stripe[i].order /\ t.lines = stripe[i].lines
          /\ t.refunded = stripe[i].refunded
      BY <1>1 DEF StripeRecord
    <3> QED
      BY <3>1, <3>2 DEF Touched
  <2>4. CASE Refund(i)
    <3> DEFINE t == [stripe[i] EXCEPT !.refunded = TRUE]
    <3>1. stripe' = [stripe EXCEPT ![i] = t] /\ stripe[i].state = "succeeded"
      BY <2>4 DEF Refund, PurchaseShape, StripeHolds
    <3>2. /\ t \in StripeRecord /\ t.state = "succeeded" /\ t.refunded
          /\ t.order = stripe[i].order /\ t.lines = stripe[i].lines
          /\ t.declined = stripe[i].declined
      BY <1>1, <3>1 DEF StripeRecord
    <3> QED
      BY <3>1, <3>2 DEF Touched
  <2> QED
    BY <2>1, <2>2, <2>3, <2>4 DEF StripeStep
<1>3. StripeHolds' /\ stripe'[i] = t /\ \A j \in Intents : j # i => stripe'[j] = stripe[j]
  BY <1>2 DEF PurchaseShape, StripeHolds
<1>4. \A kind \in Kinds : FactOf(kind, stripe[i]) => FactOf(kind, t)
  BY <1>2 DEF FactOf, Kinds
<1>5. StripeMove(i)
  BY <1>2, <1>3, <1>4 DEF StripeMove
<1> QED
  BY <1>3, <1>5 DEF StripeMove
(* payment-service's activations write one record each.                     *)
LEMMA HookWrite ==
  ASSUME HooksHold, NEW d \in Deliveries, NEW r \in HookRecord,
         HookOK(r, EventOf[d].type), hook' = [hook EXCEPT ![d] = r],
         hook[d].pc # "unsent" \/ Happened(EventOf[d]),
         claims' \subseteq Events,
         licenses' \subseteq Orders \X Products \X Deliveries,
         invoices' \subseteq Orders \X Deliveries
  PROVE  HooksHold' /\ \A e \in Deliveries : HookDeal(e)
<1>1. hook' \in [Deliveries -> HookRecord]
  BY DEF HooksHold
<1>2. \A e \in Deliveries : hook'[e] = IF e = d THEN r ELSE hook[e]
  BY DEF HooksHold
<1>3. \A e \in Deliveries : HookOK(hook'[e], EventOf[e].type)
  BY <1>2 DEF HooksHold
<1>4. \A e \in Deliveries : HookDeal(e)
  BY <1>2 DEF HookDeal
<1> QED
  BY <1>1, <1>3, <1>4 DEF HooksHold

(* GET_ORDER_BY_PAYMENT_INTENT answers with an order or nothing.            *)
LEMMA AnswerType ==
  ASSUME PurchaseShape, NEW d \in Deliveries, NEW a \in AnswersTo(d), a # NoAnswer
  PROVE  /\ a \in Hooks!Answers
         /\ \E o \in WithIntent(EventOf[d].intent) :
              a.order = o /\ a.items = orders[o].items
<1>1. PICK o \in WithIntent(EventOf[d].intent) :
        a = [order |-> o, items |-> orders[o].items]
  BY DEF AnswersTo, OrderAnswers
<1>2. orders[o] \in Row /\ o \in Orders
  BY <1>1, TypeParts DEF WithIntent, Rows, PurchaseShape, Shape
<1> QED
  BY <1>1, <1>2 DEF Hooks!Answers, Row

LEMMA DeliverStep ==
  ASSUME PurchaseShape, NEW d \in Deliveries, Deliver(d)
  PROVE  HooksHold' /\ \A e \in Deliveries : HookDeal(e)
<1> DEFINE r == [hook[d] EXCEPT !.pc = "sent"]
<1>1. HooksHold /\ hook[d] \in HookRecord
  BY DEF PurchaseShape, HooksHold
<1>2. hook' = [hook EXCEPT ![d] = r] /\ Happened(EventOf[d])
  BY <1>1 DEF Deliver, Hooks!SendHook, HooksHold
<1>3. r \in HookRecord /\ HookOK(r, EventOf[d].type)
  BY <1>1 DEF HookRecord, HookOK, Hooks!HookPC
<1>4. UNCHANGED <<claims, licenses, invoices>>
  BY DEF Deliver, Hooks!SendHook
<1> HIDE DEF r
<1> QED
  BY <1>1, <1>2, <1>3, <1>4, HookWrite DEF HooksHold

LEMMA LocalStep ==
  ASSUME PurchaseShape, NEW d \in Deliveries, Hooks!LocalHookStep(d)
  PROVE  HooksHold' /\ \A e \in Deliveries : HookDeal(e)
<1>1. HooksHold /\ hook[d] \in HookRecord /\ HookOK(hook[d], EventOf[d].type)
  BY DEF PurchaseShape, HooksHold
<1>2. EventOf[d] \in Events
  BY EventOfAssumption
<1> DEFINE Stored == /\ claims' \subseteq Events
                     /\ licenses' \subseteq Orders \X Products \X Deliveries
                     /\ invoices' \subseteq Orders \X Deliveries
<1>3. CASE Hooks!GenerateLicenses(d)
  <2> DEFINE r == [hook[d] EXCEPT !.pc = "issued", !.issued = Hooks!LicenseItems(d)]
  <2>1. hook[d].answer \in Hooks!Answers /\ EventOf[d].type = "succeeded"
    BY <1>1, <1>3 DEF Hooks!GenerateLicenses, HookOK
  <2>2. hook[d].answer.order \in Orders /\ Hooks!LicenseItems(d) \subseteq Products
    BY <2>1 DEF Hooks!Answers, Hooks!LicenseItems
  <2>3. hook' = [hook EXCEPT ![d] = r] /\ hook[d].pc # "unsent"
    BY <1>1, <1>3 DEF Hooks!GenerateLicenses, HooksHold
  <2>4. r \in HookRecord /\ HookOK(r, EventOf[d].type)
    BY <1>1, <2>1, <2>2 DEF HookRecord, HookOK, Hooks!HookPC
  <2>5. licenses' \subseteq Orders \X Products \X Deliveries
    BY <1>1, <1>3, <2>2 DEF Hooks!GenerateLicenses, HooksHold
  <2>6. claims' \subseteq Events /\ invoices' \subseteq Orders \X Deliveries
    BY <1>1, <1>3 DEF Hooks!GenerateLicenses, HooksHold
  <2> HIDE DEF r
  <2> QED
    BY <1>1, <2>3, <2>4, <2>5, <2>6, HookWrite
<1>4. CASE ~Hooks!GenerateLicenses(d)
  <2> DEFINE Turns(pc) ==
        /\ hook' = [hook EXCEPT ![d].pc = pc]
        /\ \/ pc \notin {"fetched", "generate", "issued", "invoiced", "emitted"}
           \/ /\ pc \notin {"fetched", "emitted"}
              /\ hook[d].pc \in {"fetched", "generate", "issued"}
  <2>1. (\E pc \in Hooks!HookPC : Turns(pc)) /\ hook[d].pc # "unsent" /\ Stored
    <3>1. CASE Hooks!TryClaim(d)
      BY <1>1, <1>2, <3>1 DEF Hooks!TryClaim, HooksHold, Hooks!HookPC
    <3>2. CASE Hooks!CheckLicenses(d)
      BY <1>1, <3>2 DEF Hooks!CheckLicenses, HooksHold, Hooks!HookPC
    <3>3. CASE Hooks!ResolveInvoice(d)
      <4>1. hook[d].answer.order \in Orders
        BY <1>1, <3>3 DEF Hooks!ResolveInvoice, HookOK, Hooks!Answers
      <4> QED
        BY <1>1, <3>3, <4>1 DEF Hooks!ResolveInvoice, HooksHold, Hooks!HookPC
    <3>4. CASE Hooks!IgnoreEvent(d)
      BY <1>1, <3>4 DEF Hooks!IgnoreEvent, HooksHold, Hooks!HookPC
    <3>5. CASE Hooks!ReleaseClaim(d)
      BY <1>1, <3>5 DEF Hooks!ReleaseClaim, HooksHold, Hooks!HookPC
    <3>6. CASE Hooks!Throw(d)
      BY <1>1, <3>6 DEF Hooks!Throw, HooksHold, Hooks!HookPC
    <3>7. CASE Hooks!Die(d)
      BY <1>1, <3>7 DEF Hooks!Die, HooksHold, Hooks!HookPC, Hooks!Processing
    <3> QED
      BY <1>4, <3>1, <3>2, <3>3, <3>4, <3>5, <3>6, <3>7 DEF Hooks!LocalHookStep
  <2>2. PICK pc \in Hooks!HookPC : Turns(pc)
    BY <2>1
  <2> DEFINE r == [hook[d] EXCEPT !.pc = pc]
  <2>3. hook' = [hook EXCEPT ![d] = r]
    BY <1>1, <2>2 DEF HooksHold
  <2>4. r \in HookRecord /\ HookOK(r, EventOf[d].type)
    BY <1>1, <2>2 DEF HookRecord, HookOK
  <2> HIDE DEF r
  <2> QED
    BY <1>1, <2>1, <2>3, <2>4, HookWrite
<1> QED
  BY <1>3, <1>4

LEMMA AskStep ==
  ASSUME PurchaseShape, NEW d \in Deliveries, AskOrderService(d)
  PROVE  HooksHold' /\ \A e \in Deliveries : HookDeal(e)
<1>1. HooksHold /\ hook[d] \in HookRecord /\ HookOK(hook[d], EventOf[d].type)
  BY DEF PurchaseShape, HooksHold
<1>2. PICK a \in AnswersTo(d) : Hooks!FetchOrder(d, a) \/ Hooks!Notify(d, a)
  BY DEF AskOrderService
<1>3. UNCHANGED <<claims, licenses, invoices>> /\ hook[d].pc # "unsent"
  BY <1>2 DEF Hooks!FetchOrder, Hooks!Notify
<1>4. PICK r : r \in HookRecord /\ HookOK(r, EventOf[d].type)
                 /\ hook' = [hook EXCEPT ![d] = r]
  <2>1. CASE Hooks!FetchOrder(d, a) /\ a = NoAnswer
    <3> DEFINE r == [hook[d] EXCEPT !.pc = "releasing"]
    <3>1. hook' = [hook EXCEPT ![d] = r]
      BY <1>1, <2>1 DEF Hooks!FetchOrder, HooksHold
    <3>2. r \in HookRecord /\ HookOK(r, EventOf[d].type)
      BY <1>1 DEF HookRecord, HookOK, Hooks!HookPC
    <3> QED
      BY <3>1, <3>2
  <2>2. CASE Hooks!FetchOrder(d, a) /\ a # NoAnswer
    <3> DEFINE r == [hook[d] EXCEPT !.pc = "fetched", !.answer = a]
    <3>1. hook' = [hook EXCEPT ![d] = r] /\ EventOf[d].type = "succeeded"
      BY <1>1, <2>2 DEF Hooks!FetchOrder, HooksHold
    <3>2. a \in Hooks!Answers
      BY <2>2, AnswerType
    <3>3. r \in HookRecord /\ HookOK(r, EventOf[d].type)
      BY <1>1, <3>1, <3>2 DEF HookRecord, HookOK, Hooks!HookPC
    <3> QED
      BY <3>1, <3>3
  <2>3. CASE Hooks!Notify(d, a)
    <3> DEFINE m == IF a = NoAnswer THEN {}
                      ELSE {Hooks!KindOf(d)} \cup
                             IF hook[d].issued = {} THEN {} ELSE {"licenses"}
               r == [hook[d] EXCEPT !.pc = "done", !.mails = m]
    <3>1. hook' = [hook EXCEPT ![d] = r] /\ hook[d].pc = "emitted"
      BY <1>1, <2>3 DEF Hooks!Notify, HooksHold
    <3>2. EventOf[d].type \in {"succeeded", "payment_failed", "refunded"}
      BY <1>1, <3>1, EventOfAssumption, EventsAssumption DEF HookOK, Hooks!EventTypes
    <3>3. Hooks!KindOf(d) \in Hooks!Mails
      BY <3>2 DEF Hooks!KindOf, Hooks!Mails
    <3>4. m \subseteq Hooks!Mails
      BY <3>3 DEF Hooks!Mails
    <3> HIDE DEF m
    <3>5. r \in HookRecord /\ HookOK(r, EventOf[d].type)
      BY <1>1, <3>4 DEF HookRecord, HookOK, Hooks!HookPC
    <3> QED
      BY <3>1, <3>5
  <2> QED
    BY <1>2, <2>1, <2>2, <2>3
<1> QED
  BY <1>1, <1>3, <1>4, HookWrite DEF HooksHold

LEMMA ForwardStep ==
  ASSUME PurchaseShape, NEW d \in Deliveries, EmitVerdict(d), UNCHANGED stripe
  PROVE  /\ HooksHold' /\ \A e \in Deliveries : HookDeal(e)
         /\ \A n \in Notices : NoticeDeal(n)
         /\ Hooks!KindOf(d) \in Kinds
<1>1. HooksHold /\ hook[d] \in HookRecord
  BY DEF PurchaseShape, HooksHold
<1> DEFINE r == [hook[d] EXCEPT !.pc = "emitted"]
<1>2. /\ hook' = [hook EXCEPT ![d] = r] /\ hook[d].pc # "unsent"
      /\ EventOf[d].type \in {"succeeded", "payment_failed", "refunded"}
      /\ EventOf[d].type = "succeeded" => hook[d].pc = "invoiced"
      /\ UNCHANGED <<claims, licenses, invoices>>
  BY <1>1 DEF EmitVerdict, Hooks!EmitVerdict, HooksHold
<1>3. /\ r \in HookRecord /\ HookOK(r, EventOf[d].type)
      /\ r.pc = "emitted" /\ r.answer = hook[d].answer
  BY <1>1, <1>2 DEF HookRecord, HookOK, Hooks!HookPC
<1> HIDE DEF r
<1>4. HooksHold' /\ \A e \in Deliveries : HookDeal(e)
  BY <1>1, <1>2, <1>3, HookWrite DEF HooksHold
<1>5. notice \in [Notices -> NoticeRecord] /\ d \in Notices
  BY TypeParts, NoticesAssumption DEF PurchaseShape, Shape
<1>6. /\ notice'[d].kind = Hooks!KindOf(d) /\ notice'[d].intent = EventOf[d].intent
      /\ \A n \in Notices : n # d => notice'[n] = notice[n]
  BY <1>5 DEF EmitVerdict, SendNotice, NoticeRecord
<1>7. Hooks!KindOf(d) \in Kinds
  BY <1>2 DEF Hooks!KindOf, Kinds
<1>8. Forwarding(d)
  BY <1>1, <1>2, <1>3, <1>6 DEF Forwarding, HooksHold
<1> QED
  BY <1>4, <1>6, <1>7, <1>8 DEF NoticeDeal
(* What is left alone.                                                      *)
LEMMA Idle ==
  /\ UNCHANGED checkout => CheckoutsHold = CheckoutsHold' /\ \A x \in Checkouts : CheckoutMove(x)
  /\ UNCHANGED stripe => StripeHolds = StripeHolds' /\ \A i \in Intents : StripeMove(i)
  /\ UNCHANGED hookVars => HooksHold = HooksHold' /\ \A d \in Deliveries : HookDeal(d)
  /\ UNCHANGED patch => \A p \in Patches : PatchDeal(p)
  /\ UNCHANGED notice => \A n \in Notices : NoticeDeal(n)
<1>1. ASSUME UNCHANGED checkout
      PROVE  CheckoutsHold = CheckoutsHold' /\ \A x \in Checkouts : CheckoutMove(x)
  BY <1>1 DEF CheckoutsHold, CheckoutMove
<1>2. ASSUME UNCHANGED stripe
      PROVE  StripeHolds = StripeHolds' /\ \A i \in Intents : StripeMove(i)
  BY <1>2 DEF StripeHolds, StripeMove
<1>3. ASSUME UNCHANGED hookVars
      PROVE  HooksHold = HooksHold' /\ \A d \in Deliveries : HookDeal(d)
  BY <1>3 DEF HooksHold, HookDeal, hookVars
<1>4. ASSUME UNCHANGED patch PROVE \A p \in Patches : PatchDeal(p)
  BY <1>4 DEF PatchDeal
<1>5. ASSUME UNCHANGED notice PROVE \A n \in Notices : NoticeDeal(n)
  BY <1>5 DEF NoticeDeal
<1> QED
  BY <1>1, <1>2, <1>3, <1>4, <1>5

(* order-service's own steps send nothing and forward nothing.              *)
LEMMA OrderStepDeal ==
  ASSUME PurchaseShape, NoEdits,
         OrderStep \/ \E k \in Carts, p \in Products : AddToCart(k, p)
  PROVE  /\ \A p \in Patches : PatchDeal(p)
         /\ \A n \in Notices : NoticeDeal(n)
         /\ UNCHANGED edit
<1>t. patch \in [Patches -> PatchRecord] /\ notice \in [Notices -> NoticeRecord]
  BY TypeParts DEF PurchaseShape, Shape
<1>1. ASSUME NEW c \in Calls, CallStep(c) PROVE UNCHANGED <<patch, notice, edit>>
  BY <1>1 DEF CallStep, FindExisting, FindNone, SaveExisting, ReplyExisting,
              ReadCart, InsertOrder, SaveItem, ReplyNew, FailCall
<1>2. ASSUME NEW p \in Patches, PatchStep(p)
      PROVE  UNCHANGED <<notice, edit>> /\ \A q \in Patches : PatchDeal(q)
  <2>1. UNCHANGED <<notice, edit>>
    BY <1>2 DEF PatchStep, AttachIntent, FailPatch
  <2>2. PICK pc \in {"done", "failed"} : patch' = [patch EXCEPT ![p].pc = pc]
    BY <1>2 DEF PatchStep, AttachIntent, FailPatch
  <2>3. patch[p] \in PatchRecord /\ patch[p].pc = "sent"
    BY <1>t, <1>2 DEF PatchStep, AttachIntent, FailPatch
  <2>4. /\ patch'[p].pc = pc /\ patch'[p].order = patch[p].order
        /\ patch'[p].intent = patch[p].intent
        /\ \A q \in Patches : q # p => patch'[q] = patch[q]
    BY <1>t, <2>2, <2>3 DEF PatchRecord
  <2> QED
    BY <2>1, <2>3, <2>4 DEF PatchDeal
<1>3. ASSUME NEW n \in Notices, NoticeStep(n)
      PROVE  UNCHANGED <<patch, edit>> /\ \A m \in Notices : NoticeDeal(m)
  <2>1. UNCHANGED <<patch, edit>> /\ notice[n].pc # "unsent" /\ notice[n] \in NoticeRecord
    BY <1>t, <1>3 DEF NoticeStep, ReadNotice, SaveNotice, ClearPaidCart, FailNotice
  <2>2. PICK r : /\ notice' = [notice EXCEPT ![n] = r]
                 /\ r.kind = notice[n].kind /\ r.intent = notice[n].intent
    <3> DEFINE Turned(pc) == notice' = [notice EXCEPT ![n].pc = pc]
    <3>1. ASSUME NEW pc, Turned(pc)
          PROVE  \E r : /\ notice' = [notice EXCEPT ![n] = r]
                        /\ r.kind = notice[n].kind /\ r.intent = notice[n].intent
      <4> DEFINE r == [notice[n] EXCEPT !.pc = pc]
      <4>1. notice' = [notice EXCEPT ![n] = r]
        BY <1>t, <3>1
      <4>2. r.kind = notice[n].kind /\ r.intent = notice[n].intent
        BY <2>1 DEF NoticeRecord
      <4> HIDE DEF r
      <4> QED
        BY <4>1, <4>2
    <3>2. CASE \E o \in WithIntent(notice[n].intent) :
                 notice' = [notice EXCEPT ![n].pc = "save", ![n].order = o,
                                          ![n].copy = orders[o]]
      <4>1. PICK o : notice' = [notice EXCEPT ![n].pc = "save", ![n].order = o,
                                              ![n].copy = orders[o]]
        BY <3>2
      <4> DEFINE r == [notice[n] EXCEPT !.pc = "save", !.order = o, !.copy = orders[o]]
      <4>2. notice' = [notice EXCEPT ![n] = r]
        BY <1>t, <2>1, <4>1 DEF NoticeRecord
      <4>3. r.kind = notice[n].kind /\ r.intent = notice[n].intent
        BY <2>1 DEF NoticeRecord
      <4> HIDE DEF r
      <4> QED
        BY <4>2, <4>3
    <3>3. (\E pc : Turned(pc)) \/ \E o \in WithIntent(notice[n].intent) :
                 notice' = [notice EXCEPT ![n].pc = "save", ![n].order = o,
                                          ![n].copy = orders[o]]
      BY <1>3 DEF NoticeStep, ReadNotice, SaveNotice, ClearPaidCart, FailNotice
    <3> QED
      BY <3>1, <3>2, <3>3
  <2> QED
    BY <1>t, <2>1, <2>2 DEF NoticeDeal
<1>4. \A e \in Edits : ~EditStep(e)
  BY DEF NoEdits, EditStep, ReadEdit, SaveEdit, EditDies, FailEdit
<1>5. ASSUME \/ \E o \in Orders : GoIdle(o)
             \/ CleanupPending
             \/ \E k \in Carts, p \in Products : AddToCart(k, p)
      PROVE  UNCHANGED <<patch, notice, edit>>
  BY <1>5 DEF GoIdle, CleanupPending, AddToCart
<1> QED
  BY <1>1, <1>2, <1>3, <1>4, <1>5, Idle DEF OrderStep

LEMMA ShopDeals ==
  ASSUME PurchaseShape, RepliesHold, Shop
  PROVE  Deal /\ CheckoutsHold' /\ HooksHold' /\ StripeHolds'
<1>h. HooksHold' /\ \A d \in Deliveries : HookDeal(d)
  BY Idle DEF Shop, PurchaseShape
<1> DEFINE Done == /\ CheckoutsHold' /\ StripeHolds'
                   /\ \A x \in Checkouts : CheckoutMove(x)
                   /\ \A i \in Intents : StripeMove(i)
                   /\ \A p \in Patches : PatchDeal(p)
                   /\ UNCHANGED <<notice, edit>>
<1>1. ASSUME NEW x \in Checkouts, NEW k \in Carts, StartCheckout(x, k) PROVE Done
  BY <1>1, Idle, StartStep DEF StartCheckout, SendCall, PurchaseShape
<1>2. ASSUME NEW x \in Checkouts, RetryOrder(x) PROVE Done
  BY <1>2, Idle, RetryStep DEF RetryOrder, SendCall, PurchaseShape
<1>3. ASSUME NEW x \in Checkouts, GiveUpOrder(x) \/ FailMint(x) PROVE Done
  BY <1>3, Idle, FailStep DEF GiveUpOrder, FailMint, orderVars, PurchaseShape
<1>4. ASSUME NEW x \in Checkouts, TakeOrder(x) PROVE Done
  BY <1>4, Idle, TakeStep DEF TakeOrder, orderVars, PurchaseShape
<1>5. ASSUME NEW x \in Checkouts, ReuseIntent(x) \/ RefuseIntent(x) PROVE Done
  BY <1>5, Idle, RetrieveStep DEF ReuseIntent, RefuseIntent, orderVars, PurchaseShape
<1>6. ASSUME NEW x \in Checkouts, Respond(x) PROVE Done
  BY <1>6, Idle, RespondStep DEF Respond, SendPatch, PurchaseShape
<1>7. ASSUME NEW x \in Checkouts, NEW i \in Intents, Mint(x, i) \/ MintAgain(x, i)
      PROVE  Done
  <2>1. UNCHANGED orderVars
    BY <1>7 DEF Mint, MintAgain
  <2> QED
    BY <1>7, <2>1, Idle, MintStep DEF orderVars
<1>8. Done
  BY <1>1, <1>2, <1>3, <1>4, <1>5, <1>6, <1>7 DEF Shop, GatewayStep
<1> QED
  BY <1>h, <1>8, Idle DEF Deal

(* Every step is such a deal, and keeps the type of the gateway's, Stripe's *)
(* and payment-service's state.                                             *)
LEMMA Deals ==
  ASSUME PurchaseShape, RepliesHold, NoEdits, [PurchaseNext]_purchaseVars
  PROVE  Deal /\ CheckoutsHold' /\ HooksHold' /\ StripeHolds'
<1>1. CASE Pay
  <2>1. UNCHANGED <<orderVars, checkout, hookVars>>
    BY <1>1 DEF Pay
  <2>2. StripeHolds' /\ \A i \in Intents : StripeMove(i)
    BY <1>1, PayStep DEF Pay
  <2> QED
    BY <2>1, <2>2, Idle DEF orderVars, Deal, PurchaseShape
<1>2. CASE ProcessEvent
  <2>1. UNCHANGED <<checkout, stripe>>
    BY <1>2 DEF ProcessEvent, gatewayVars
  <2>2. PICK d \in Deliveries : Deliver(d) \/ HookStep(d)
    BY <1>2 DEF ProcessEvent
  <2>3. ASSUME ~EmitVerdict(d)
        PROVE  HooksHold' /\ (\A e \in Deliveries : HookDeal(e)) /\ UNCHANGED orderVars
    BY <2>2, <2>3, DeliverStep, LocalStep, AskStep DEF HookStep, Deliver, AskOrderService
  <2>4. ASSUME EmitVerdict(d)
        PROVE  /\ HooksHold' /\ \A e \in Deliveries : HookDeal(e)
               /\ \A n \in Notices : NoticeDeal(n)
               /\ UNCHANGED <<patch, edit>>
    BY <2>1, <2>4, ForwardStep DEF EmitVerdict, SendNotice
  <2> QED
    BY <2>1, <2>3, <2>4, Idle DEF orderVars, Deal, PurchaseShape
<1>3. CASE KeepOrders
  <2>1. UNCHANGED <<checkout, stripe, hookVars>>
    BY <1>3 DEF KeepOrders, gatewayVars
  <2> QED
    BY <1>3, <2>1, Idle, OrderStepDeal DEF KeepOrders, Deal, PurchaseShape
<1>4. CASE UNCHANGED purchaseVars
  BY <1>4, Idle DEF purchaseVars, gatewayVars, orderVars, Deal, PurchaseShape
<1> QED
  BY <1>1, <1>2, <1>3, <1>4, ShopDeals DEF PurchaseNext

-----------------------------------------------------------------------------
(* Every step is one OrderSystem allows.                                    *)

LEMMA PurchaseImplements ==
  ASSUME PurchaseShape, Joined, [PurchaseNext]_purchaseVars
  PROVE  [OrderNext]_orderVars
<1>1. CASE Shop
  <2>1. ASSUME NEW x \in Checkouts, NEW k \in Carts, StartCheckout(x, k)
        PROVE  OrderNext
    BY <2>1, FirstTry, CallsOfCheckouts DEF StartCheckout, OrderNext, Ask
  <2>2. ASSUME NEW x \in Checkouts, RetryOrder(x) PROVE OrderNext
    <3>1. checkout[x].cart \in Carts /\ checkout[x].try + 1 \in 1 .. MaxTries
      BY <2>2, TriesAssumption DEF RetryOrder, PurchaseShape, CheckoutsHold, CheckoutOK
    <3>2. <<x, checkout[x].try + 1>> \in Calls
      BY <3>1, CallsOfCheckouts
    <3> QED
      BY <2>2, <3>1, <3>2 DEF RetryOrder, OrderNext, Ask
  <2>3. ASSUME NEW x \in Checkouts, Respond(x) PROVE OrderNext
    <3>1. /\ checkout[x].order \in Orders /\ checkout[x].intent \in Intents
          /\ checkout[x].try \in 1 .. MaxTries
      BY <2>3 DEF Respond, PurchaseShape, CheckoutsHold, CheckoutOK
    <3>2. CallOf(x) \in Calls /\ AnsweredFor(checkout[x], CallOf(x))
      BY <2>3, <3>1, CallsOfCheckouts DEF Respond, CallOf, Joined, Answered
    <3>3. \A p \in Patches : patch[p].intent # checkout[x].intent
      BY <2>3 DEF Respond, Joined, MintedOnce
    <3>4. MayAttach(checkout[x].order, checkout[x].intent)
      BY <3>2, <3>3 DEF MayAttach, AnsweredFor
    <3> QED
      BY <2>3, <3>1, <3>4, PatchesAssumption DEF Respond, OrderNext, Ask
  <2>4. ASSUME NEW x \in Checkouts,
               \/ GiveUpOrder(x) \/ TakeOrder(x) \/ ReuseIntent(x) \/ RefuseIntent(x)
               \/ FailMint(x) \/ \E i \in Intents : Mint(x, i) \/ MintAgain(x, i)
        PROVE  UNCHANGED orderVars
    BY <2>4 DEF GiveUpOrder, TakeOrder, ReuseIntent, RefuseIntent, FailMint, Mint, MintAgain
  <2> QED
    BY <1>1, <2>1, <2>2, <2>3, <2>4 DEF Shop, GatewayStep
<1>2. CASE Pay
  BY <1>2 DEF Pay
<1>3. CASE ProcessEvent
  <2>1. PICK d \in Deliveries : Deliver(d) \/ HookStep(d)
    BY <1>3 DEF ProcessEvent
  <2>2. ASSUME ~EmitVerdict(d) PROVE UNCHANGED orderVars
    BY <2>1, <2>2 DEF HookStep, Deliver, AskOrderService
  <2>3. ASSUME EmitVerdict(d) PROVE OrderNext
    <3> DEFINE i == EventOf[d].intent
    <3>1. i \in Intents /\ EventOf[d].type \in Hooks!EventTypes
      BY EventOfAssumption, EventsAssumption, IntentsAssumption
    <3>2. hook[d].pc # "unsent"
      BY <2>3 DEF EmitVerdict, Hooks!EmitVerdict
    <3>3. Happened(EventOf[d])
      BY <3>2 DEF Joined, EventsHappened
    <3>4. Touched(stripe[i])
      BY <3>1, <3>3 DEF Happened, Touched, Hooks!EventTypes
    <3>5. MayJudge(i)
      BY <3>1, <3>4 DEF Joined, IntentsSent
    <3>6. Hooks!KindOf(d) \in Kinds
      BY <2>3 DEF EmitVerdict, Hooks!EmitVerdict, Hooks!KindOf, Kinds
    <3> QED
      BY <2>3, <3>1, <3>5, <3>6, NoticesAssumption DEF EmitVerdict, OrderNext, Ask
  <2> QED
    BY <2>2, <2>3
<1>4. CASE KeepOrders
  BY <1>4 DEF KeepOrders, OrderNext, Ask
<1>5. CASE UNCHANGED purchaseVars
  BY <1>5 DEF purchaseVars
<1> QED
  BY <1>1, <1>2, <1>3, <1>4, <1>5 DEF PurchaseNext
-----------------------------------------------------------------------------
(* What the steps keep.                                                     *)

LEMMA PurchaseInits ==
  ASSUME PurchaseInit
  PROVE  PurchaseShape /\ Joined /\ Origins /\ Causes /\ Creators
<1>1. Shape /\ Origins /\ Causes /\ Creators
  BY ShapeInit, OriginsInit, CausesInit, CreatorsInit DEF PurchaseInit
<1>2. CheckoutsHold /\ StripeHolds
  BY TriesAssumption
     DEF PurchaseInit, CheckoutsHold, CheckoutRecord, CheckoutOK, StripeHolds, StripeRecord
<1>3. HooksHold
  BY DEF PurchaseInit, Hooks!WebhookInit, HooksHold, HookRecord, HookOK, Hooks!HookPC
<1>4. RepliesHold /\ Answered /\ MintedOnce /\ PatchesMinted /\ NoEdits
  BY DEF PurchaseInit, OrderInit, RepliesHold, Answered, MintedOnce, PatchesMinted, NoEdits
<1>5. IntentsSent
  BY DEF PurchaseInit, IntentsSent, Touched
<1>6. EventsHappened
  BY DEF PurchaseInit, OrderInit, Hooks!WebhookInit, EventsHappened
<1> QED
  BY <1>1, <1>2, <1>3, <1>4, <1>5, <1>6 DEF PurchaseShape, Joined

(* Each step changes the record of one CREATE_ORDER at most.                *)
LEMMA CallsApart ==
  ASSUME Shape, [OrderNext]_orderVars, NEW c \in Calls
  PROVE  \/ call'[c] = call[c]
         \/ CallStep(c)
         \/ \E k \in Carts : SendCall(c, k)
<1>t. call \in [Calls -> CallRecord]
  BY TypeParts DEF Shape
<1>1. ASSUME NEW d \in Calls, d # c, CallStep(d) \/ \E k \in Carts : SendCall(d, k)
      PROVE  call'[c] = call[c]
  BY <1>t, <1>1 DEF CallStep, SendCall, FindExisting, FindNone, SaveExisting,
       ReplyExisting, ReadCart, InsertOrder, SaveItem, ReplyNew, FailCall
<1>2. ASSUME \A d \in Calls : ~CallStep(d) /\ \A k \in Carts : ~SendCall(d, k)
      PROVE  call' = call
  <2>1. CASE Ask
    BY <1>2, <2>1 DEF Ask, SendPatch, SendNotice, SendEdit, AddToCart
  <2>2. CASE OrderStep
    BY <1>2, <2>2 DEF OrderStep, PatchStep, AttachIntent, FailPatch, NoticeStep,
         ReadNotice, SaveNotice, ClearPaidCart, FailNotice, EditStep, ReadEdit,
         SaveEdit, EditDies, FailEdit, GoIdle, CleanupPending
  <2>3. CASE UNCHANGED orderVars
    BY <2>3 DEF orderVars
  <2> QED
    BY <2>1, <2>2, <2>3 DEF OrderNext
<1> QED
  BY <1>1, <1>2

LEMMA RepliedStays ==
  ASSUME Shape, [OrderNext]_orderVars, NEW c \in Calls, call[c].pc = "replied"
  PROVE  call'[c] = call[c]
<1>1. ~CallStep(c) /\ \A k \in Carts : ~SendCall(c, k)
  BY DEF CallStep, SendCall, FindExisting, FindNone, SaveExisting, ReplyExisting,
         ReadCart, InsertOrder, SaveItem, ReplyNew, FailCall
<1> QED
  BY <1>1, CallsApart

(* Where each action of CREATE_ORDER leaves its activation.                 *)
LEMMA CallGoes ==
  ASSUME call \in [Calls -> CallRecord], NEW c \in Calls
  PROVE  /\ FindExisting(c) => call'[c].pc = "reuse"
         /\ FindNone(c) => call'[c].pc = "fresh"
         /\ SaveExisting(c) => call'[c].pc = "kept"
         /\ ReadCart(c) => call'[c].pc \in {"draft", "failed"}
         /\ InsertOrder(c) => call'[c].pc = "items"
         /\ SaveItem(c) => call'[c].pc \in {"items", "built"}
         /\ ReplyNew(c) \/ ReplyExisting(c) => call'[c].pc = "replied"
         /\ FailCall(c) => call'[c].pc = "failed"
         /\ \A k \in Carts : SendCall(c, k) => call'[c].pc = "sent"
<1>1. FindExisting(c) => call'[c].pc = "reuse"
  BY DEF FindExisting, CallRecord
<1>2. FindNone(c) => call'[c].pc = "fresh"
  BY DEF FindNone, CallRecord
<1>3. SaveExisting(c) => call'[c].pc = "kept"
  BY DEF SaveExisting, CallRecord
<1>4. ReadCart(c) => call'[c].pc \in {"draft", "failed"}
  BY DEF ReadCart, CallRecord
<1>5. InsertOrder(c) => call'[c].pc = "items"
  BY DEF InsertOrder, CallRecord
<1>6. SaveItem(c) => call'[c].pc \in {"items", "built"}
  BY DEF SaveItem, CallRecord
<1>7. ReplyNew(c) \/ ReplyExisting(c) => call'[c].pc = "replied"
  BY DEF ReplyNew, ReplyExisting, CallRecord
<1>8. FailCall(c) => call'[c].pc = "failed"
  BY DEF FailCall, CallRecord
<1>9. \A k \in Carts : SendCall(c, k) => call'[c].pc = "sent"
  BY DEF SendCall, CallRecord
<1> QED
  BY <1>1, <1>2, <1>3, <1>4, <1>5, <1>6, <1>7, <1>8, <1>9

LEMMA RepliesStep ==
  ASSUME Shape, Origins, RepliesHold, [OrderNext]_orderVars
  PROVE  RepliesHold'
<1>m. Move
  BY Moves
<1>s. \A o, i : MintedFor(o, i) => MintedNext(o, i)
  BY <1>m, MintedStays
<1> SUFFICES ASSUME NEW c \in Calls, call'[c].pc \in {"kept", "replied"}
             PROVE  /\ call'[c].order \in Orders /\ call'[c].copy \in Row
                    /\ MintedNext(call'[c].order, call'[c].copy.intent)
  BY DEF RepliesHold, MintedFor, MintedNext
<1>t. /\ orders \in [Orders -> Row \cup {NoRow}] /\ call \in [Calls -> CallRecord]
      /\ call[c] \in CallRecord /\ CallOK(call[c])
  BY TypeParts DEF Shape, CallsHold
<1>o. /\ \A o \in Rows : MintedFor(o, orders[o].intent)
      /\ call[c].pc = "reuse" => MintedFor(call[c].order, call[c].copy.intent)
  BY DEF Origins
<1>1. CASE call'[c] = call[c]
  BY <1>s, <1>1 DEF RepliesHold
<1>2. CASE SaveExisting(c)
  <2>1. /\ call'[c].order = call[c].order /\ call'[c].copy = call[c].copy
        /\ call[c].pc = "reuse"
    BY <1>t, <1>2 DEF SaveExisting, CallRecord
  <2> QED
    BY <1>s, <1>t, <1>o, <2>1 DEF CallOK
<1>3. CASE ReplyExisting(c)
  <2>1. /\ call'[c].order = call[c].order /\ call[c].pc = "kept"
        /\ call'[c].copy = IF call[c].order \in Rows
                             THEN orders[call[c].order] ELSE call[c].copy
    BY <1>t, <1>3 DEF ReplyExisting, CallRecord
  <2> QED
    BY <1>s, <1>t, <1>o, <2>1 DEF RepliesHold, Rows
<1>4. CASE ReplyNew(c)
  <2>1. /\ call'[c].order = call[c].order /\ call[c].order \in Rows
        /\ call'[c].copy = orders[call[c].order]
    BY <1>t, <1>4 DEF ReplyNew, CallRecord
  <2> QED
    BY <1>s, <1>t, <1>o, <2>1 DEF Rows
<1>5. CASE \E k \in Carts : SendCall(c, k)
  BY <1>t, <1>5 DEF SendCall, CallRecord
<1>6. CASE FindExisting(c) \/ FindNone(c) \/ ReadCart(c) \/ InsertOrder(c)
             \/ SaveItem(c) \/ FailCall(c)
  BY <1>t, <1>6, CallGoes
<1> QED
  BY <1>1, <1>2, <1>3, <1>4, <1>5, <1>6, CallsApart DEF CallStep

(* An intent once sent, and a fact once known, stay so.                     *)
JudgeNext(i) == \E p \in Patches : patch'[p].intent = i

LEMMA MayJudgeStays ==
  ASSUME Origins, Deal, NEW i \in Intents, MayJudge(i)
  PROVE  JudgeNext(i)
<1>1. PICK p \in Patches : patch[p].intent = i
  BY DEF MayJudge
<1>2. patch[p].pc # "unsent"
  BY <1>1, NoIntentAssumption DEF Origins
<1> QED
  BY <1>1, <1>2 DEF Deal, PatchDeal, Sending, JudgeNext

LEMMA FactStays ==
  ASSUME StripeHolds, Joined, Deal, NEW i \in Intents, NEW kind \in Kinds,
         FactOf(kind, stripe[i])
  PROVE  FactOf(kind, stripe'[i])
BY DEF Deal, StripeMove, Minting, FactOf, Kinds

(* The type an event has says which fact it is about.                       *)
LEMMA HappenedIsFact ==
  ASSUME NEW d \in Deliveries, Happened(EventOf[d])
  PROVE  /\ Hooks!KindOf(d) \in Kinds /\ EventOf[d].type # "other"
         /\ FactOf(Hooks!KindOf(d), stripe[EventOf[d].intent])
<1>1. EventOf[d].type \in Hooks!EventTypes
  BY EventOfAssumption, EventsAssumption
<1> QED
  BY <1>1 DEF Hooks!EventTypes, Hooks!KindOf, Happened, FactOf, Kinds

LEMMA AnsweredStep ==
  ASSUME PurchaseShape, Joined, Deal, [OrderNext]_orderVars
  PROVE  Answered'
<1> SUFFICES ASSUME NEW x \in Checkouts,
                    checkout'[x].pc \in {"retrieve", "mint", "minted", "paying"}
             PROVE  /\ call'[CallOf(x)'].pc = "replied"
                    /\ call'[CallOf(x)'].order = checkout'[x].order
  BY DEF Answered, AnsweredFor
<1> DEFINE c == CallOf(x)
<1>1. checkout[x].pc \in {"retrieve", "mint", "minted", "paying", "asking"}
      /\ checkout'[x].try = checkout[x].try
  BY DEF Deal, CheckoutMove, Took, Minting, Sending, SameDeal
<1>2. c \in Calls /\ CallOf(x)' = c
  <2>1. checkout[x].try \in 1 .. MaxTries
    BY <1>1 DEF PurchaseShape, CheckoutsHold, CheckoutOK
  <2> QED
    BY <1>1, <2>1, CallsOfCheckouts DEF CallOf
<1>3. call[c].pc = "replied" /\ checkout'[x].order = call[c].order
  <2>1. CASE Took(x)
    BY <2>1 DEF Took
  <2>2. CASE ~Took(x)
    <3>1. checkout[x].pc # "asking" /\ checkout'[x].order = checkout[x].order
      BY <2>2 DEF Deal, CheckoutMove, Minting, Sending, SameDeal
    <3> QED
      BY <1>1, <3>1 DEF Joined, Answered, AnsweredFor
  <2> QED
    BY <2>1, <2>2
<1>4. call'[c] = call[c]
  BY <1>2, <1>3, RepliedStays DEF PurchaseShape
<1> QED
  BY <1>2, <1>3, <1>4

LEMMA MintedOnceStep ==
  ASSUME PurchaseShape, Joined, Origins, Deal
  PROVE  MintedOnce'
<1> SUFFICES ASSUME NEW x \in Checkouts, checkout'[x].pc = "minted"
             PROVE  /\ stripe'[checkout'[x].intent].state # "unborn"
                    /\ stripe'[checkout'[x].intent].order = checkout'[x].order
                    /\ \A p \in Patches : patch'[p].intent # checkout'[x].intent
                    /\ \A y \in Checkouts :
                         /\ checkout'[y].pc = "minted"
                         /\ checkout'[y].intent = checkout'[x].intent
                         => y = x
  BY DEF MintedOnce
<1>d. /\ \A y \in Checkouts : CheckoutMove(y)
      /\ \A i \in Intents : StripeMove(i)
      /\ \A p \in Patches : PatchDeal(p)
  BY DEF Deal
<1>1. CASE checkout'[x] = checkout[x]
  <2> DEFINE i == checkout[x].intent
  <2>1. /\ checkout[x].pc = "minted" /\ i \in Intents
        /\ stripe[i].state # "unborn" /\ stripe[i].order = checkout[x].order
        /\ \A p \in Patches : patch[p].intent # i
        /\ \A y \in Checkouts :
             checkout[y].pc = "minted" /\ checkout[y].intent = i => y = x
    BY <1>1 DEF Joined, MintedOnce, PurchaseShape, CheckoutsHold, CheckoutOK
  <2>2. stripe'[i].state # "unborn" /\ stripe'[i].order = stripe[i].order
    BY <1>d, <2>1 DEF StripeMove, Minting
  <2>3. ASSUME NEW p \in Patches PROVE patch'[p].intent # i
    <3>1. CASE Sending(p)
      BY <1>1, <2>1, <3>1, PatchesAssumption DEF Sending
    <3>2. CASE ~Sending(p)
      BY <1>d, <2>1, <3>2 DEF PatchDeal
    <3> QED
      BY <3>1, <3>2
  <2>4. ASSUME NEW y \in Checkouts, checkout'[y].pc = "minted", checkout'[y].intent = i
        PROVE  y = x
    <3>1. ~Minting(y, i)
      BY <2>1 DEF Minting
    <3>2. checkout'[y] = checkout[y]
      BY <1>d, <2>4, <3>1 DEF CheckoutMove, Took, Sending, Minting
    <3> QED
      BY <2>1, <2>4, <3>2
  <2> QED
    BY <1>1, <2>1, <2>2, <2>3, <2>4
<1>2. ASSUME NEW i \in Intents, Minting(x, i)
      PROVE  /\ stripe'[checkout'[x].intent].state # "unborn"
             /\ stripe'[checkout'[x].intent].order = checkout'[x].order
             /\ \A p \in Patches : patch'[p].intent # checkout'[x].intent
             /\ \A y \in Checkouts :
                  /\ checkout'[y].pc = "minted"
                  /\ checkout'[y].intent = checkout'[x].intent
                  => y = x
  <2>1. /\ checkout'[x].intent = i /\ stripe[i].state = "unborn"
        /\ stripe'[i].state = "open" /\ stripe'[i].order = checkout'[x].order
        /\ patch' = patch /\ \A y \in Checkouts : y # x => checkout'[y] = checkout[y]
    BY <1>2 DEF Minting, SameDeal, orderVars
  <2>2. \A p \in Patches : patch[p].intent # i
    BY <2>1, NoIntentAssumption DEF Origins, Joined, PatchesMinted
  <2>3. \A y \in Checkouts : checkout[y].pc = "minted" => checkout[y].intent # i
    BY <2>1 DEF Joined, MintedOnce
  <2> QED
    BY <2>1, <2>2, <2>3
<1>3. checkout'[x] = checkout[x] \/ \E i \in Intents : Minting(x, i)
  BY <1>d DEF CheckoutMove, Took, Sending
<1> QED
  BY <1>1, <1>2, <1>3

LEMMA PatchesMintedStep ==
  ASSUME PurchaseShape, Joined, Deal
  PROVE  PatchesMinted'
<1> SUFFICES ASSUME NEW p \in Patches, patch'[p].pc # "unsent"
             PROVE  /\ checkout'[p].pc = "paying" /\ checkout'[p].order = patch'[p].order
                    /\ stripe'[patch'[p].intent].state # "unborn"
                    /\ stripe'[patch'[p].intent].order = patch'[p].order
  BY DEF PatchesMinted
<1>d. CheckoutMove(p) /\ (\A i \in Intents : StripeMove(i)) /\ PatchDeal(p)
  BY PatchesAssumption DEF Deal
<1>1. CASE Sending(p)
  BY <1>1, PatchesAssumption DEF Sending, SameDeal, Joined, MintedOnce
<1>2. CASE ~Sending(p)
  <2>1. /\ patch'[p].order = patch[p].order /\ patch'[p].intent = patch[p].intent
        /\ patch[p].pc # "unsent"
    BY <1>d, <1>2 DEF PatchDeal
  <2>2. /\ checkout[p].pc = "paying" /\ checkout[p].order = patch[p].order
        /\ stripe[patch[p].intent].state # "unborn"
        /\ stripe[patch[p].intent].order = patch[p].order
        /\ patch[p].intent \in Intents
    BY <2>1 DEF Joined, PatchesMinted, PurchaseShape, Shape, PatchesHold
  <2>3. checkout'[p] = checkout[p]
    BY <1>d, <2>2 DEF CheckoutMove, Took, Minting, Sending
  <2>4. /\ stripe'[patch[p].intent].state # "unborn"
        /\ stripe'[patch[p].intent].order = stripe[patch[p].intent].order
    BY <1>d, <2>2 DEF StripeMove, Minting
  <2> QED
    BY <2>1, <2>2, <2>3, <2>4
<1> QED
  BY <1>1, <1>2

LEMMA IntentsSentStep ==
  ASSUME PurchaseShape, Joined, Origins, Deal
  PROVE  IntentsSent'
<1>1. ASSUME NEW x \in Checkouts, checkout'[x].pc \in {"retrieve", "paying"}
      PROVE  JudgeNext(checkout'[x].intent)
  <2>1. CASE Took(x)
    <3>1. checkout[x].try \in 1 .. MaxTries
      BY <2>1 DEF Took, PurchaseShape, CheckoutsHold, CheckoutOK
    <3>2. CallOf(x) \in Calls
      BY <3>1, CallsOfCheckouts DEF CallOf
    <3>3. /\ checkout'[x].intent \in Intents
          /\ MintedFor(call[CallOf(x)].order, checkout'[x].intent)
      BY <1>1, <2>1, <3>2 DEF Took, Joined, RepliesHold, Row
    <3>4. MayJudge(checkout'[x].intent)
      BY <3>3, NoIntentAssumption DEF MintedFor, MayJudge
    <3> QED
      BY <3>3, <3>4, MayJudgeStays
  <2>2. CASE Sending(x)
    BY <2>2, PatchesAssumption DEF Sending, JudgeNext
  <2>3. CASE ~Took(x) /\ ~Sending(x)
    <3>1. /\ checkout[x].pc \in {"retrieve", "paying"}
          /\ checkout'[x].intent = checkout[x].intent
      BY <1>1, <2>3 DEF Deal, CheckoutMove, Minting
    <3>2. MayJudge(checkout[x].intent) /\ checkout[x].intent \in Intents
      BY <3>1 DEF Joined, IntentsSent, PurchaseShape, CheckoutsHold, CheckoutOK
    <3> QED
      BY <3>1, <3>2, MayJudgeStays
  <2> QED
    BY <2>1, <2>2, <2>3
<1>2. ASSUME NEW i \in Intents, Touched(stripe'[i]) PROVE JudgeNext(i)
  <2>1. Touched(stripe[i]) \/ \E x \in Checkouts :
          checkout[x].pc = "paying" /\ checkout[x].intent = i
    BY <1>2 DEF Deal, StripeMove, Minting, Touched
  <2>2. MayJudge(i)
    BY <2>1 DEF Joined, IntentsSent
  <2> QED
    BY <2>2, MayJudgeStays
<1> QED
  BY <1>1, <1>2 DEF IntentsSent, MayJudge, JudgeNext

LEMMA EventsHappenedStep ==
  ASSUME PurchaseShape, Joined, Deal
  PROVE  EventsHappened'
<1>s. StripeHolds
  BY DEF PurchaseShape
<1>1. ASSUME NEW d \in Deliveries, hook'[d].pc # "unsent" PROVE Happened(EventOf[d])'
  <2>1. Happened(EventOf[d])
    BY <1>1 DEF Deal, HookDeal, Joined, EventsHappened
  <2>2. EventOf[d].intent \in Intents /\ EventOf[d].type \in Hooks!EventTypes
    BY EventOfAssumption, EventsAssumption, IntentsAssumption
  <2>3. FactOf(Hooks!KindOf(d), stripe'[EventOf[d].intent])
    BY <1>s, <2>1, <2>2, HappenedIsFact, FactStays
  <2> QED
    BY <2>1, <2>2, <2>3 DEF Happened, FactOf, Hooks!KindOf, Hooks!EventTypes
<1>2. ASSUME NEW n \in Notices, notice'[n].pc # "unsent"
      PROVE  FactOf(notice'[n].kind, stripe'[notice'[n].intent])
  <2>1. CASE Forwarding(n)
    <3>1. n \in Deliveries /\ Happened(EventOf[n])
      BY <2>1, NoticesAssumption DEF Forwarding, Joined, EventsHappened
    <3> QED
      BY <2>1, <3>1, HappenedIsFact DEF Forwarding
  <2>2. CASE ~Forwarding(n)
    <3>1. /\ notice'[n].kind = notice[n].kind /\ notice'[n].intent = notice[n].intent
          /\ notice[n].pc # "unsent"
      BY <1>2, <2>2 DEF Deal, NoticeDeal
    <3>2. notice[n].kind \in Kinds /\ notice[n].intent \in Intents
      BY <3>1, TypeParts DEF PurchaseShape, Shape, NoticeRecord, NoticesHold, NoticeOK
    <3> QED
      BY <1>s, <3>1, <3>2, FactStays DEF Joined, EventsHappened
  <2> QED
    BY <2>1, <2>2
<1> QED
  BY <1>1, <1>2 DEF EventsHappened

PurchaseInv == PurchaseShape /\ Joined /\ Origins /\ Causes /\ Creators

LEMMA PurchaseStep ==
  ASSUME PurchaseInv, [PurchaseNext]_purchaseVars
  PROVE  PurchaseInv' /\ [OrderNext]_orderVars /\ Move /\ Deal
<1>1. PurchaseShape /\ Joined /\ Shape /\ RepliesHold /\ NoEdits
      /\ Origins /\ Causes /\ Creators
  BY DEF PurchaseInv, PurchaseShape, Joined
<1>2. [OrderNext]_orderVars
  BY <1>1, PurchaseImplements
<1>3. Shape' /\ Move
  BY <1>1, <1>2, ShapeStep, Moves
<1>4. Origins' /\ Causes' /\ Creators'
  BY <1>1, <1>3, OriginsStep, CausesStep, CreatorsStep
<1>5. Deal /\ CheckoutsHold' /\ HooksHold' /\ StripeHolds'
  BY <1>1, Deals
<1>6. RepliesHold' /\ Answered' /\ MintedOnce' /\ PatchesMinted'
  BY <1>1, <1>2, <1>5, RepliesStep, AnsweredStep, MintedOnceStep, PatchesMintedStep
<1>7. IntentsSent' /\ EventsHappened'
  BY <1>1, <1>5, IntentsSentStep, EventsHappenedStep
<1>8. NoEdits'
  BY <1>1, <1>5 DEF Deal, NoEdits
<1> QED
  BY <1>2, <1>3, <1>4, <1>5, <1>6, <1>7, <1>8 DEF PurchaseInv, PurchaseShape, Joined

(* The state of gateway, Stripe, order-service and payment-service keeps    *)
(* its type through retries, second mints, late answers and failures: no    *)
(* checkout charges for an order it was not given.                          *)
THEOREM PurchaseTypeCorrect == PurchaseSpec => []PurchaseTypeOK
<1>1. PurchaseInit => PurchaseInv
  BY PurchaseInits DEF PurchaseInv
<1>2. PurchaseInv /\ [PurchaseNext]_purchaseVars => PurchaseInv'
  BY PurchaseStep
<1>3. PurchaseInv => PurchaseTypeOK
  BY DEF PurchaseInv, PurchaseShape, Shape, CheckoutsHold, CheckoutRecord,
         StripeHolds, StripeRecord, HooksHold, HookRecord, PurchaseTypeOK,
         Hooks!WebhookTypeOK
<1> QED
  BY <1>1, <1>2, <1>3, PTL DEF PurchaseSpec

(* The gateway, Stripe and payment-service ask of order-service only what   *)
(* OrderSystem lets its callers ask: an intent is attached to the order it  *)
(* was minted for, and once; a verdict is sent on an intent a checkout sent *)
(* before.  What OrderProofs shows of OrderSpec holds of every purchase.    *)
THEOREM PurchaseRefinesOrders == PurchaseSpec => ImplementsOrderSystem
<1>1. PurchaseInit => PurchaseInv /\ OrderInit
  BY PurchaseInits DEF PurchaseInv, PurchaseInit
<1>2. PurchaseInv /\ [PurchaseNext]_purchaseVars => PurchaseInv' /\ [OrderNext]_orderVars
  BY PurchaseStep
<1> QED
  BY <1>1, <1>2, PTL DEF PurchaseSpec, ImplementsOrderSystem, OrderSpec
-----------------------------------------------------------------------------
(* What an order was created for.                                           *)

(* The lines a row gets are its own, or those of the copy that is written.  *)
LEMMA RowLines ==
  ASSUME PurchaseInv, Move, NEW o \in Orders, orders'[o] # NoRow
  PROVE  \/ o \in Rows /\ orders'[o].lines = orders[o].lines
         \/ \E c \in Calls : /\ call[c].pc = "draft" /\ call'[c].pc = "items"
                             /\ call'[c].order = o
                             /\ orders'[o].lines = call[c].copy.lines
         \/ \E c \in Calls : /\ call[c].pc = "reuse" /\ call[c].order = o
                             /\ orders'[o].lines = call[c].copy.lines
         \/ \E n \in Notices : /\ notice[n].pc = "save" /\ notice[n].order = o
                               /\ orders'[o].lines = notice[n].copy.lines
<1>t. /\ orders \in [Orders -> Row \cup {NoRow}] /\ call \in [Calls -> CallRecord]
      /\ notice \in [Notices -> NoticeRecord] /\ CallsHold /\ NoticesHold
  BY TypeParts DEF PurchaseInv, PurchaseShape, Shape
<1>r. orders[o] \in Row => o \in Rows
  BY NoRowAssumption DEF Rows
<1>l. ASSUME NEW r \in Row, Saves(o, r) PROVE orders'[o].lines = r.lines
  BY <1>l DEF Saves, Row
<1>1. CASE orders'[o] = orders[o]
  BY <1>1 DEF Rows
<1>2. CASE RowAges(o)
  BY <1>r, <1>2 DEF RowAges, Row
<1>3. CASE \E c \in Calls : RowGains(o, c)
  BY <1>r, <1>3 DEF RowGains, Row
<1>4. CASE \E c \in Calls : RowInserted(o, c)
  <2>1. PICK c \in Calls : RowInserted(o, c)
    BY <1>4
  <2>2. call[c].order = NoOrder /\ call'[c].order = o
    BY <2>1 DEF RowInserted, PurchaseInv, Creators
  <2>3. call'[c].pc = "items"
    BY <2>1, <2>2, NoOrderAssumption DEF Move, CallMove, RowInserted
  <2> QED
    BY <2>1, <2>3 DEF RowInserted
<1>5. CASE \E c \in Calls : RowReused(o, c)
  BY <1>t, <1>l, <1>5 DEF RowReused, CallsHold, CallOK
<1>6. CASE \E p \in Patches : RowAttached(o, p)
  BY <1>r, <1>6 DEF RowAttached, Row
<1>7. CASE \E n \in Notices : RowJudged(o, n)
  <2>1. PICK n \in Notices : RowJudged(o, n)
    BY <1>7
  <2> DEFINE w == [notice[n].copy EXCEPT !.status = Verdict(notice[n].kind)]
  <2>2. notice[n].copy \in Row /\ Verdict(notice[n].kind) \in Status
    BY <1>t, <2>1 DEF RowJudged, NoticesHold, NoticeOK, NoticeRecord, Kinds, Verdict, Status
  <2>3. w \in Row /\ w.lines = notice[n].copy.lines
    BY <2>2 DEF Row
  <2>4. orders'[o].lines = w.lines
    BY <1>l, <2>1, <2>3 DEF RowJudged
  <2> QED
    BY <2>1, <2>3, <2>4 DEF RowJudged
<1>8. ~\E e \in Edits : RowEdited(o, e)
  BY DEF RowEdited, PurchaseInv, Joined, NoEdits
<1> QED
  BY <1>1, <1>2, <1>3, <1>4, <1>5, <1>6, <1>7, <1>8 DEF Move, RowMove

(* The lines after a step: those before, and those of the order just drawn. *)
Extends(next, lines) ==
  /\ \A o \in Drawn : next[o] = lines[o]
  /\ \A c \in Calls : call[c].pc = "draft" /\ call'[c].pc = "items" =>
       next[call'[c].order] = call[c].copy.lines

LEMMA LinesExtend ==
  ASSUME PurchaseInv, Move, NEW lines \in [Orders -> SUBSET Products]
  PROVE  \E next \in [Orders -> SUBSET Products] : Extends(next, lines)
<1>1. CASE \E c \in Calls : call[c].pc = "draft" /\ call'[c].pc = "items"
  <2>1. PICK c \in Calls : call[c].pc = "draft" /\ call'[c].pc = "items"
    BY <1>1
  <2>2. /\ call'[c].order \in Orders /\ call'[c].order \notin Drawn
        /\ \A d \in Calls : d # c => call'[d] = call[d]
    BY <2>1 DEF Move, CallMove
  <2>3. call[c].copy.lines \in SUBSET Products
    BY <2>1 DEF PurchaseInv, PurchaseShape, Shape, CallsHold, CallOK, Row
  <2> DEFINE next == [lines EXCEPT ![call'[c].order] = call[c].copy.lines]
  <2>4. next \in [Orders -> SUBSET Products]
    BY <2>3
  <2>5. Drawn \subseteq Orders
    BY TypeParts DEF Drawn, PurchaseInv, PurchaseShape, Shape, CallRecord
  <2>6. \A o \in Drawn : next[o] = lines[o]
    BY <2>2, <2>5
  <2>7. next[call'[c].order] = call[c].copy.lines
    BY <2>2
  <2>8. \A d \in Calls : call[d].pc = "draft" /\ call'[d].pc = "items" => d = c
    BY <2>2
  <2> HIDE DEF next
  <2>9. Extends(next, lines)
    BY <2>6, <2>7, <2>8 DEF Extends
  <2> QED
    BY <2>4, <2>9
<1>2. CASE ~\E c \in Calls : call[c].pc = "draft" /\ call'[c].pc = "items"
  BY <1>2 DEF Extends
<1> QED
  BY <1>1, <1>2

LEMMA CallLines ==
  ASSUME PurchaseInv, [OrderNext]_orderVars, NEW lines, NEW next,
         LinesAre(lines), Extends(next, lines), NEW c \in Calls,
         call'[c].pc \in {"reuse", "kept", "items", "built", "replied"}
  PROVE  call'[c].copy.lines = next[call'[c].order]
<1>t. /\ orders \in [Orders -> Row \cup {NoRow}] /\ call \in [Calls -> CallRecord]
      /\ call[c] \in CallRecord /\ CallOK(call[c]) /\ CallsHold
  BY TypeParts DEF PurchaseInv, PurchaseShape, Shape, CallsHold
<1>d. /\ \A o \in Rows : orders[o].lines = next[o]
      /\ call[c].pc \in {"reuse", "kept", "items", "built", "replied"} =>
           call[c].order \in Drawn /\ call[c].copy.lines = next[call[c].order]
  <2>1. Rows \subseteq Drawn
    BY DEF PurchaseInv, Creators
  <2>2. call[c].pc \in {"reuse", "kept", "items", "built", "replied"} =>
          call[c].order \in Orders
    BY <1>t DEF CallOK, PurchaseInv, Joined, RepliesHold
  <2> QED
    BY <2>1, <2>2, NoOrderAssumption DEF Drawn, LinesAre, Extends
<1>1. CASE call'[c] = call[c]
  BY <1>d, <1>1
<1>2. CASE FindExisting(c)
  <2>1. PICK o \in PendingOf(call[c].cart) :
          call' = [call EXCEPT ![c].pc = "reuse", ![c].order = o, ![c].copy = orders[o]]
    BY <1>2 DEF FindExisting
  <2>2. call'[c].order = o /\ call'[c].copy = orders[o] /\ o \in Rows
    BY <1>t, <2>1 DEF CallRecord, PendingOf
  <2> QED
    BY <1>d, <2>2
<1>3. CASE SaveExisting(c)
  BY <1>t, <1>d, <1>3 DEF SaveExisting, CallRecord
<1>4. CASE ReplyExisting(c)
  <2>1. /\ call'[c].order = call[c].order /\ call[c].pc = "kept"
        /\ call'[c].copy = IF call[c].order \in Rows
                             THEN orders[call[c].order] ELSE call[c].copy
    BY <1>t, <1>4 DEF ReplyExisting, CallRecord
  <2> QED
    BY <1>d, <2>1
<1>5. CASE ReplyNew(c)
  <2>1. /\ call'[c].order = call[c].order /\ call[c].order \in Rows
        /\ call'[c].copy = orders[call[c].order]
    BY <1>t, <1>5 DEF ReplyNew, CallRecord
  <2> QED
    BY <1>d, <2>1
<1>6. CASE InsertOrder(c)
  <2>1. PICK o \in Orders : call' = [call EXCEPT ![c].pc = "items", ![c].order = o]
    BY <1>6 DEF InsertOrder
  <2>2. call'[c].copy = call[c].copy /\ call'[c].pc = "items" /\ call[c].pc = "draft"
    BY <1>t, <1>6, <2>1 DEF InsertOrder, CallRecord
  <2> QED
    BY <2>2 DEF Extends
<1>7. CASE SaveItem(c)
  <2>1. PICK ps, pc : call' = [call EXCEPT ![c].copy.items = ps, ![c].pc = pc]
    BY <1>7 DEF SaveItem
  <2>2. call[c].copy \in Row /\ call[c].pc = "items"
    BY <1>t, <1>7 DEF SaveItem, CallOK
  <2>3. call'[c].order = call[c].order /\ call'[c].copy.lines = call[c].copy.lines
    BY <1>t, <2>1, <2>2 DEF CallRecord, Row
  <2> QED
    BY <1>d, <2>2, <2>3
<1>8. CASE FindNone(c) \/ ReadCart(c) \/ FailCall(c) \/ \E k \in Carts : SendCall(c, k)
  BY <1>t, <1>8, CallGoes
<1> QED
  BY <1>1, <1>2, <1>3, <1>4, <1>5, <1>6, <1>7, <1>8, CallsApart
     DEF CallStep, PurchaseInv, PurchaseShape

LEMMA DrawnStays == ASSUME Creators, Move PROVE Drawn \subseteq Drawn'
<1> SUFFICES ASSUME NEW c \in Calls, call[c].order # NoOrder PROVE call[c].order \in Drawn'
  BY DEF Drawn
<1> QED
  BY OrderStays DEF Drawn

LEMMA LinesStep ==
  ASSUME PurchaseInv, Move, Deal, [OrderNext]_orderVars,
         NEW lines \in [Orders -> SUBSET Products], LinesAre(lines),
         NEW next \in [Orders -> SUBSET Products], Extends(next, lines)
  PROVE  LinesAre(next)'
<1>c. \A c \in Calls : call'[c].pc \in {"reuse", "kept", "items", "built", "replied"} =>
        call'[c].copy.lines = next[call'[c].order]
  BY CallLines
<1>d. /\ Rows \subseteq Drawn /\ Drawn \subseteq Drawn'
      /\ \A n \in Notices : notice[n].pc = "save" => notice[n].order \in Drawn
      /\ \A c \in Calls : call[c].order \in Orders => call[c].order \in Drawn
  BY DrawnStays, NoOrderAssumption DEF PurchaseInv, Creators, Drawn
<1>1. ASSUME NEW o \in Orders, orders'[o] # NoRow PROVE orders'[o].lines = next[o]
  <2>1. CASE o \in Rows /\ orders'[o].lines = orders[o].lines
    BY <1>d, <2>1 DEF LinesAre, Extends
  <2>2. CASE \E c \in Calls : /\ call[c].pc = "draft" /\ call'[c].pc = "items"
                              /\ call'[c].order = o
                              /\ orders'[o].lines = call[c].copy.lines
    BY <2>2 DEF Extends
  <2>3. CASE \E c \in Calls : /\ call[c].pc = "reuse" /\ call[c].order = o
                              /\ orders'[o].lines = call[c].copy.lines
    BY <1>d, <2>3 DEF LinesAre, Extends
  <2>4. CASE \E n \in Notices : /\ notice[n].pc = "save" /\ notice[n].order = o
                                /\ orders'[o].lines = notice[n].copy.lines
    BY <1>d, <2>4 DEF LinesAre, Extends
  <2> QED
    BY <1>1, <2>1, <2>2, <2>3, <2>4, RowLines
<1>2. ASSUME NEW n \in Notices, notice'[n].pc = "save"
      PROVE  notice'[n].copy.lines = next[notice'[n].order]
  <2>1. \/ notice'[n] = notice[n]
        \/ notice'[n].order \in Rows /\ notice'[n].copy = orders[notice'[n].order]
    BY <1>2 DEF Move, NoticeMove
  <2> QED
    BY <1>2, <1>d, <2>1 DEF LinesAre, Extends
<1>x. ASSUME NEW x \in Checkouts,
             checkout[x].pc \in {"retrieve", "mint", "minted", "paying"}
      PROVE  checkout[x].order \in Drawn
  <2>1. checkout[x].try \in 1 .. MaxTries /\ checkout[x].order \in Orders
    BY <1>x DEF PurchaseInv, PurchaseShape, CheckoutsHold, CheckoutOK
  <2>2. CallOf(x) \in Calls
    BY <2>1, CallsOfCheckouts DEF CallOf
  <2> QED
    BY <1>x, <1>d, <2>1, <2>2 DEF PurchaseInv, Joined, Answered, AnsweredFor
<1>3. ASSUME NEW x \in Checkouts, checkout'[x].pc \in {"retrieve", "mint", "minted"}
      PROVE  checkout'[x].lines = next[checkout'[x].order]
  <2>1. CASE Took(x)
    <3>1. checkout[x].try \in 1 .. MaxTries
      BY <2>1 DEF Took, PurchaseInv, PurchaseShape, CheckoutsHold, CheckoutOK
    <3>2. CallOf(x) \in Calls
      BY <3>1, CallsOfCheckouts DEF CallOf
    <3>3. call[CallOf(x)].order \in Drawn
      BY <1>d, <2>1, <3>2 DEF Took, PurchaseInv, Joined, RepliesHold
    <3> QED
      BY <2>1, <3>2, <3>3 DEF Took, LinesAre, Extends
  <2>2. CASE ~Took(x)
    <3>1. /\ checkout[x].pc \in {"retrieve", "mint", "minted"}
          /\ checkout'[x].order = checkout[x].order /\ checkout'[x].lines = checkout[x].lines
      BY <1>3, <2>2 DEF Deal, CheckoutMove, Minting, Sending, SameDeal
    <3> QED
      BY <1>x, <3>1 DEF LinesAre, Extends
  <2> QED
    BY <2>1, <2>2
<1>4. ASSUME NEW i \in Intents, stripe'[i].state # "unborn"
      PROVE  stripe'[i].order \in Drawn' /\ stripe'[i].lines = next[stripe'[i].order]
  <2>1. CASE \E x \in Checkouts : Minting(x, i)
    <3>1. PICK x \in Checkouts : Minting(x, i)
      BY <2>1
    <3>2. /\ checkout[x].order \in Drawn /\ stripe'[i].order = checkout[x].order
          /\ stripe'[i].lines = checkout[x].lines
          /\ checkout[x].pc \in {"mint", "minted"}
      BY <1>x, <3>1 DEF Minting
    <3> QED
      BY <1>d, <3>2 DEF LinesAre, Extends
  <2>2. CASE ~\E x \in Checkouts : Minting(x, i)
    <3>1. /\ stripe[i].state # "unborn" /\ stripe'[i].order = stripe[i].order
          /\ stripe'[i].lines = stripe[i].lines
      BY <1>4, <2>2 DEF Deal, StripeMove
    <3> QED
      BY <1>d, <3>1 DEF LinesAre, Extends
  <2> QED
    BY <2>1, <2>2
<1> QED
  BY <1>c, <1>1, <1>2, <1>3, <1>4 DEF LinesAre, Rows

LEMMA LinesKnownStep ==
  ASSUME PurchaseInv, LinesKnown, [PurchaseNext]_purchaseVars
  PROVE  LinesKnown'
<1>1. PICK lines \in [Orders -> SUBSET Products] : LinesAre(lines)
  BY DEF LinesKnown
<1>2. Move /\ Deal /\ [OrderNext]_orderVars
  BY PurchaseStep
<1>3. PICK next \in [Orders -> SUBSET Products] : Extends(next, lines)
  BY <1>2, LinesExtend
<1>4. LinesAre(next)'
  BY <1>1, <1>2, <1>3, LinesStep
<1> QED
  BY <1>4 DEF LinesKnown

LEMMA LinesKnownInit == PurchaseInit => LinesKnown
<1> SUFFICES ASSUME PurchaseInit PROVE LinesKnown
  OBVIOUS
<1>1. LinesAre([o \in Orders |-> {}])
  BY DEF PurchaseInit, OrderInit, LinesAre, Rows
<1> QED
  BY <1>1 DEF LinesKnown

(* The status of an order tells what happened at Stripe: paid for what it   *)
(* lists, declined, or refunded, on an intent minted for that very order.   *)
(* Duplicates, late events, stale copies, second mints and lost calls never *)
(* put another order's fact into a row.                                     *)
THEOREM StatusesAreTrue == PurchaseSpec => []StatusIsTrue
<1>1. PurchaseInv /\ LinesKnown => StatusIsTrue
  <2> SUFFICES ASSUME PurchaseInv, LinesKnown, NEW o \in Rows
               PROVE  LET s == orders[o].status IN
                        /\ s = "paid" => IntentOf(o, LAMBDA t : /\ t.state = "succeeded"
                                                                /\ t.lines = orders[o].lines)
                        /\ s = "cancelled" => IntentOf(o, LAMBDA t : t.declined)
                        /\ s = "refunded"  => IntentOf(o, LAMBDA t : t.refunded)
    BY DEF StatusIsTrue
  <2> DEFINE s == orders[o].status
  <2>1. PICK lines \in [Orders -> SUBSET Products] : LinesAre(lines)
    BY DEF LinesKnown
  <2>2. s # "pending" => Judged(o, s)
    BY DEF PurchaseInv, Causes, StatusHasCause, EditedTo, Joined, NoEdits
  <2>3. ASSUME Judged(o, s)
        PROVE  \E i \in Intents, kind \in Kinds :
                 /\ Verdict(kind) = s /\ FactOf(kind, stripe[i])
                 /\ stripe[i].order = o /\ stripe[i].lines = orders[o].lines
    <3>1. PICK n \in Notices, p \in Patches :
            /\ notice[n].pc \in {"clear", "done"}
            /\ notice[n].order = o /\ Verdict(notice[n].kind) = s
            /\ patch[p].order = o /\ patch[p].intent = notice[n].intent
      BY <2>3 DEF Judged
    <3>2. notice[n].intent \in Intents /\ notice[n].kind \in Kinds
      BY <3>1, TypeParts
         DEF PurchaseInv, PurchaseShape, Shape, NoticesHold, NoticeOK, NoticeRecord
    <3>3. FactOf(notice[n].kind, stripe[notice[n].intent])
      BY <3>1 DEF PurchaseInv, Joined, EventsHappened
    <3>4. patch[p].pc # "unsent"
      BY <3>1, <3>2, NoIntentAssumption DEF PurchaseInv, Origins
    <3>5. stripe[patch[p].intent].state # "unborn" /\ stripe[patch[p].intent].order = o
      BY <3>1, <3>4 DEF PurchaseInv, Joined, PatchesMinted
    <3>6. stripe[notice[n].intent].lines = orders[o].lines
      BY <2>1, <3>1, <3>2, <3>5 DEF LinesAre
    <3> QED
      BY <3>1, <3>2, <3>3, <3>5, <3>6
  <2>4. s = "paid" => \E i \in Intents : stripe[i].order = o /\ stripe[i].state = "succeeded"
                                           /\ stripe[i].lines = orders[o].lines
    BY <2>2, <2>3 DEF Verdict, FactOf, Kinds
  <2>5. s = "cancelled" => \E i \in Intents : stripe[i].order = o /\ stripe[i].declined
    BY <2>2, <2>3 DEF Verdict, FactOf, Kinds
  <2>6. s = "refunded" => \E i \in Intents : stripe[i].order = o /\ stripe[i].refunded
    BY <2>2, <2>3 DEF Verdict, FactOf, Kinds
  <2> QED
    BY <2>4, <2>5, <2>6 DEF IntentOf
<1>2. PurchaseInit => PurchaseInv /\ LinesKnown
  BY PurchaseInits, LinesKnownInit DEF PurchaseInv
<1>3. PurchaseInv /\ LinesKnown /\ [PurchaseNext]_purchaseVars => (PurchaseInv /\ LinesKnown)'
  BY PurchaseStep, LinesKnownStep
<1> QED
  BY <1>1, <1>2, <1>3, PTL DEF PurchaseSpec

-----------------------------------------------------------------------------
(* What is delivered.  An order two calls of CREATE_ORDER worked on may be  *)
(* answered for, charged and confirmed while its items are being inserted;  *)
(* an order nobody shared is complete from its first answer on.             *)

Unshared(o) == \A c, d \in Calls : call[c].order = o /\ call[d].order = o => c = d

Complete(r) == r.items = r.lines

(* The row of an unshared order is complete once its call is answered, and  *)
(* so are the copies the notices of its payment took.                       *)
UnsharedComplete ==
  /\ \A c \in Calls : call[c].pc \in {"reuse", "kept"} => ~Unshared(call[c].order)
  /\ \A c \in Calls : call[c].pc = "replied" /\ call[c].order \in Rows
       /\ Unshared(call[c].order) => Complete(orders[call[c].order])
  /\ \A n \in Notices : notice[n].pc = "save" /\ Unshared(notice[n].order) =>
       Complete(notice[n].copy)

(* The answer payment-service works on is about the order of the intent,    *)
(* and lists what it was created for.                                       *)
AnswerLines(a, i, lines) ==
  /\ \E p \in Patches : patch[p].order = a.order /\ patch[p].intent = i
  /\ Unshared(a.order) => a.items = lines[a.order]

HookLinesAre(lines) ==
  \A d \in Deliveries : hook[d].answer \in Hooks!Answers =>
    AnswerLines(hook[d].answer, EventOf[d].intent, lines)

(* Some key exists for the order when it has a license product.             *)
Covers(keys, a) == a.items \cap LicenseProducts # {} => \E l \in keys : l[1] = a.order

(* Licenses come before the verdict.                                        *)
LicensedFirst ==
  /\ \A d \in Deliveries :
       hook[d].pc \in {"issued", "invoiced"} => Covers(licenses, hook[d].answer)
  /\ \A d \in Deliveries : notice[d].pc # "unsent" =>
       /\ hook[d].pc \in {"emitted", "done", "dead"} /\ EventOf[d].type # "other"
       /\ notice[d].kind = Hooks!KindOf(d) /\ notice[d].intent = EventOf[d].intent
       /\ EventOf[d].type = "succeeded" =>
            hook[d].answer \in Hooks!Answers /\ Covers(licenses, hook[d].answer)

Delivering == UnsharedComplete /\ LicensedFirst /\
  \E lines \in [Orders -> SUBSET Products] : LinesAre(lines) /\ HookLinesAre(lines)

(* Two calls of one order were two before the step if they are after it.    *)
UnsharedNext(o) == \A c, d \in Calls : call'[c].order = o /\ call'[d].order = o => c = d

LEMMA UnsharedBefore ==
  ASSUME Creators, Move, NEW o, o # NoOrder, UnsharedNext(o)
  PROVE  Unshared(o)
BY OrderStays DEF Unshared, UnsharedNext

(* An order with an intent was answered for.                                *)
LEMMA IntentAnswered ==
  ASSUME PurchaseInv, NEW p \in Patches, patch[p].intent \in Intents
  PROVE  \E c \in Calls : call[c].pc = "replied" /\ call[c].order = patch[p].order
<1>1. patch[p].pc # "unsent"
  BY NoIntentAssumption DEF PurchaseInv, Origins
<1>2. p \in Checkouts /\ checkout[p].pc = "paying" /\ checkout[p].order = patch[p].order
  BY <1>1, PatchesAssumption DEF PurchaseInv, Joined, PatchesMinted
<1>3. CallOf(p) \in Calls
  BY <1>2, CallsOfCheckouts DEF CallOf, PurchaseInv, PurchaseShape, CheckoutsHold, CheckoutOK
<1>4. call[CallOf(p)].pc = "replied" /\ call[CallOf(p)].order = patch[p].order
  BY <1>2 DEF PurchaseInv, Joined, Answered, AnsweredFor
<1> QED
  BY <1>3, <1>4

LEMMA RowComplete ==
  ASSUME PurchaseInv, UnsharedComplete, NEW o \in Rows, Unshared(o),
         orders[o].intent # NoIntent
  PROVE  Complete(orders[o])
<1>1. PICK p \in Patches : patch[p].order = o /\ patch[p].intent = orders[o].intent
  BY DEF PurchaseInv, Origins, MintedFor
<1>2. patch[p].intent \in Intents
  BY <1>1, TypeParts DEF PurchaseInv, PurchaseShape, Shape, PatchRecord
<1>3. PICK c \in Calls : call[c].pc = "replied" /\ call[c].order = o
  BY <1>1, <1>2, IntentAnswered
<1> QED
  BY <1>3 DEF UnsharedComplete

(* The row of an answered order nobody shared stays complete.               *)
LEMMA RowStaysComplete ==
  ASSUME PurchaseInv, UnsharedComplete, Move, NEW c \in Calls, call[c].pc = "replied",
         Unshared(call[c].order), orders'[call[c].order] # NoRow
  PROVE  Complete(orders'[call[c].order])
<1> DEFINE o == call[c].order
<1>t. /\ orders \in [Orders -> Row \cup {NoRow}] /\ notice \in [Notices -> NoticeRecord]
      /\ NoticesHold /\ o \in Orders
  BY TypeParts DEF PurchaseInv, PurchaseShape, Shape, Joined, RepliesHold
<1>u. \A d \in Calls : call[d].order = o => d = c
  BY DEF Unshared
<1>k. o \in Rows => Complete(orders[o])
  BY DEF UnsharedComplete
<1>r. orders[o] \in Row => o \in Rows
  BY <1>t, NoRowAssumption DEF Rows
<1>1. CASE orders'[o] = orders[o]
  BY <1>t, <1>k, <1>1 DEF Rows
<1>2. CASE RowAges(o)
  BY <1>k, <1>r, <1>2 DEF RowAges, Complete, Row
<1>3. ~\E d \in Calls : RowGains(o, d) \/ RowInserted(o, d) \/ RowReused(o, d)
  <2>1. ASSUME NEW d \in Calls, RowGains(o, d) PROVE FALSE
    BY <1>u, <2>1 DEF RowGains
  <2>2. ASSUME NEW d \in Calls, RowInserted(o, d) PROVE FALSE
    BY <1>t, <2>2, NoOrderAssumption DEF RowInserted, Drawn
  <2>3. ASSUME NEW d \in Calls, RowReused(o, d) PROVE FALSE
    BY <1>u, <2>3 DEF RowReused
  <2> QED
    BY <2>1, <2>2, <2>3
<1>4. CASE \E p \in Patches : RowAttached(o, p)
  BY <1>k, <1>r, <1>4 DEF RowAttached, Complete, Row
<1>5. CASE \E n \in Notices : RowJudged(o, n)
  <2>1. PICK n \in Notices : RowJudged(o, n)
    BY <1>5
  <2> DEFINE w == [notice[n].copy EXCEPT !.status = Verdict(notice[n].kind)]
  <2>2. notice[n].copy \in Row /\ Verdict(notice[n].kind) \in Status
    BY <1>t, <2>1 DEF RowJudged, NoticesHold, NoticeOK, NoticeRecord, Kinds, Verdict, Status
  <2>3. w \in Row /\ w.lines = notice[n].copy.lines /\ w.items = notice[n].copy.items
    BY <2>2 DEF Row
  <2>4. Saves(o, w) /\ Complete(notice[n].copy)
    BY <2>1 DEF RowJudged, UnsharedComplete
  <2> HIDE DEF w
  <2> QED
    BY <2>3, <2>4 DEF Saves, Complete, Row
<1>6. ~\E e \in Edits : RowEdited(o, e)
  BY DEF RowEdited, PurchaseInv, Joined, NoEdits
<1> QED
  BY <1>t, <1>1, <1>2, <1>3, <1>4, <1>5, <1>6 DEF Move, RowMove

LEMMA UnsharedCompleteStep ==
  ASSUME PurchaseInv, UnsharedComplete, LinesKnown, Move, [OrderNext]_orderVars
  PROVE  UnsharedComplete'
<1>b. \A o : o # NoOrder /\ UnsharedNext(o) => Unshared(o)
  BY UnsharedBefore DEF PurchaseInv
<1>t. /\ orders \in [Orders -> Row \cup {NoRow}] /\ call \in [Calls -> CallRecord]
      /\ CallsHold /\ notice \in [Notices -> NoticeRecord] /\ NoticesHold
      /\ RepliesHold /\ Creators
  BY TypeParts DEF PurchaseInv, PurchaseShape, Shape, Joined
<1>1. ASSUME NEW c \in Calls, call'[c].pc \in {"reuse", "kept"}
      PROVE  ~UnsharedNext(call'[c].order)
  <2>1. CASE call'[c] = call[c]
    <3>1. call[c].order # NoOrder
      BY <1>1, <1>t, <2>1, NoOrderAssumption DEF CallsHold, CallOK
    <3> QED
      BY <1>1, <1>b, <2>1, <3>1 DEF UnsharedComplete
  <2>2. CASE call[c].pc = "sent" /\ call'[c].order \in Rows
    <3>1. PICK d \in Calls : call[d].order = call'[c].order /\ call[d].order # NoOrder
      BY <1>t, <2>2 DEF Creators, Drawn
    <3>2. d # c /\ call'[d].order = call[d].order
      BY <1>t, <2>2, <3>1, OrderStays DEF Creators, PurchaseInv
    <3> QED
      BY <3>1, <3>2 DEF UnsharedNext
  <2>3. CASE SaveExisting(c)
    <3>1. call[c].pc = "reuse" /\ call'[c].order = call[c].order
      BY <1>t, <2>3 DEF SaveExisting, CallRecord
    <3>2. call[c].order # NoOrder
      BY <1>t, <3>1, NoOrderAssumption DEF CallsHold, CallOK
    <3> QED
      BY <1>b, <3>1, <3>2 DEF UnsharedComplete
  <2>4. CASE FindNone(c) \/ ReplyExisting(c) \/ ReadCart(c) \/ InsertOrder(c)
               \/ SaveItem(c) \/ ReplyNew(c) \/ FailCall(c) \/ \E k \in Carts : SendCall(c, k)
    BY <1>1, <1>t, <2>4, CallGoes
  <2>5. CASE FindExisting(c)
    <3>1. call[c].pc = "sent" /\ call'[c].order \in Rows
      BY <1>t, <2>5 DEF FindExisting, CallRecord, PendingOf
    <3> QED
      BY <2>2, <3>1
  <2> QED
    BY <2>1, <2>3, <2>4, <2>5, CallsApart DEF CallStep, PurchaseInv, PurchaseShape
<1>2. ASSUME NEW c \in Calls, call'[c].pc = "replied", orders'[call'[c].order] # NoRow,
             call'[c].order \in Orders, UnsharedNext(call'[c].order)
      PROVE  Complete(orders'[call'[c].order])
  <2>u. Unshared(call'[c].order)
    BY <1>2, <1>b, NoOrderAssumption
  <2>1. CASE call[c].pc = "replied"
    <3>1. call'[c] = call[c]
      BY <2>1, RepliedStays DEF PurchaseInv, PurchaseShape
    <3> QED
      BY <1>2, <2>1, <2>u, <3>1, RowStaysComplete
  <2>2. CASE ReplyNew(c)
    <3>1. /\ call'[c].order = call[c].order /\ call[c].pc = "built"
          /\ call[c].order \in Rows /\ orders' = orders
      BY <1>t, <2>2 DEF ReplyNew, CallRecord
    <3>2. /\ orders[call[c].order].items = call[c].copy.items
          /\ call[c].copy.items = call[c].copy.lines
      BY <1>t, <3>1 DEF Creators, Creating
    <3>3. call[c].copy.lines = orders[call[c].order].lines
      BY <3>1 DEF LinesKnown, LinesAre
    <3> QED
      BY <3>1, <3>2, <3>3 DEF Complete
  <2>3. CASE ReplyExisting(c)
    <3>1. call'[c].order = call[c].order /\ call[c].pc = "kept"
      BY <1>t, <2>3 DEF ReplyExisting, CallRecord
    <3> QED
      BY <2>u, <3>1 DEF UnsharedComplete
  <2>4. CASE FindExisting(c) \/ FindNone(c) \/ SaveExisting(c) \/ ReadCart(c)
               \/ InsertOrder(c) \/ SaveItem(c) \/ FailCall(c) \/ \E k \in Carts : SendCall(c, k)
    BY <1>2, <1>t, <2>4, CallGoes
  <2> QED
    BY <1>2, <2>1, <2>2, <2>3, <2>4, CallsApart DEF CallStep, PurchaseInv, PurchaseShape
<1>3. ASSUME NEW n \in Notices, notice'[n].pc = "save", UnsharedNext(notice'[n].order)
      PROVE  Complete(notice'[n].copy)
  <2>1. CASE notice'[n] = notice[n]
    <3>1. notice[n].order # NoOrder
      BY <1>3, <1>t, <2>1, NoOrderAssumption DEF NoticesHold, NoticeOK
    <3> QED
      BY <1>3, <1>b, <2>1, <3>1 DEF UnsharedComplete
  <2>2. CASE notice'[n] # notice[n]
    <3>1. /\ notice[n].pc = "sent" /\ notice'[n].order \in Rows
          /\ notice'[n].copy = orders[notice'[n].order]
          /\ notice'[n].copy.intent = notice[n].intent
      BY <1>3, <2>2 DEF Move, NoticeMove
    <3>2. notice[n].intent # NoIntent /\ notice'[n].order # NoOrder
      BY <1>t, <3>1, NoIntentAssumption, NoOrderAssumption DEF NoticesHold, NoticeOK, Rows
    <3> QED
      BY <1>3, <1>b, <3>1, <3>2, RowComplete
  <2> QED
    BY <2>1, <2>2
<1> QED
  BY <1>1, <1>2, <1>3 DEF UnsharedComplete, Unshared, UnsharedNext, Rows

(* What a step may do to the answer and the progress of one activation.     *)
Fetching(d) ==
  /\ hook[d].pc = "claimed" /\ hook'[d].pc = "fetched"
  /\ hook'[d].answer \in Hooks!Answers
  /\ \E o \in WithIntent(EventOf[d].intent) :
       hook'[d].answer.order = o /\ hook'[d].answer.items = orders[o].items

HookTurn(d) ==
  \/ Fetching(d)
  \/ /\ hook'[d].answer = hook[d].answer
     /\ hook'[d].pc \in {"issued", "invoiced"} =>
          hook[d].pc \in {"issued", "invoiced"} \/ Covers(licenses', hook'[d].answer)
     /\ hook[d].pc \in {"emitted", "done", "dead"} => hook'[d].pc \in {"emitted", "done", "dead"}

LEMMA LocalTurn ==
  ASSUME PurchaseShape, NEW d \in Deliveries, Hooks!LocalHookStep(d)
  PROVE  /\ licenses \subseteq licenses' /\ HookTurn(d)
         /\ \A e \in Deliveries : e # d => hook'[e] = hook[e]
<1>1. hook \in [Deliveries -> HookRecord]
  BY DEF PurchaseShape, HooksHold
<1>2. \A e \in Deliveries : e # d => hook'[e] = hook[e]
  BY <1>1 DEF Hooks!LocalHookStep, Hooks!TryClaim, Hooks!CheckLicenses,
       Hooks!GenerateLicenses, Hooks!ResolveInvoice, Hooks!IgnoreEvent,
       Hooks!ReleaseClaim, Hooks!Throw, Hooks!Die
<1>3. CASE Hooks!GenerateLicenses(d)
  <2>1. /\ hook'[d].answer = hook[d].answer /\ hook[d].pc = "generate"
        /\ licenses' = licenses
             \cup {<<hook[d].answer.order, p, d>> : p \in Hooks!LicenseItems(d)}
    BY <1>1, <1>3 DEF Hooks!GenerateLicenses, HookRecord
  <2>2. ASSUME NEW p \in Hooks!LicenseItems(d)
        PROVE  \E l \in licenses' : l[1] = hook[d].answer.order
    <3>1. <<hook[d].answer.order, p, d>> \in licenses'
      BY <2>1
    <3> QED
      BY <3>1
  <2>3. Covers(licenses', hook[d].answer)
    BY <2>2 DEF Covers, Hooks!LicenseItems
  <2> QED
    BY <1>2, <2>1, <2>3 DEF HookTurn
<1>4. CASE Hooks!CheckLicenses(d)
  <2>1. /\ hook'[d].answer = hook[d].answer /\ hook[d].pc = "fetched" /\ licenses' = licenses
        /\ hook'[d].pc = IF Hooks!LicenseItems(d) = {}
                              \/ Hooks!LicensesOf(hook[d].answer.order) # {}
                           THEN "issued" ELSE "generate"
    BY <1>1, <1>4 DEF Hooks!CheckLicenses, HookRecord
  <2>2. hook'[d].pc = "issued" => Covers(licenses', hook'[d].answer)
    BY <2>1 DEF Covers, Hooks!LicenseItems, Hooks!LicensesOf
  <2> QED
    BY <1>2, <2>1, <2>2 DEF HookTurn
<1>5. ASSUME Hooks!TryClaim(d) \/ Hooks!ReleaseClaim(d)
      PROVE  licenses' = licenses /\ HookTurn(d)
  BY <1>1, <1>5 DEF Hooks!TryClaim, Hooks!ReleaseClaim, HookRecord, HookTurn
<1>6. ASSUME Hooks!ResolveInvoice(d) \/ Hooks!IgnoreEvent(d)
      PROVE  licenses' = licenses /\ HookTurn(d)
  BY <1>1, <1>6 DEF Hooks!ResolveInvoice, Hooks!IgnoreEvent, HookRecord, HookTurn
<1>7. ASSUME Hooks!Throw(d) \/ Hooks!Die(d)
      PROVE  licenses' = licenses /\ HookTurn(d)
  BY <1>1, <1>7 DEF Hooks!Throw, Hooks!Die, Hooks!Processing, HookRecord, HookTurn
<1> QED
  BY <1>2, <1>3, <1>4, <1>5, <1>6, <1>7 DEF Hooks!LocalHookStep

LEMMA HookTurns ==
  ASSUME PurchaseShape, [PurchaseNext]_purchaseVars
  PROVE  licenses \subseteq licenses' /\ \A d \in Deliveries : HookTurn(d)
<1>h. hook \in [Deliveries -> HookRecord]
  BY DEF PurchaseShape, HooksHold
<1>1. ASSUME UNCHANGED hookVars
      PROVE  licenses \subseteq licenses' /\ \A d \in Deliveries : HookTurn(d)
  BY <1>1 DEF hookVars, HookTurn
<1>2. CASE ProcessEvent
  <2>1. PICK d \in Deliveries : Deliver(d) \/ HookStep(d)
    BY <1>2 DEF ProcessEvent
  <2>2. CASE Deliver(d)
    BY <1>h, <2>2 DEF Deliver, Hooks!SendHook, HookRecord, HookTurn
  <2>3. CASE Hooks!LocalHookStep(d)
    BY <2>3, LocalTurn DEF HookTurn
  <2>4. CASE EmitVerdict(d)
    BY <1>h, <2>4 DEF EmitVerdict, Hooks!EmitVerdict, HookRecord, HookTurn
  <2>5. CASE AskOrderService(d)
    <3>1. PICK a \in AnswersTo(d) : Hooks!FetchOrder(d, a) \/ Hooks!Notify(d, a)
      BY <2>5 DEF AskOrderService
    <3>2. licenses' = licenses /\ \A e \in Deliveries : e # d => hook'[e] = hook[e]
      BY <1>h, <3>1 DEF Hooks!FetchOrder, Hooks!Notify
    <3>3. CASE Hooks!Notify(d, a)
      <4>1. hook'[d].answer = hook[d].answer /\ hook'[d].pc = "done"
        BY <1>h, <3>3 DEF Hooks!Notify, HookRecord
      <4> QED
        BY <3>2, <4>1 DEF HookTurn
    <3>4. CASE Hooks!FetchOrder(d, a) /\ a = NoAnswer
      <4>1. hook'[d].answer = hook[d].answer /\ hook'[d].pc = "releasing" /\ hook[d].pc = "claimed"
        BY <1>h, <3>4 DEF Hooks!FetchOrder, HookRecord
      <4> QED
        BY <3>2, <4>1 DEF HookTurn
    <3>5. CASE Hooks!FetchOrder(d, a) /\ a # NoAnswer
      <4>1. hook'[d].answer = a /\ hook'[d].pc = "fetched" /\ hook[d].pc = "claimed"
        BY <1>h, <3>5 DEF Hooks!FetchOrder, HookRecord
      <4>2. Fetching(d)
        BY <3>5, <4>1, AnswerType DEF Fetching
      <4> QED
        BY <3>2, <4>2 DEF HookTurn
    <3> QED
      BY <3>1, <3>3, <3>4, <3>5
  <2> QED
    BY <2>1, <2>2, <2>3, <2>4, <2>5 DEF HookStep
<1> QED
  BY <1>1, <1>2 DEF PurchaseNext, Shop, Pay, KeepOrders, purchaseVars

LEMMA LicensedFirstStep ==
  ASSUME PurchaseInv, LicensedFirst, Deal,
         licenses \subseteq licenses', \A d \in Deliveries : HookTurn(d)
  PROVE  LicensedFirst'
<1>c. \A a : Covers(licenses, a) => Covers(licenses', a)
  BY DEF Covers
<1>1. ASSUME NEW d \in Deliveries, hook'[d].pc \in {"issued", "invoiced"}
      PROVE  Covers(licenses', hook'[d].answer)
  BY <1>1, <1>c DEF HookTurn, Fetching, LicensedFirst
<1>2. ASSUME NEW d \in Deliveries, notice'[d].pc # "unsent"
      PROVE  /\ hook'[d].pc \in {"emitted", "done", "dead"} /\ EventOf[d].type # "other"
             /\ notice'[d].kind = Hooks!KindOf(d) /\ notice'[d].intent = EventOf[d].intent
             /\ EventOf[d].type = "succeeded" =>
                  hook'[d].answer \in Hooks!Answers /\ Covers(licenses', hook'[d].answer)
  <2>1. CASE Forwarding(d)
    <3>1. EventOf[d].type = "succeeded" =>
            hook[d].answer \in Hooks!Answers /\ Covers(licenses, hook[d].answer)
      BY <2>1 DEF Forwarding, LicensedFirst, PurchaseInv, PurchaseShape, HooksHold, HookOK
    <3> QED
      BY <1>c, <2>1, <3>1 DEF Forwarding
  <2>2. CASE ~Forwarding(d)
    <3>1. /\ notice'[d].kind = notice[d].kind /\ notice'[d].intent = notice[d].intent
          /\ notice[d].pc # "unsent"
      BY <1>2, <2>2, NoticesAssumption DEF Deal, NoticeDeal
    <3>2. hook'[d].answer = hook[d].answer /\ hook'[d].pc \in {"emitted", "done", "dead"}
      BY <3>1 DEF LicensedFirst, HookTurn, Fetching
    <3> QED
      BY <1>c, <3>1, <3>2 DEF LicensedFirst
  <2> QED
    BY <2>1, <2>2
<1>k. \A d \in Deliveries : Hooks!KindOf(d)' = Hooks!KindOf(d)
  BY DEF Hooks!KindOf
<1> QED
  BY <1>1, <1>2, <1>k DEF LicensedFirst, Covers

LEMMA HookLinesStep ==
  ASSUME PurchaseInv, UnsharedComplete, Move, Deal, \A d \in Deliveries : HookTurn(d),
         NEW lines, NEW next, LinesAre(lines), HookLinesAre(lines), Extends(next, lines)
  PROVE  HookLinesAre(next)'
<1>i. \A d \in Deliveries : EventOf[d].intent \in Intents /\ EventOf[d].intent # NoIntent
  BY EventOfAssumption, IntentsAssumption, NoIntentAssumption
<1>p. ASSUME NEW p \in Patches, patch[p].intent \in Intents
      PROVE  /\ patch'[p].order = patch[p].order /\ patch'[p].intent = patch[p].intent
             /\ patch[p].order \in Drawn /\ patch[p].order # NoOrder
  <2>1. patch[p].pc # "unsent"
    BY <1>p, NoIntentAssumption DEF PurchaseInv, Origins
  <2>2. patch[p].order \in Orders
    BY <2>1 DEF PurchaseInv, PurchaseShape, Shape, PatchesHold
  <2> QED
    BY <1>p, <2>1, <2>2, IntentAnswered, NoOrderAssumption DEF Deal, PatchDeal, Sending, Drawn
<1> SUFFICES ASSUME NEW d \in Deliveries, hook'[d].answer \in Hooks!Answers
             PROVE  /\ \E p \in Patches : /\ patch'[p].order = hook'[d].answer.order
                                          /\ patch'[p].intent = EventOf[d].intent
                    /\ UnsharedNext(hook'[d].answer.order) =>
                         hook'[d].answer.items = next[hook'[d].answer.order]
  BY DEF HookLinesAre, AnswerLines, Unshared, UnsharedNext, Hooks!Answers
<1> DEFINE a == hook'[d].answer
<1>b. a.order # NoOrder /\ UnsharedNext(a.order) => Unshared(a.order)
  BY UnsharedBefore DEF PurchaseInv
<1>1. CASE hook'[d].answer = hook[d].answer
  <2>1. PICK p \in Patches : patch[p].order = a.order /\ patch[p].intent = EventOf[d].intent
    BY <1>1 DEF HookLinesAre, AnswerLines
  <2>2. Unshared(a.order) => a.items = lines[a.order]
    BY <1>1 DEF HookLinesAre, AnswerLines
  <2> QED
    BY <1>i, <1>p, <1>b, <2>1, <2>2 DEF Extends
<1>2. CASE Fetching(d)
  <2>1. PICK o \in WithIntent(EventOf[d].intent) : a.order = o /\ a.items = orders[o].items
    BY <1>2 DEF Fetching
  <2>2. o \in Rows /\ orders[o].intent = EventOf[d].intent
    BY <2>1 DEF WithIntent
  <2>3. PICK p \in Patches : patch[p].order = o /\ patch[p].intent = EventOf[d].intent
    BY <1>i, <2>2 DEF PurchaseInv, Origins, MintedFor
  <2>4. Unshared(o) => orders[o].items = orders[o].lines
    BY <1>i, <2>2, RowComplete DEF Complete
  <2>5. orders[o].lines = next[o]
    BY <1>i, <1>p, <2>2, <2>3 DEF LinesAre, Extends
  <2> QED
    BY <1>i, <1>p, <1>b, <2>1, <2>3, <2>4, <2>5
<1> QED
  BY <1>1, <1>2 DEF HookTurn

LEMMA DeliveringInit == PurchaseInit => Delivering
<1> SUFFICES ASSUME PurchaseInit PROVE Delivering
  OBVIOUS
<1>1. UnsharedComplete
  BY DEF PurchaseInit, OrderInit, UnsharedComplete
<1>2. LicensedFirst
  BY NoticesAssumption DEF PurchaseInit, OrderInit, Hooks!WebhookInit, LicensedFirst
<1>3. LinesAre([o \in Orders |-> {}])
  BY DEF PurchaseInit, OrderInit, LinesAre, Rows
<1>4. HookLinesAre([o \in Orders |-> {}])
  BY NoAnswerAssumption DEF PurchaseInit, Hooks!WebhookInit, HookLinesAre
<1> QED
  BY <1>1, <1>2, <1>3, <1>4 DEF Delivering

LEMMA DeliveringStep ==
  ASSUME PurchaseInv, Delivering, [PurchaseNext]_purchaseVars
  PROVE  Delivering'
<1>1. PICK lines \in [Orders -> SUBSET Products] : LinesAre(lines) /\ HookLinesAre(lines)
  BY DEF Delivering
<1>2. Move /\ Deal /\ [OrderNext]_orderVars
  BY PurchaseStep
<1>3. PICK next \in [Orders -> SUBSET Products] : Extends(next, lines)
  BY <1>2, LinesExtend
<1>4. licenses \subseteq licenses' /\ \A d \in Deliveries : HookTurn(d)
  BY HookTurns DEF PurchaseInv
<1>5. LinesAre(next)'
  BY <1>1, <1>2, <1>3, LinesStep
<1>6. HookLinesAre(next)'
  BY <1>1, <1>2, <1>3, <1>4, HookLinesStep DEF Delivering
<1>7. UnsharedComplete'
  BY <1>1, <1>2, UnsharedCompleteStep DEF Delivering, LinesKnown
<1>8. LicensedFirst'
  BY <1>2, <1>4, LicensedFirstStep DEF Delivering
<1> QED
  BY <1>5, <1>6, <1>7, <1>8 DEF Delivering

(* A paid order nobody shared is complete and licensed.                     *)
UnsharedDelivered ==
  \A o \in Rows : Unshared(o) /\ orders[o].status = "paid" =>
    /\ orders[o].items = orders[o].lines
    /\ orders[o].lines \cap LicenseProducts # {} => Hooks!LicensesOf(o) # {}

LEMMA DeliveringDelivers ==
  ASSUME PurchaseInv, Delivering
  PROVE  UnsharedDelivered
<1> SUFFICES ASSUME NEW o \in Rows, Unshared(o), orders[o].status = "paid"
             PROVE  /\ orders[o].items = orders[o].lines
                    /\ orders[o].lines \cap LicenseProducts # {} => Hooks!LicensesOf(o) # {}
  BY DEF UnsharedDelivered
<1>1. PICK lines \in [Orders -> SUBSET Products] : LinesAre(lines) /\ HookLinesAre(lines)
  BY DEF Delivering
<1>2. Judged(o, "paid")
  BY DEF PurchaseInv, Causes, StatusHasCause, EditedTo, Joined, NoEdits
<1>3. PICK n \in Notices, p \in Patches :
        /\ notice[n].pc \in {"clear", "done"}
        /\ notice[n].order = o /\ Verdict(notice[n].kind) = "paid"
        /\ patch[p].order = o /\ patch[p].intent = notice[n].intent
  BY <1>2 DEF Judged
<1>4. notice[n].intent \in Intents /\ notice[n].kind \in Kinds
  BY <1>3, TypeParts
     DEF PurchaseInv, PurchaseShape, Shape, NoticesHold, NoticeOK, NoticeRecord
<1>5. /\ n \in Deliveries /\ notice[n].kind = Hooks!KindOf(n)
      /\ notice[n].intent = EventOf[n].intent /\ EventOf[n].type # "other"
      /\ EventOf[n].type = "succeeded" =>
           hook[n].answer \in Hooks!Answers /\ Covers(licenses, hook[n].answer)
  BY <1>3, NoticesAssumption DEF Delivering, LicensedFirst
<1>6. EventOf[n].type = "succeeded"
  <2>1. EventOf[n].type \in Hooks!EventTypes
    BY <1>5, EventOfAssumption, EventsAssumption
  <2> QED
    BY <1>3, <1>5, <2>1 DEF Hooks!EventTypes, Hooks!KindOf, Verdict
<1>7. AnswerLines(hook[n].answer, EventOf[n].intent, lines)
  BY <1>1, <1>5, <1>6 DEF HookLinesAre
<1>8. hook[n].answer.order = o
  <2>1. PICK q \in Patches : /\ patch[q].order = hook[n].answer.order
                             /\ patch[q].intent = EventOf[n].intent
    BY <1>7 DEF AnswerLines
  <2>2. patch[p].intent # NoIntent
    BY <1>3, <1>4, NoIntentAssumption
  <2> QED
    BY <1>3, <1>5, <2>1, <2>2 DEF PurchaseInv, Origins
<1>9. hook[n].answer.items = orders[o].lines
  BY <1>1, <1>7, <1>8 DEF AnswerLines, LinesAre
<1>10. orders[o].items = orders[o].lines
  <2>1. PICK c \in Calls : call[c].pc = "replied" /\ call[c].order = o
    BY <1>3, <1>4, IntentAnswered
  <2> QED
    BY <2>1 DEF Delivering, UnsharedComplete, Complete
<1>11. orders[o].lines \cap LicenseProducts # {} => Hooks!LicensesOf(o) # {}
  BY <1>5, <1>6, <1>8, <1>9 DEF Covers, Hooks!LicensesOf
<1> QED
  BY <1>10, <1>11

(* Every paid order that a single call worked on lists all the products it  *)
(* was charged for, and is licensed: whatever is retried, delivered twice   *)
(* or lost, payment-service licenses what the whole order lists before it   *)
(* lets order-service flip it, because nobody is answered for an order that *)
(* is still being filled.  An order two calls share may be charged half     *)
(* built: the run paid_undelivered shows it.                                *)
THEOREM UnsharedOrdersAreDelivered == PurchaseSpec => []UnsharedDelivered
<1>1. PurchaseInit => PurchaseInv /\ Delivering
  BY PurchaseInits, DeliveringInit DEF PurchaseInv
<1>2. PurchaseInv /\ Delivering /\ [PurchaseNext]_purchaseVars => (PurchaseInv /\ Delivering)'
  BY PurchaseStep, DeliveringStep
<1>3. PurchaseInv /\ Delivering => UnsharedDelivered
  BY DeliveringDelivers
<1> QED
  BY <1>1, <1>2, <1>3, PTL DEF PurchaseSpec

(* With one call of CREATE_ORDER in all, no retry and no second checkout,   *)
(* every paid order is delivered: the instance of the run purchase_alone    *)
(* for every number of intents, events and deliveries.                      *)
THEOREM PaidOrdersAreDelivered ==
  ASSUME \A c, d \in Calls : c = d
  PROVE  PurchaseSpec => []PaidIsDelivered
<1>1. UnsharedDelivered => PaidIsDelivered
  BY DEF UnsharedDelivered, PaidIsDelivered, Unshared
<1> QED
  BY <1>1, UnsharedOrdersAreDelivered, PTL
=============================================================================
