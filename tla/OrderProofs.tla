---------------------------- MODULE OrderProofs ----------------------------
(***************************************************************************)
(* What OrderSystem guarantees for any number of orders, carts, intents    *)
(* and activations of every handler.  First the shape of the state, with   *)
(* one lemma per handler; then what a step may do to one row, one          *)
(* activation or one patch; then an inductive invariant per property, kept *)
(* by steps of that form.                                                  *)
(***************************************************************************)
EXTENDS OrderSystem, TLAPS

-----------------------------------------------------------------------------
(* The shape of the state.  An activation that is about to write holds an   *)
(* order id and a whole row, not the NoOrder and NoRow its type allows.     *)

CallOK(r) ==
  /\ r.pc # "unsent" => r.cart \in Carts
  /\ r.pc \in {"reuse", "kept", "items", "built"} => r.order \in Orders
  /\ r.pc \in {"reuse", "draft", "items"} => r.copy \in Row

CallsHold == \A c \in Calls : CallOK(call[c])

PatchesHold ==
  \A p \in Patches :
    patch[p].pc # "unsent" => patch[p].order \in Orders /\ patch[p].intent \in Intents

NoticeOK(r) ==
  /\ r.pc # "unsent" => r.intent \in Intents
  /\ r.pc \in {"save", "clear", "done"} => r.order \in Orders /\ r.copy \in Row

NoticesHold == \A n \in Notices : NoticeOK(notice[n])

EditOK(r) ==
  /\ r.pc # "unsent" => r.order \in Orders
  /\ r.pc = "save" => r.copy \in Row

EditsHold == \A e \in Edits : EditOK(edit[e])

Shape == OrderTypeOK /\ CallsHold /\ PatchesHold /\ NoticesHold /\ EditsHold

(* One part of the type invariant per variable.                             *)
CallRecord   == [pc : CallPC, cart : Carts \cup {NoCart},
                 order : Orders \cup {NoOrder}, copy : Row \cup {NoRow}]
PatchRecord  == [pc : {"unsent", "sent", "done", "failed"},
                 order : Orders \cup {NoOrder}, intent : Intents \cup {NoIntent}]
NoticeRecord == [pc : NoticePC, kind : Kinds, intent : Intents \cup {NoIntent},
                 order : Orders \cup {NoOrder}, copy : Row \cup {NoRow}]
EditRecord   == [pc : {"unsent", "sent", "save", "done", "dead", "failed"},
                 order : Orders \cup {NoOrder}, target : Status,
                 copy : Row \cup {NoRow}, mailed : BOOLEAN]

LEMMA TypeParts ==
  OrderTypeOK <=> /\ orders \in [Orders -> Row \cup {NoRow}]
                  /\ carts \in [Carts -> SUBSET Products]
                  /\ call \in [Calls -> CallRecord]
                  /\ patch \in [Patches -> PatchRecord]
                  /\ notice \in [Notices -> NoticeRecord]
                  /\ edit \in [Edits -> EditRecord]
BY DEF OrderTypeOK, CallRecord, PatchRecord, NoticeRecord, EditRecord

(* save() leaves a row in the table when it is given one.                   *)
LEMMA SaveType ==
  ASSUME orders \in [Orders -> Row \cup {NoRow}],
         NEW o \in Orders, NEW r \in Row, Save(o, r)
  PROVE  orders' \in [Orders -> Row \cup {NoRow}]
<1>1. PICK i \in {r.idle, FALSE} : orders' = [orders EXCEPT ![o] = [r EXCEPT !.idle = i]]
  BY DEF Save
<1>2. i \in BOOLEAN
  BY <1>1 DEF Row
<1>3. [r EXCEPT !.idle = i] \in Row
  BY <1>2 DEF Row
<1> QED
  BY <1>1, <1>3

LEMMA NewRowType ==
  ASSUME NEW k \in Carts, NEW ps \in SUBSET Products
  PROVE  NewRow(k, ps) \in Row
BY DEF NewRow, Row, Status

LEMMA ShapeInit == OrderInit => Shape
<1> SUFFICES ASSUME OrderInit PROVE Shape
  OBVIOUS
<1>1. OrderTypeOK
  BY DEF OrderInit, OrderTypeOK, CallPC, NoticePC, Kinds, Status
<1>2. CallsHold /\ PatchesHold /\ NoticesHold /\ EditsHold
  BY DEF OrderInit, CallsHold, CallOK, PatchesHold,
         NoticesHold, NoticeOK, EditsHold, EditOK
<1> QED
  BY <1>1, <1>2 DEF Shape

(* An activation of CREATE_ORDER writes its own record and no other.        *)
LEMMA CallWrite ==
  ASSUME call \in [Calls -> CallRecord], CallsHold,
         NEW c \in Calls, NEW r \in CallRecord, CallOK(r),
         call' = [call EXCEPT ![c] = r]
  PROVE  call' \in [Calls -> CallRecord] /\ CallsHold'
<1>1. call' \in [Calls -> CallRecord]
  OBVIOUS
<1>2. \A d \in Calls : call'[d] = IF d = c THEN r ELSE call[d]
  OBVIOUS
<1> QED
  BY <1>1, <1>2 DEF CallsHold

(* Every step of an activation of CREATE_ORDER keeps the shape.             *)
LEMMA CallShape ==
  ASSUME Shape, NEW c \in Calls,
         CallStep(c) \/ \E k \in Carts : SendCall(c, k)
  PROVE  Shape'
<1>t. /\ orders \in [Orders -> Row \cup {NoRow}]
      /\ carts \in [Carts -> SUBSET Products]
      /\ call \in [Calls -> CallRecord]
      /\ patch \in [Patches -> PatchRecord]
      /\ notice \in [Notices -> NoticeRecord]
      /\ edit \in [Edits -> EditRecord]
  BY TypeParts DEF Shape
<1>h. CallsHold /\ PatchesHold /\ NoticesHold /\ EditsHold
  BY DEF Shape
<1>c. call[c] \in CallRecord /\ CallOK(call[c])
  BY <1>t, <1>h DEF CallsHold
<1>u. UNCHANGED <<carts, patch, notice, edit>>
  BY DEF CallStep, SendCall, FindExisting, FindNone, SaveExisting, ReplyExisting,
         ReadCart, InsertOrder, SaveItem, ReplyNew, FailCall
<1> DEFINE Wrote(r) == r \in CallRecord /\ CallOK(r) /\ call' = [call EXCEPT ![c] = r]
           Kept == orders' \in [Orders -> Row \cup {NoRow}] /\ \E r : Wrote(r)
<1>1. ASSUME NEW k \in Carts, SendCall(c, k) PROVE Kept
  <2> DEFINE r == [call[c] EXCEPT !.pc = "sent", !.cart = k]
  <2>a. call' = [call EXCEPT ![c] = r]
    BY <1>t, <1>c, <1>1 DEF SendCall, CallRecord
  <2>b. r \in CallRecord /\ CallOK(r)
    BY <1>t, <1>c, <1>1 DEF SendCall, CallRecord, CallPC, CallOK
  <2>c. orders' \in [Orders -> Row \cup {NoRow}]
    BY <1>t, <1>1 DEF SendCall
  <2> QED
    BY <2>a, <2>b, <2>c
<1>2. ASSUME FindExisting(c) PROVE Kept
  <2>1. PICK o \in Orders :
          /\ orders[o] \in Row
          /\ call' = [call EXCEPT ![c].pc = "reuse", ![c].order = o,
                                  ![c].copy = orders[o]]
    BY <1>t, <1>2 DEF FindExisting, PendingOf, Rows
  <2> DEFINE r == [call[c] EXCEPT !.pc = "reuse", !.order = o, !.copy = orders[o]]
  <2>a. call' = [call EXCEPT ![c] = r]
    BY <1>t, <1>c, <1>2, <2>1 DEF FindExisting, CallRecord
  <2>b. r \in CallRecord /\ CallOK(r)
    BY <1>t, <1>c, <1>2, <2>1 DEF FindExisting, CallRecord, CallPC, CallOK
  <2>c. orders' \in [Orders -> Row \cup {NoRow}]
    BY <1>t, <1>2 DEF FindExisting
  <2> QED
    BY <2>a, <2>b, <2>c
<1>3. ASSUME FindNone(c) PROVE Kept
  <2> DEFINE r == [call[c] EXCEPT !.pc = "fresh"]
  <2>a. call' = [call EXCEPT ![c] = r]
    BY <1>t, <1>c, <1>3 DEF FindNone, CallRecord
  <2>b. r \in CallRecord /\ CallOK(r)
    BY <1>t, <1>c, <1>3 DEF FindNone, CallRecord, CallPC, CallOK
  <2>c. orders' \in [Orders -> Row \cup {NoRow}]
    BY <1>t, <1>3 DEF FindNone
  <2> QED
    BY <2>a, <2>b, <2>c
<1>4. ASSUME SaveExisting(c) PROVE Kept
  <2> DEFINE r == [call[c] EXCEPT !.pc = "kept"]
  <2>a. call' = [call EXCEPT ![c] = r]
    BY <1>t, <1>c, <1>4 DEF SaveExisting, CallRecord
  <2>b. r \in CallRecord /\ CallOK(r)
    BY <1>t, <1>c, <1>4 DEF SaveExisting, CallRecord, CallPC, CallOK
  <2>c. orders' \in [Orders -> Row \cup {NoRow}]
    BY <1>t, <1>c, <1>4, SaveType DEF SaveExisting, CallOK
  <2> QED
    BY <2>a, <2>b, <2>c
<1>5. ASSUME ReplyExisting(c) PROVE Kept
  <2> DEFINE r == [call[c] EXCEPT !.pc = "replied",
                 !.copy = IF call[c].order \in Rows
                            THEN orders[call[c].order] ELSE call[c].copy]
  <2>a. call' = [call EXCEPT ![c] = r]
    BY <1>t, <1>c, <1>5 DEF ReplyExisting, CallRecord
  <2>b. r \in CallRecord /\ CallOK(r)
    BY <1>t, <1>c, <1>5 DEF ReplyExisting, CallRecord, CallPC, CallOK, Rows
  <2>c. orders' \in [Orders -> Row \cup {NoRow}]
    BY <1>t, <1>5 DEF ReplyExisting
  <2> QED
    BY <2>a, <2>b, <2>c
<1>6. ASSUME ReadCart(c) PROVE Kept
  <2>1. NewRow(call[c].cart, carts[call[c].cart]) \in Row
    BY <1>t, <1>c, <1>6, NewRowType DEF ReadCart, CallOK
  <2> DEFINE n == NewRow(call[c].cart, carts[call[c].cart])
             f == [call[c] EXCEPT !.pc = "failed"]
             d == [call[c] EXCEPT !.pc = "draft", !.copy = n]
  <2>a. call' = [call EXCEPT ![c] = f] \/ call' = [call EXCEPT ![c] = d]
    BY <1>t, <1>c, <1>6 DEF ReadCart, CallRecord
  <2>b. f \in CallRecord /\ CallOK(f)
    BY <1>c, <1>6 DEF ReadCart, CallRecord, CallPC, CallOK
  <2>c. d \in CallRecord /\ CallOK(d)
    BY <1>c, <1>6, <2>1 DEF ReadCart, CallRecord, CallPC, CallOK
  <2>d. orders' \in [Orders -> Row \cup {NoRow}]
    BY <1>t, <1>6 DEF ReadCart
  <2> QED
    BY <2>a, <2>b, <2>c, <2>d
<1>7. ASSUME InsertOrder(c) PROVE Kept
  <2>1. PICK o \in Orders :
          /\ orders' = [orders EXCEPT ![o] = call[c].copy]
          /\ call' = [call EXCEPT ![c].pc = "items", ![c].order = o]
    BY <1>7 DEF InsertOrder
  <2> DEFINE r == [call[c] EXCEPT !.pc = "items", !.order = o]
  <2>a. call' = [call EXCEPT ![c] = r]
    BY <1>t, <1>c, <1>7, <2>1 DEF InsertOrder, CallRecord
  <2>b. r \in CallRecord /\ CallOK(r)
    BY <1>t, <1>c, <1>7, <2>1 DEF InsertOrder, CallRecord, CallPC, CallOK
  <2>c. orders' \in [Orders -> Row \cup {NoRow}]
    BY <1>t, <1>c, <1>7, <2>1 DEF InsertOrder, CallOK
  <2> QED
    BY <2>a, <2>b, <2>c
<1>8. ASSUME SaveItem(c) PROVE Kept
  <2>1. PICK p \in call[c].copy.lines \ call[c].copy.items :
          /\ orders' = [orders EXCEPT ![call[c].order].items = @ \cup {p}]
          /\ call' = [call EXCEPT
               ![c].copy.items = call[c].copy.items \cup {p},
               ![c].pc = IF call[c].copy.items \cup {p} = call[c].copy.lines
                           THEN "built" ELSE "items"]
    BY <1>8 DEF SaveItem
  <2>2. /\ call[c].order \in Orders /\ orders[call[c].order] \in Row
        /\ call[c].copy \in Row /\ p \in Products /\ call[c].cart \in Carts
    BY <1>t, <1>c, <1>8, <2>1 DEF SaveItem, CallOK, Rows, Row
  <2> DEFINE w == [orders[call[c].order] EXCEPT !.items = @ \cup {p}]
             y == [call[c].copy EXCEPT !.items = call[c].copy.items \cup {p}]
             r == [call[c] EXCEPT !.copy = y,
                     !.pc = IF call[c].copy.items \cup {p} = call[c].copy.lines
                              THEN "built" ELSE "items"]
  <2>3. w \in Row /\ y \in Row
    BY <2>2 DEF Row
  <2>4. orders' = [orders EXCEPT ![call[c].order] = w]
    BY <1>t, <2>1, <2>2
  <2>5. call' = [call EXCEPT ![c] = r]
    BY <1>t, <1>c, <2>1, <2>2 DEF CallRecord, Row
  <2>6. r \in CallRecord /\ CallOK(r)
    BY <1>c, <2>2, <2>3 DEF CallRecord, CallPC, CallOK
  <2>7. orders' \in [Orders -> Row \cup {NoRow}]
    BY <1>t, <2>2, <2>3, <2>4
  <2> QED
    BY <2>5, <2>6, <2>7
<1>9. ASSUME ReplyNew(c) PROVE Kept
  <2> DEFINE r == [call[c] EXCEPT !.pc = "replied", !.copy = orders[call[c].order]]
  <2>a. call' = [call EXCEPT ![c] = r]
    BY <1>t, <1>c, <1>9 DEF ReplyNew, CallRecord
  <2>b. r \in CallRecord /\ CallOK(r)
    BY <1>t, <1>c, <1>9 DEF ReplyNew, CallRecord, CallPC, CallOK, Rows
  <2>c. orders' \in [Orders -> Row \cup {NoRow}]
    BY <1>t, <1>9 DEF ReplyNew
  <2> QED
    BY <2>a, <2>b, <2>c
<1>10. ASSUME FailCall(c) PROVE Kept
  <2> DEFINE r == [call[c] EXCEPT !.pc = "failed"]
  <2>a. call' = [call EXCEPT ![c] = r]
    BY <1>t, <1>c, <1>10 DEF FailCall, CallRecord
  <2>b. r \in CallRecord /\ CallOK(r)
    BY <1>t, <1>c, <1>10 DEF FailCall, CallRecord, CallPC, CallOK
  <2>c. orders' \in [Orders -> Row \cup {NoRow}]
    BY <1>t, <1>10 DEF FailCall
  <2> QED
    BY <2>a, <2>b, <2>c
<1>11. Kept
  BY <1>1, <1>2, <1>3, <1>4, <1>5, <1>6, <1>7, <1>8, <1>9, <1>10 DEF CallStep
<1>12. call' \in [Calls -> CallRecord] /\ CallsHold'
  BY <1>t, <1>h, <1>11, CallWrite
<1>13. PatchesHold' /\ NoticesHold' /\ EditsHold'
  BY <1>h, <1>u DEF PatchesHold, NoticesHold, EditsHold
<1>14. OrderTypeOK'
  BY <1>t, <1>u, <1>11, <1>12 DEF OrderTypeOK, CallRecord, PatchRecord, NoticeRecord, EditRecord
<1> QED
  BY <1>12, <1>13, <1>14 DEF Shape

(* The other handlers write their own record in the same way.               *)
LEMMA PatchShape ==
  ASSUME Shape, NEW p \in Patches,
         PatchStep(p) \/ \E o \in Orders, i \in Intents : SendPatch(p, o, i)
  PROVE  Shape'
<1>t. /\ orders \in [Orders -> Row \cup {NoRow}]
      /\ carts \in [Carts -> SUBSET Products]
      /\ call \in [Calls -> CallRecord]
      /\ patch \in [Patches -> PatchRecord]
      /\ notice \in [Notices -> NoticeRecord]
      /\ edit \in [Edits -> EditRecord]
  BY TypeParts DEF Shape
<1>h. CallsHold /\ PatchesHold /\ NoticesHold /\ EditsHold
  BY DEF Shape
<1>p. patch[p] \in PatchRecord /\ (patch[p].pc # "unsent" =>
        patch[p].order \in Orders /\ patch[p].intent \in Intents)
  BY <1>t, <1>h DEF PatchesHold
<1>u. UNCHANGED <<carts, call, notice, edit>>
  BY DEF PatchStep, SendPatch, AttachIntent, FailPatch
<1> DEFINE Wrote(r) == /\ r \in PatchRecord
                       /\ r.order \in Orders /\ r.intent \in Intents
                       /\ patch' = [patch EXCEPT ![p] = r]
           Kept == orders' \in [Orders -> Row \cup {NoRow}] /\ \E r : Wrote(r)
<1>1. ASSUME NEW o \in Orders, NEW i \in Intents, SendPatch(p, o, i) PROVE Kept
  <2>1. Wrote([pc |-> "sent", order |-> o, intent |-> i])
    BY <1>1 DEF SendPatch, PatchRecord
  <2> QED
    BY <1>t, <1>1, <2>1 DEF SendPatch
<1>2. ASSUME AttachIntent(p) PROVE Kept
  <2> DEFINE w == [orders[patch[p].order] EXCEPT !.intent = patch[p].intent,
                                                 !.idle = FALSE]
  <2>1. patch[p].order \in Rows => w \in Row
    BY <1>t, <1>p, <1>2 DEF AttachIntent, Rows, Row
  <2>2. orders' = IF patch[p].order \in Rows
                    THEN [orders EXCEPT ![patch[p].order] = w] ELSE orders
    BY <1>t, <1>p, <1>2 DEF AttachIntent, Rows, Row
  <2>3. orders' \in [Orders -> Row \cup {NoRow}]
    BY <1>t, <2>1, <2>2 DEF Rows
  <2>4. Wrote([patch[p] EXCEPT !.pc = "done"])
    BY <1>t, <1>p, <1>2 DEF AttachIntent, PatchRecord
  <2> QED
    BY <2>3, <2>4
<1>3. ASSUME FailPatch(p) PROVE Kept
  <2>1. Wrote([patch[p] EXCEPT !.pc = "failed"])
    BY <1>t, <1>p, <1>3 DEF FailPatch, PatchRecord
  <2> QED
    BY <1>t, <1>3, <2>1 DEF FailPatch
<1>4. PICK r : Wrote(r) /\ orders' \in [Orders -> Row \cup {NoRow}]
  BY <1>1, <1>2, <1>3 DEF PatchStep
<1>5. patch' \in [Patches -> PatchRecord]
  BY <1>t, <1>4
<1>6. \A q \in Patches : patch'[q] = IF q = p THEN r ELSE patch[q]
  BY <1>t, <1>4
<1>7. PatchesHold'
  BY <1>h, <1>4, <1>6 DEF PatchesHold
<1>8. CallsHold' /\ NoticesHold' /\ EditsHold'
  BY <1>h, <1>u DEF CallsHold, NoticesHold, EditsHold
<1>9. OrderTypeOK'
  BY <1>t, <1>u, <1>4, <1>5 DEF OrderTypeOK, CallRecord, PatchRecord, NoticeRecord, EditRecord
<1> QED
  BY <1>7, <1>8, <1>9 DEF Shape

LEMMA NoticeShape ==
  ASSUME Shape, NEW n \in Notices,
         NoticeStep(n) \/ \E kind \in Kinds, i \in Intents : SendNotice(n, kind, i)
  PROVE  Shape'
<1>t. /\ orders \in [Orders -> Row \cup {NoRow}]
      /\ carts \in [Carts -> SUBSET Products]
      /\ call \in [Calls -> CallRecord]
      /\ patch \in [Patches -> PatchRecord]
      /\ notice \in [Notices -> NoticeRecord]
      /\ edit \in [Edits -> EditRecord]
  BY TypeParts DEF Shape
<1>h. CallsHold /\ PatchesHold /\ NoticesHold /\ EditsHold
  BY DEF Shape
<1>n. notice[n] \in NoticeRecord /\ NoticeOK(notice[n])
  BY <1>t, <1>h DEF NoticesHold
<1>u. UNCHANGED <<call, patch, edit>>
  BY DEF NoticeStep, SendNotice, ReadNotice, SaveNotice, ClearPaidCart, FailNotice
<1> DEFINE Wrote(r) == r \in NoticeRecord /\ NoticeOK(r)
                         /\ notice' = [notice EXCEPT ![n] = r]
           Kept == /\ orders' \in [Orders -> Row \cup {NoRow}]
                   /\ carts' \in [Carts -> SUBSET Products]
                   /\ \E r : Wrote(r)
<1>1. ASSUME NEW kind \in Kinds, NEW i \in Intents, SendNotice(n, kind, i) PROVE Kept
  <2> DEFINE r == [notice[n] EXCEPT !.pc = "sent", !.kind = kind, !.intent = i]
  <2>1. r \in NoticeRecord /\ NoticeOK(r)
    BY <1>n DEF NoticeRecord, NoticePC, NoticeOK
  <2>2. notice' = [notice EXCEPT ![n] = r]
    BY <1>t, <1>n, <1>1 DEF SendNotice, NoticeRecord
  <2> QED
    BY <1>t, <1>1, <2>1, <2>2 DEF SendNotice
<1>2. ASSUME ReadNotice(n) PROVE Kept
  <2>0. UNCHANGED <<orders, carts>>
    BY <1>2 DEF ReadNotice
  <2>1. CASE notice' = [notice EXCEPT ![n].pc = "dropped"]
    <3>1. Wrote([notice[n] EXCEPT !.pc = "dropped"])
      BY <1>t, <1>n, <1>2, <2>1 DEF ReadNotice, NoticeRecord, NoticePC, NoticeOK
    <3> QED
      BY <1>t, <2>0, <3>1
  <2>2. CASE \E o \in WithIntent(notice[n].intent) :
               notice' = [notice EXCEPT ![n].pc = "save", ![n].order = o,
                                        ![n].copy = orders[o]]
    <3>1. PICK o \in Orders :
            /\ orders[o] \in Row
            /\ notice' = [notice EXCEPT ![n].pc = "save", ![n].order = o,
                                        ![n].copy = orders[o]]
      BY <1>t, <2>2 DEF WithIntent, Rows
    <3> DEFINE r == [notice[n] EXCEPT !.pc = "save", !.order = o, !.copy = orders[o]]
    <3>2. r \in NoticeRecord /\ NoticeOK(r)
      BY <1>n, <1>2, <3>1 DEF ReadNotice, NoticeRecord, NoticePC, NoticeOK
    <3>3. notice' = [notice EXCEPT ![n] = r]
      BY <1>t, <1>n, <3>1 DEF NoticeRecord
    <3> QED
      BY <1>t, <2>0, <3>2, <3>3
  <2> QED
    BY <1>2, <2>1, <2>2 DEF ReadNotice
<1>3. ASSUME SaveNotice(n) PROVE Kept
  <2> DEFINE w == [notice[n].copy EXCEPT !.status = Verdict(notice[n].kind)]
             r == [notice[n] EXCEPT
                    !.pc = IF notice[n].kind = "confirmed" THEN "clear" ELSE "done"]
  <2>1. Verdict(notice[n].kind) \in Status
    BY <1>n DEF NoticeRecord, Kinds, Verdict, Status
  <2>2. w \in Row /\ notice[n].order \in Orders
    BY <1>n, <1>3, <2>1 DEF SaveNotice, NoticeOK, Row
  <2>3. orders' \in [Orders -> Row \cup {NoRow}]
    BY <1>t, <1>3, <2>2, SaveType DEF SaveNotice
  <2>4. r \in NoticeRecord /\ NoticeOK(r)
    BY <1>n, <1>3 DEF SaveNotice, NoticeRecord, NoticePC, NoticeOK
  <2>5. notice' = [notice EXCEPT ![n] = r]
    BY <1>t, <1>n, <1>3 DEF SaveNotice, NoticeRecord
  <2> QED
    BY <1>t, <1>3, <2>3, <2>4, <2>5 DEF SaveNotice
<1>4. ASSUME ClearPaidCart(n) PROVE Kept
  <2> DEFINE r == [notice[n] EXCEPT !.pc = "done"]
  <2>1. carts' \in [Carts -> SUBSET Products]
    BY <1>t, <1>4 DEF ClearPaidCart
  <2>2. r \in NoticeRecord /\ NoticeOK(r)
    BY <1>n, <1>4 DEF ClearPaidCart, NoticeRecord, NoticePC, NoticeOK
  <2>3. notice' = [notice EXCEPT ![n] = r]
    BY <1>t, <1>n, <1>4 DEF ClearPaidCart, NoticeRecord
  <2> QED
    BY <1>t, <1>4, <2>1, <2>2, <2>3 DEF ClearPaidCart
<1>5. ASSUME FailNotice(n) PROVE Kept
  <2> DEFINE r == [notice[n] EXCEPT !.pc = "failed"]
  <2>1. r \in NoticeRecord /\ NoticeOK(r)
    BY <1>n, <1>5 DEF FailNotice, NoticeRecord, NoticePC, NoticeOK
  <2>2. notice' = [notice EXCEPT ![n] = r]
    BY <1>t, <1>n, <1>5 DEF FailNotice, NoticeRecord
  <2> QED
    BY <1>t, <1>5, <2>1, <2>2 DEF FailNotice
<1>6. Kept
  BY <1>1, <1>2, <1>3, <1>4, <1>5 DEF NoticeStep
<1>7. PICK r : Wrote(r)
  BY <1>6
<1>8. notice' \in [Notices -> NoticeRecord]
  BY <1>t, <1>7
<1>9. \A m \in Notices : notice'[m] = IF m = n THEN r ELSE notice[m]
  BY <1>t, <1>7
<1>10. NoticesHold'
  BY <1>h, <1>7, <1>9 DEF NoticesHold
<1>11. CallsHold' /\ PatchesHold' /\ EditsHold'
  BY <1>h, <1>u DEF CallsHold, PatchesHold, EditsHold
<1>12. OrderTypeOK'
  BY <1>t, <1>u, <1>6, <1>8 DEF OrderTypeOK, CallRecord, PatchRecord, NoticeRecord, EditRecord
<1> QED
  BY <1>10, <1>11, <1>12 DEF Shape

LEMMA EditShape ==
  ASSUME Shape, NEW e \in Edits,
         EditStep(e) \/ \E o \in Drawn, s \in Status : SendEdit(e, o, s)
  PROVE  Shape'
<1>t. /\ orders \in [Orders -> Row \cup {NoRow}]
      /\ carts \in [Carts -> SUBSET Products]
      /\ call \in [Calls -> CallRecord]
      /\ patch \in [Patches -> PatchRecord]
      /\ notice \in [Notices -> NoticeRecord]
      /\ edit \in [Edits -> EditRecord]
  BY TypeParts DEF Shape
<1>h. CallsHold /\ PatchesHold /\ NoticesHold /\ EditsHold
  BY DEF Shape
<1>e. edit[e] \in EditRecord /\ EditOK(edit[e])
  BY <1>t, <1>h DEF EditsHold
<1>u. UNCHANGED <<carts, call, patch, notice>>
  BY DEF EditStep, SendEdit, ReadEdit, SaveEdit, EditDies, FailEdit
<1> DEFINE Wrote(r) == r \in EditRecord /\ EditOK(r) /\ edit' = [edit EXCEPT ![e] = r]
           Kept == orders' \in [Orders -> Row \cup {NoRow}] /\ \E r : Wrote(r)
<1>1. ASSUME NEW o \in Drawn, NEW s \in Status, SendEdit(e, o, s) PROVE Kept
  <2> DEFINE r == [edit[e] EXCEPT !.pc = "sent", !.order = o, !.target = s]
  <2>1. o \in Orders
    BY <1>t, <1>1 DEF Drawn, CallRecord
  <2>2. r \in EditRecord /\ EditOK(r)
    BY <1>e, <2>1 DEF EditRecord, EditOK
  <2>3. edit' = [edit EXCEPT ![e] = r]
    BY <1>t, <1>e, <1>1 DEF SendEdit, EditRecord
  <2> QED
    BY <1>t, <1>1, <2>2, <2>3 DEF SendEdit
<1>2. ASSUME ReadEdit(e) PROVE Kept
  <2>1. CASE edit[e].order \in Rows
    <3> DEFINE r == [edit[e] EXCEPT !.pc = "save", !.copy = orders[edit[e].order]]
    <3>1. r \in EditRecord /\ EditOK(r)
      BY <1>t, <1>e, <1>2, <2>1 DEF ReadEdit, Rows, EditRecord, EditOK
    <3>2. edit' = [edit EXCEPT ![e] = r]
      BY <1>t, <1>e, <1>2, <2>1 DEF ReadEdit, EditRecord
    <3> QED
      BY <1>t, <1>2, <3>1, <3>2 DEF ReadEdit
  <2>2. CASE edit[e].order \notin Rows
    <3> DEFINE r == [edit[e] EXCEPT !.pc = "failed"]
    <3>1. r \in EditRecord /\ EditOK(r)
      BY <1>e, <1>2 DEF ReadEdit, EditRecord, EditOK
    <3>2. edit' = [edit EXCEPT ![e] = r]
      BY <1>t, <1>e, <1>2, <2>2 DEF ReadEdit, EditRecord
    <3> QED
      BY <1>t, <1>2, <3>1, <3>2 DEF ReadEdit
  <2> QED
    BY <2>1, <2>2
<1>3. ASSUME SaveEdit(e) PROVE Kept
  <2> DEFINE w == [edit[e].copy EXCEPT !.status = edit[e].target]
             m == edit[e].target = "shipped" /\ edit[e].copy.status # "shipped"
             r == [edit[e] EXCEPT !.pc = "done", !.mailed = m]
  <2>1. w \in Row /\ edit[e].order \in Orders
    BY <1>e, <1>3 DEF SaveEdit, EditRecord, EditOK, Row
  <2>2. orders' \in [Orders -> Row \cup {NoRow}]
    BY <1>t, <1>3, <2>1, SaveType DEF SaveEdit
  <2>3. r \in EditRecord /\ EditOK(r)
    <3>1. m \in BOOLEAN
      OBVIOUS
    <3> HIDE DEF m
    <3> QED
      BY <1>e, <1>3, <3>1 DEF SaveEdit, EditRecord, EditOK
  <2>4. edit' = [edit EXCEPT ![e] = r]
    <3> SUFFICES edit' = [edit EXCEPT ![e].pc = "done", ![e].mailed = m]
      BY <1>t, <1>e DEF EditRecord
    <3> QED
      BY <1>3 DEF SaveEdit
  <2> QED
    BY <2>2, <2>3, <2>4
<1>d. ASSUME EditDies(e) PROVE Kept
  <2> DEFINE w == [edit[e].copy EXCEPT !.status = edit[e].target]
             r == [edit[e] EXCEPT !.pc = "dead"]
  <2>1. w \in Row /\ edit[e].order \in Orders
    BY <1>e, <1>d DEF EditDies, EditRecord, EditOK, Row
  <2>2. orders' \in [Orders -> Row \cup {NoRow}]
    BY <1>t, <1>d, <2>1, SaveType DEF EditDies
  <2>3. r \in EditRecord /\ EditOK(r)
    BY <1>e, <1>d DEF EditDies, EditRecord, EditOK
  <2>4. edit' = [edit EXCEPT ![e] = r]
    BY <1>t, <1>e, <1>d DEF EditDies, EditRecord
  <2> QED
    BY <2>2, <2>3, <2>4
<1>4. ASSUME FailEdit(e) PROVE Kept
  <2> DEFINE r == [edit[e] EXCEPT !.pc = "failed"]
  <2>1. r \in EditRecord /\ EditOK(r)
    BY <1>e, <1>4 DEF FailEdit, EditRecord, EditOK
  <2>2. edit' = [edit EXCEPT ![e] = r]
    BY <1>t, <1>e, <1>4 DEF FailEdit, EditRecord
  <2> QED
    BY <1>t, <1>4, <2>1, <2>2 DEF FailEdit
<1>5. PICK r : Wrote(r) /\ orders' \in [Orders -> Row \cup {NoRow}]
  BY <1>1, <1>2, <1>3, <1>d, <1>4 DEF EditStep
<1>6. edit' \in [Edits -> EditRecord]
  BY <1>t, <1>5
<1>7. \A f \in Edits : edit'[f] = IF f = e THEN r ELSE edit[f]
  BY <1>t, <1>5
<1>8. EditsHold'
  BY <1>h, <1>5, <1>7 DEF EditsHold
<1>9. CallsHold' /\ PatchesHold' /\ NoticesHold'
  BY <1>h, <1>u DEF CallsHold, PatchesHold, NoticesHold
<1>10. OrderTypeOK'
  BY <1>t, <1>u, <1>5, <1>6 DEF OrderTypeOK, CallRecord, PatchRecord, NoticeRecord, EditRecord
<1> QED
  BY <1>8, <1>9, <1>10 DEF Shape

(* Time, the cron and the customer touch the tables only.                   *)
LEMMA TableShape ==
  ASSUME Shape,
         \/ \E o \in Orders : GoIdle(o)
         \/ CleanupPending
         \/ \E k \in Carts, p \in Products : AddToCart(k, p)
  PROVE  Shape'
<1>t. /\ orders \in [Orders -> Row \cup {NoRow}]
      /\ carts \in [Carts -> SUBSET Products]
      /\ call \in [Calls -> CallRecord]
      /\ patch \in [Patches -> PatchRecord]
      /\ notice \in [Notices -> NoticeRecord]
      /\ edit \in [Edits -> EditRecord]
  BY TypeParts DEF Shape
<1>h. CallsHold /\ PatchesHold /\ NoticesHold /\ EditsHold
  BY DEF Shape
<1>u. UNCHANGED <<call, patch, notice, edit>>
  BY DEF GoIdle, CleanupPending, AddToCart
<1> DEFINE Kept == orders' \in [Orders -> Row \cup {NoRow}]
                     /\ carts' \in [Carts -> SUBSET Products]
<1>1. ASSUME NEW o \in Orders, GoIdle(o) PROVE Kept
  <2>1. orders[o] \in Row
    BY <1>t, <1>1 DEF GoIdle, Rows
  <2>2. [orders[o] EXCEPT !.idle = TRUE] \in Row
    BY <2>1 DEF Row
  <2> QED
    BY <1>t, <1>1, <2>2 DEF GoIdle
<1>2. ASSUME CleanupPending PROVE Kept
  BY <1>t, <1>2 DEF CleanupPending
<1>3. ASSUME NEW k \in Carts, NEW p \in Products, AddToCart(k, p) PROVE Kept
  BY <1>t, <1>3 DEF AddToCart
<1>4. Kept
  BY <1>1, <1>2, <1>3
<1>5. CallsHold' /\ PatchesHold' /\ NoticesHold' /\ EditsHold'
  BY <1>h, <1>u DEF CallsHold, PatchesHold, NoticesHold, EditsHold
<1>6. OrderTypeOK'
  BY <1>t, <1>u, <1>4 DEF OrderTypeOK, CallRecord, PatchRecord, NoticeRecord, EditRecord
<1> QED
  BY <1>5, <1>6 DEF Shape

LEMMA ShapeStep == Shape /\ [OrderNext]_orderVars => Shape'
<1> SUFFICES ASSUME Shape, [OrderNext]_orderVars PROVE Shape'
  OBVIOUS
<1>1. CASE Ask
  BY <1>1, CallShape, PatchShape, NoticeShape, EditShape, TableShape DEF Ask
<1>2. CASE OrderStep
  BY <1>2, CallShape, PatchShape, NoticeShape, EditShape, TableShape DEF OrderStep
<1>3. CASE UNCHANGED orderVars
  BY <1>3 DEF orderVars, Shape, OrderTypeOK, CallsHold, PatchesHold, NoticesHold, EditsHold
<1> QED
  BY <1>1, <1>2, <1>3 DEF OrderNext

(* Whatever the callers do, and however the handlers interleave, fail and   *)
(* write stale copies back, the tables and the activations keep their type: *)
(* save() never leaves a half row, and no handler writes without having     *)
(* read.                                                                    *)
THEOREM TypeCorrect == OrderSpec => []OrderTypeOK
<1>1. Shape => OrderTypeOK
  BY DEF Shape
<1> QED
  BY ShapeInit, ShapeStep, <1>1, PTL DEF OrderSpec

-----------------------------------------------------------------------------
(* The inductive invariants.                                                *)

MintedFor(o, i) ==
  i = NoIntent \/ \E p \in Patches : patch[p].order = o /\ patch[p].intent = i

(* Intents are attached to one order each, and every copy of a row, stored  *)
(* or held by a handler, carries an intent minted for that order.           *)
Origins ==
  /\ \A p \in Patches : patch[p].pc = "unsent" => patch[p].intent = NoIntent
  /\ \A p, q \in Patches :
       patch[p].intent = patch[q].intent /\ patch[p].intent # NoIntent => p = q
  /\ \A o \in Rows : MintedFor(o, orders[o].intent)
  /\ \A c \in Calls :
       /\ call[c].pc = "reuse" => MintedFor(call[c].order, call[c].copy.intent)
       /\ call[c].pc = "draft" => call[c].copy.intent = NoIntent
  /\ \A n \in Notices :
       notice[n].pc = "save" => MintedFor(notice[n].order, notice[n].copy.intent)
  /\ \A e \in Edits :
       edit[e].pc = "save" => MintedFor(edit[e].order, edit[e].copy.intent)

(* createOrderFromCart holds pending copies only, and a notice at work on a *)
(* row found it by an intent of that row.                                   *)
Causes ==
  /\ StatusHasCause
  /\ \A c \in Calls :
       call[c].pc \in {"reuse", "draft"} => call[c].copy.status = "pending"
  /\ \A n \in Notices : notice[n].pc \in {"save", "clear", "done"} =>
       \E p \in Patches :
         patch[p].order = notice[n].order /\ patch[p].intent = notice[n].intent

MailedFor(o) ==
  \E e \in Edits : /\ (edit[e].mailed \/ edit[e].pc = "dead")
                    /\ edit[e].order = o /\ edit[e].target = "shipped"

(* An edit that saw its order shipped can count on the mail of another.     *)
Mails ==
  /\ ShippedIsMailed
  /\ \A e \in Edits :
       /\ edit[e].mailed => edit[e].pc = "done" /\ edit[e].target = "shipped"
       /\ edit[e].pc = "save" /\ edit[e].copy.status = "shipped"
            => MailedFor(edit[e].order)

(* While the items of an order are being inserted the row is fresh, holds   *)
(* exactly the items inserted so far, and no handler holds a copy with      *)
(* another item or one that would make the row look idle.                   *)
Younger(r, c) == ~r.idle /\ r.items \subseteq call[c].copy.items

Creating(c) == call[c].pc \in {"items", "built"}

Creators ==
  /\ Rows \subseteq Drawn
  /\ \A n \in Notices : notice[n].pc = "save" => notice[n].order \in Drawn
  /\ \A e \in Edits : edit[e].pc # "unsent" => edit[e].order \in Drawn
  /\ \A c \in Calls :
       /\ call[c].pc \in {"unsent", "sent", "fresh", "draft"} => call[c].order = NoOrder
       /\ call[c].pc = "draft" => ~call[c].copy.idle /\ call[c].copy.items = {}
       /\ call[c].pc = "built" => call[c].copy \in Row
                                    /\ call[c].copy.items = call[c].copy.lines
  /\ \A c \in Calls : Creating(c) =>
       /\ call[c].order \in Rows
       /\ ~orders[call[c].order].idle
       /\ orders[call[c].order].items = call[c].copy.items
       /\ \A d \in Calls : d # c /\ call[d].order = call[c].order =>
            ~Creating(d) /\ (call[d].pc = "reuse" => Younger(call[d].copy, c))
       /\ \A n \in Notices : notice[n].pc = "save" /\ notice[n].order = call[c].order =>
            Younger(notice[n].copy, c)
       /\ \A e \in Edits : edit[e].pc = "save" /\ edit[e].order = call[c].order =>
            Younger(edit[e].copy, c)

-----------------------------------------------------------------------------
(* What a step may do to one row.                                           *)

Saves(o, r) ==
  /\ CanSave(o, r)
  /\ \E i \in {r.idle, FALSE} : orders'[o] = [r EXCEPT !.idle = i]

RowAges(o) ==
  /\ orders[o] \in Row /\ orders'[o] = [orders[o] EXCEPT !.idle = TRUE]
  /\ \A c \in Calls : call[c].order = o => ~Creating(c)

RowGains(o, c) ==
  /\ call[c].pc = "items" /\ call[c].order = o /\ orders[o] \in Row
  /\ \E p \in Products :
       /\ orders'[o] = [orders[o] EXCEPT !.items = @ \cup {p}]
       /\ call'[c].copy.items = call[c].copy.items \cup {p}
       /\ call'[c].order = o

RowAttached(o, p) ==
  /\ patch[p].pc = "sent" /\ patch[p].order = o /\ orders[o] \in Row
  /\ orders'[o] = [orders[o] EXCEPT !.intent = patch[p].intent, !.idle = FALSE]

RowInserted(o, c) ==
  /\ call[c].pc = "draft" /\ o \notin Rows /\ o \notin Drawn
  /\ orders'[o] = call[c].copy /\ call'[c].order = o

RowReused(o, c) ==
  call[c].pc = "reuse" /\ call[c].order = o /\ Saves(o, call[c].copy)

RowJudged(o, n) ==
  /\ notice[n].pc = "save" /\ notice[n].order = o
  /\ notice'[n].pc \in {"clear", "done"}
  /\ Saves(o, [notice[n].copy EXCEPT !.status = Verdict(notice[n].kind)])

RowEdited(o, e) ==
  /\ edit[e].pc = "save" /\ edit[e].order = o /\ edit'[e].pc \in {"done", "dead"}
  /\ Saves(o, [edit[e].copy EXCEPT !.status = edit[e].target])

RowMove(o) ==
  \/ orders'[o] = orders[o]
  \/ Expired(o) /\ orders'[o] = NoRow
  \/ RowAges(o)
  \/ \E c \in Calls   : RowGains(o, c) \/ RowInserted(o, c) \/ RowReused(o, c)
  \/ \E p \in Patches : RowAttached(o, p)
  \/ \E n \in Notices : RowJudged(o, n)
  \/ \E e \in Edits   : RowEdited(o, e)

(* What a step may do to one patch, call, notice or edit.                   *)
PatchMove(p) ==
  \/ patch'[p].order = patch[p].order /\ patch'[p].intent = patch[p].intent
       /\ (patch'[p].pc = "unsent" => patch[p].pc = "unsent")
  \/ /\ patch[p].pc = "unsent" /\ patch'[p].pc = "sent"
     /\ \A q \in Patches : /\ patch[q].intent # patch'[p].intent
                           /\ q # p => patch'[q] = patch[q]

CallMove(c) ==
  \/ call'[c] = call[c]
  \/ call[c].pc = "sent" /\ call'[c].pc = "reuse" /\ call'[c].order \in Rows
       /\ call'[c].copy = orders[call'[c].order] /\ call'[c].copy.status = "pending"
  \/ call[c].pc = "fresh" /\ call'[c].pc = "draft" /\ call'[c].order = call[c].order
       /\ \E k \in Carts, ps \in SUBSET Products : call'[c].copy = NewRow(k, ps)
  \/ call[c].pc = "draft" /\ call'[c].pc = "items" /\ call'[c].copy = call[c].copy
       /\ call'[c].order \in Orders /\ call'[c].order \notin Drawn
       /\ orders'[call'[c].order] = call[c].copy
       /\ \A d \in Calls : d # c => call'[d] = call[d]
  \/ call[c].pc = "items" /\ call'[c].pc \in {"items", "built"}
       /\ call'[c].copy \in Row /\ call'[c].order = call[c].order
       /\ (call'[c].pc = "built" => call'[c].copy.items = call'[c].copy.lines)
       /\ \E p \in Products :
            /\ call'[c].copy.items = call[c].copy.items \cup {p}
            /\ orders[call[c].order] \in Row
            /\ orders'[call[c].order] =
                 [orders[call[c].order] EXCEPT !.items = @ \cup {p}]
  \/ /\ call'[c].pc \notin {"unsent", "reuse", "draft", "items", "built"}
     /\ call'[c].order = call[c].order
     /\ call'[c].pc \in {"sent", "fresh"} => call[c].pc \in {"unsent", "sent"}

NoticeMove(n) ==
  \/ notice'[n] = notice[n]
  \/ notice[n].pc = "unsent" /\ notice'[n].pc = "sent"
  \/ notice[n].pc = "sent" /\ notice'[n].pc = "save"
       /\ notice'[n].intent = notice[n].intent /\ notice'[n].order \in Rows
       /\ notice'[n].copy = orders[notice'[n].order]
       /\ notice'[n].copy.intent = notice[n].intent
  \/ notice[n].pc \in {"save", "clear"} /\ notice'[n].pc \in {"clear", "done"}
       /\ notice'[n].intent = notice[n].intent /\ notice'[n].order = notice[n].order
       /\ notice'[n].kind = notice[n].kind
  \/ notice[n].pc \in {"sent", "save"} /\ notice'[n].pc \in {"dropped", "failed"}

EditMove(e) ==
  \/ edit'[e] = edit[e]
  \/ edit[e].pc = "unsent" /\ edit'[e].pc = "sent" /\ edit'[e].order \in Drawn
       /\ edit'[e].mailed = edit[e].mailed
  \/ edit[e].pc = "sent" /\ edit'[e].pc = "save" /\ edit'[e].order = edit[e].order
       /\ edit'[e].order \in Rows /\ edit'[e].copy = orders[edit'[e].order]
       /\ edit'[e].mailed = edit[e].mailed
  \/ edit[e].pc = "save" /\ edit'[e].pc = "done" /\ edit'[e].order = edit[e].order
       /\ edit'[e].target = edit[e].target
       /\ (edit'[e].mailed <=> edit[e].target = "shipped"
                                 /\ edit[e].copy.status # "shipped")
  \/ edit[e].pc = "save" /\ edit'[e].pc = "dead" /\ edit'[e].order = edit[e].order
       /\ edit'[e].target = edit[e].target /\ edit'[e].mailed = edit[e].mailed
  \/ edit[e].pc \in {"sent", "save"} /\ edit'[e].pc = "failed"
       /\ edit'[e].order = edit[e].order /\ edit'[e].mailed = edit[e].mailed

Move == /\ \A o \in Orders  : RowMove(o)
        /\ \A p \in Patches : PatchMove(p)
        /\ \A c \in Calls   : CallMove(c)
        /\ \A n \in Notices : NoticeMove(n)
        /\ \A e \in Edits   : EditMove(e)

(* save() as a move of one row.                                             *)
LEMMA SaveMove ==
  ASSUME orders \in [Orders -> Row \cup {NoRow}],
         NEW o \in Orders, NEW r \in Row, Save(o, r)
  PROVE  Saves(o, r) /\ \A x \in Orders : x # o => orders'[x] = orders[x]
BY DEF Save, Saves

LEMMA CallMoves ==
  ASSUME Shape, NEW c \in Calls,
         CallStep(c) \/ \E k \in Carts : SendCall(c, k)
  PROVE  Move
<1>t. /\ orders \in [Orders -> Row \cup {NoRow}]
      /\ carts \in [Carts -> SUBSET Products]
      /\ call \in [Calls -> CallRecord]
  BY TypeParts DEF Shape
<1>c. call[c] \in CallRecord /\ CallOK(call[c])
  BY <1>t DEF Shape, CallsHold
<1>u. UNCHANGED <<patch, notice, edit>>
  BY DEF CallStep, SendCall, FindExisting, FindNone, SaveExisting, ReplyExisting,
         ReadCart, InsertOrder, SaveItem, ReplyNew, FailCall
<1>o. \A d \in Calls : d # c => call'[d] = call[d]
  BY <1>t DEF CallStep, SendCall, FindExisting, FindNone, SaveExisting, ReplyExisting,
         ReadCart, InsertOrder, SaveItem, ReplyNew, FailCall
<1> DEFINE Kept == (\A o \in Orders : RowMove(o)) /\ CallMove(c)
<1>1. ASSUME NEW k \in Carts, SendCall(c, k) PROVE Kept
  <2>1. CallMove(c)
    BY <1>t, <1>c, <1>1 DEF SendCall, CallMove, CallRecord
  <2> QED
    BY <1>1, <2>1 DEF SendCall, RowMove
<1>2. ASSUME FindExisting(c) PROVE Kept
  <2>1. PICK o \in PendingOf(call[c].cart) :
          call' = [call EXCEPT ![c].pc = "reuse", ![c].order = o,
                               ![c].copy = orders[o]]
    BY <1>2 DEF FindExisting
  <2>2. call'[c].pc = "reuse" /\ call'[c].order = o /\ call'[c].copy = orders[o]
    BY <1>t, <1>c, <2>1 DEF CallRecord
  <2>3. CallMove(c)
    BY <1>2, <2>2 DEF FindExisting, PendingOf, CallMove
  <2> QED
    BY <1>2, <2>3 DEF FindExisting, RowMove
<1>3. ASSUME FindNone(c) PROVE Kept
  <2>1. CallMove(c)
    BY <1>t, <1>c, <1>3 DEF FindNone, CallMove, CallRecord
  <2> QED
    BY <1>3, <2>1 DEF FindNone, RowMove
<1>4. ASSUME SaveExisting(c) PROVE Kept
  <2>1. CallMove(c)
    BY <1>t, <1>c, <1>4 DEF SaveExisting, CallMove, CallRecord
  <2>2. \A o \in Orders : RowMove(o)
    <3>1. /\ RowReused(call[c].order, c)
          /\ \A o \in Orders : o # call[c].order => orders'[o] = orders[o]
      BY <1>t, <1>c, <1>4, SaveMove DEF SaveExisting, CallOK, RowReused
    <3> QED
      BY <3>1 DEF RowMove
  <2> QED
    BY <2>1, <2>2
<1>5. ASSUME ReplyExisting(c) PROVE Kept
  <2>1. CallMove(c)
    BY <1>t, <1>c, <1>5 DEF ReplyExisting, CallMove, CallRecord
  <2> QED
    BY <1>5, <2>1 DEF ReplyExisting, RowMove
<1>6. ASSUME ReadCart(c) PROVE Kept
  <2>1. CallMove(c)
    <3> DEFINE n == NewRow(call[c].cart, carts[call[c].cart])
    <3>1. call[c].cart \in Carts /\ carts[call[c].cart] \in SUBSET Products
      BY <1>t, <1>c, <1>6 DEF ReadCart, CallOK
    <3>2. CASE call' = [call EXCEPT ![c].pc = "failed"]
      BY <1>t, <1>c, <1>6, <3>2 DEF ReadCart, CallMove, CallRecord
    <3>3. CASE call' = [call EXCEPT ![c].pc = "draft", ![c].copy = n]
      <4>1. call'[c].pc = "draft" /\ call'[c].copy = n /\ call'[c].order = call[c].order
        BY <1>t, <1>c, <3>3 DEF CallRecord
      <4> QED
        BY <1>6, <3>1, <4>1 DEF ReadCart, CallMove
    <3> QED
      BY <1>6, <3>2, <3>3 DEF ReadCart
  <2> QED
    BY <1>6, <2>1 DEF ReadCart, RowMove
<1>7. ASSUME InsertOrder(c) PROVE Kept
  <2>1. PICK o \in Orders \ (Rows \cup Drawn) :
          /\ orders' = [orders EXCEPT ![o] = call[c].copy]
          /\ call' = [call EXCEPT ![c].pc = "items", ![c].order = o]
    BY <1>7 DEF InsertOrder
  <2>2. /\ orders'[o] = call[c].copy
        /\ \A x \in Orders : x # o => orders'[x] = orders[x]
        /\ call'[c].pc = "items" /\ call'[c].order = o
        /\ call'[c].copy = call[c].copy
        /\ call[c].pc = "draft"
    BY <1>t, <1>c, <1>7, <2>1 DEF InsertOrder, CallRecord
  <2>3. CallMove(c)
    BY <1>o, <2>1, <2>2 DEF CallMove
  <2>4. \A x \in Orders : RowMove(x)
    BY <2>1, <2>2 DEF RowMove, RowInserted
  <2> QED
    BY <2>3, <2>4
<1>8. ASSUME SaveItem(c) PROVE Kept
  <2>1. PICK p \in call[c].copy.lines \ call[c].copy.items :
          /\ orders' = [orders EXCEPT ![call[c].order].items = @ \cup {p}]
          /\ call' = [call EXCEPT
               ![c].copy.items = call[c].copy.items \cup {p},
               ![c].pc = IF call[c].copy.items \cup {p} = call[c].copy.lines
                           THEN "built" ELSE "items"]
    BY <1>8 DEF SaveItem
  <2>2. /\ call[c].order \in Orders /\ orders[call[c].order] \in Row
        /\ call[c].copy \in Row /\ p \in Products /\ call[c].pc = "items"
    BY <1>t, <1>c, <1>8, <2>1 DEF SaveItem, CallOK, Rows, Row
  <2> DEFINE y == [call[c].copy EXCEPT !.items = call[c].copy.items \cup {p}]
  <2>3. /\ y \in Row /\ y.items = call[c].copy.items \cup {p}
        /\ y.lines = call[c].copy.lines
    BY <2>2 DEF Row
  <2>4. /\ call'[c].copy = y /\ call'[c].order = call[c].order
        /\ call'[c].pc = IF y.items = y.lines THEN "built" ELSE "items"
    BY <1>t, <1>c, <2>1, <2>2, <2>3 DEF CallRecord, Row
  <2>5. /\ orders'[call[c].order] = [orders[call[c].order] EXCEPT !.items = @ \cup {p}]
        /\ \A x \in Orders : x # call[c].order => orders'[x] = orders[x]
    BY <1>t, <2>1, <2>2
  <2> HIDE DEF y
  <2>6. CallMove(c)
    BY <2>2, <2>3, <2>4, <2>5 DEF CallMove
  <2>7. \A x \in Orders : RowMove(x)
    <3>1. RowGains(call[c].order, c)
      BY <2>2, <2>3, <2>4, <2>5 DEF RowGains
    <3> QED
      BY <2>5, <3>1 DEF RowMove
  <2> QED
    BY <2>6, <2>7
<1>9. ASSUME ReplyNew(c) PROVE Kept
  <2>1. CallMove(c)
    BY <1>t, <1>c, <1>9 DEF ReplyNew, CallMove, CallRecord
  <2> QED
    BY <1>9, <2>1 DEF ReplyNew, RowMove
<1>10. ASSUME FailCall(c) PROVE Kept
  <2>1. CallMove(c)
    BY <1>t, <1>c, <1>10 DEF FailCall, CallMove, CallRecord
  <2> QED
    BY <1>10, <2>1 DEF FailCall, RowMove
<1>11. Kept
  BY <1>1, <1>2, <1>3, <1>4, <1>5, <1>6, <1>7, <1>8, <1>9, <1>10 DEF CallStep
<1> QED
  BY <1>11, <1>o, <1>u DEF Move, PatchMove, CallMove, NoticeMove, EditMove

LEMMA PatchMoves ==
  ASSUME Shape, NEW p \in Patches,
         \/ PatchStep(p)
         \/ \E o \in Orders, i \in Intents : MayAttach(o, i) /\ SendPatch(p, o, i)
  PROVE  Move
<1>t. orders \in [Orders -> Row \cup {NoRow}] /\ patch \in [Patches -> PatchRecord]
  BY TypeParts DEF Shape
<1>p. patch[p] \in PatchRecord /\ (patch[p].pc # "unsent" => patch[p].order \in Orders)
  BY <1>t DEF Shape, PatchesHold
<1>u. UNCHANGED <<call, notice, edit>>
  BY DEF PatchStep, SendPatch, AttachIntent, FailPatch
<1>o. \A q \in Patches : q # p => patch'[q] = patch[q]
  BY <1>t DEF PatchStep, SendPatch, AttachIntent, FailPatch
<1> DEFINE Kept == (\A o \in Orders : RowMove(o)) /\ PatchMove(p)
<1>1. ASSUME NEW o \in Orders, NEW i \in Intents, MayAttach(o, i), SendPatch(p, o, i)
      PROVE  Kept
  <2>1. PatchMove(p)
    BY <1>t, <1>o, <1>1 DEF SendPatch, MayAttach, PatchMove
  <2> QED
    BY <1>1, <2>1 DEF SendPatch, RowMove
<1>2. ASSUME AttachIntent(p) PROVE Kept
  <2>1. PatchMove(p)
    BY <1>t, <1>p, <1>2 DEF AttachIntent, PatchMove, PatchRecord
  <2>2. CASE patch[p].order \in Rows
    <3>1. orders[patch[p].order] \in Row
      BY <1>t, <2>2 DEF Rows
    <3>2. RowAttached(patch[p].order, p)
      BY <1>t, <1>p, <1>2, <2>2, <3>1 DEF AttachIntent, RowAttached, Row
    <3>3. \A o \in Orders : o # patch[p].order => orders'[o] = orders[o]
      BY <1>t, <1>2, <2>2 DEF AttachIntent
    <3> QED
      BY <2>1, <3>2, <3>3 DEF RowMove
  <2>3. CASE patch[p].order \notin Rows
    BY <1>2, <2>1, <2>3 DEF AttachIntent, RowMove
  <2> QED
    BY <2>2, <2>3
<1>3. ASSUME FailPatch(p) PROVE Kept
  <2>1. PatchMove(p)
    BY <1>t, <1>p, <1>3 DEF FailPatch, PatchMove, PatchRecord
  <2> QED
    BY <1>3, <2>1 DEF FailPatch, RowMove
<1>4. Kept
  BY <1>1, <1>2, <1>3 DEF PatchStep
<1> QED
  BY <1>4, <1>o, <1>u DEF Move, PatchMove, CallMove, NoticeMove, EditMove

LEMMA NoticeMoves ==
  ASSUME Shape, NEW n \in Notices,
         NoticeStep(n) \/ \E kind \in Kinds, i \in Intents : SendNotice(n, kind, i)
  PROVE  Move
<1>t. orders \in [Orders -> Row \cup {NoRow}] /\ notice \in [Notices -> NoticeRecord]
  BY TypeParts DEF Shape
<1>n. notice[n] \in NoticeRecord /\ NoticeOK(notice[n])
  BY <1>t DEF Shape, NoticesHold
<1>u. UNCHANGED <<call, patch, edit>>
  BY DEF NoticeStep, SendNotice, ReadNotice, SaveNotice, ClearPaidCart, FailNotice
<1>o. \A m \in Notices : m # n => notice'[m] = notice[m]
  BY <1>t DEF NoticeStep, SendNotice, ReadNotice, SaveNotice, ClearPaidCart, FailNotice
<1> DEFINE Kept == (\A o \in Orders : RowMove(o)) /\ NoticeMove(n)
<1>1. ASSUME NEW kind \in Kinds, NEW i \in Intents, SendNotice(n, kind, i) PROVE Kept
  <2>1. NoticeMove(n)
    BY <1>t, <1>n, <1>1 DEF SendNotice, NoticeMove, NoticeRecord
  <2> QED
    BY <1>1, <2>1 DEF SendNotice, RowMove
<1>2. ASSUME ReadNotice(n) PROVE Kept
  <2>1. NoticeMove(n)
    <3>1. CASE notice' = [notice EXCEPT ![n].pc = "dropped"]
      BY <1>t, <1>n, <1>2, <3>1 DEF ReadNotice, NoticeMove, NoticeRecord
    <3>2. CASE \E o \in WithIntent(notice[n].intent) :
                 notice' = [notice EXCEPT ![n].pc = "save", ![n].order = o,
                                          ![n].copy = orders[o]]
      <4>1. PICK o \in WithIntent(notice[n].intent) :
              notice' = [notice EXCEPT ![n].pc = "save", ![n].order = o,
                                       ![n].copy = orders[o]]
        BY <3>2
      <4>2. /\ notice'[n].pc = "save" /\ notice'[n].order = o
            /\ notice'[n].copy = orders[o] /\ notice'[n].intent = notice[n].intent
        BY <1>t, <1>n, <4>1 DEF NoticeRecord
      <4> QED
        BY <1>2, <4>2 DEF ReadNotice, WithIntent, NoticeMove
    <3> QED
      BY <1>2, <3>1, <3>2 DEF ReadNotice
  <2> QED
    BY <1>2, <2>1 DEF ReadNotice, RowMove
<1>3. ASSUME SaveNotice(n) PROVE Kept
  <2> DEFINE w == [notice[n].copy EXCEPT !.status = Verdict(notice[n].kind)]
  <2>1. NoticeMove(n)
    BY <1>t, <1>n, <1>3 DEF SaveNotice, NoticeMove, NoticeRecord
  <2>2. notice'[n].pc \in {"clear", "done"}
    BY <1>t, <1>n, <1>3 DEF SaveNotice, NoticeRecord
  <2>3. Verdict(notice[n].kind) \in Status
    BY <1>n DEF NoticeRecord, Kinds, Verdict, Status
  <2>4. w \in Row /\ notice[n].order \in Orders
    BY <1>n, <1>3, <2>3 DEF SaveNotice, NoticeOK, Row
  <2>5. /\ Saves(notice[n].order, w)
        /\ \A o \in Orders : o # notice[n].order => orders'[o] = orders[o]
    BY <1>t, <1>3, <2>4, SaveMove DEF SaveNotice
  <2>6. RowJudged(notice[n].order, n)
    BY <1>3, <2>2, <2>5 DEF SaveNotice, RowJudged
  <2> QED
    BY <2>1, <2>5, <2>6 DEF RowMove
<1>4. ASSUME ClearPaidCart(n) PROVE Kept
  <2>1. NoticeMove(n)
    BY <1>t, <1>n, <1>4 DEF ClearPaidCart, NoticeMove, NoticeRecord
  <2> QED
    BY <1>4, <2>1 DEF ClearPaidCart, RowMove
<1>5. ASSUME FailNotice(n) PROVE Kept
  <2>1. NoticeMove(n)
    BY <1>t, <1>n, <1>5 DEF FailNotice, NoticeMove, NoticeRecord
  <2> QED
    BY <1>5, <2>1 DEF FailNotice, RowMove
<1>6. Kept
  BY <1>1, <1>2, <1>3, <1>4, <1>5 DEF NoticeStep
<1> QED
  BY <1>6, <1>o, <1>u DEF Move, PatchMove, CallMove, NoticeMove, EditMove

LEMMA EditMoves ==
  ASSUME Shape, NEW e \in Edits,
         EditStep(e) \/ \E o \in Drawn, s \in Status : SendEdit(e, o, s)
  PROVE  Move
<1>t. orders \in [Orders -> Row \cup {NoRow}] /\ edit \in [Edits -> EditRecord]
  BY TypeParts DEF Shape
<1>e. edit[e] \in EditRecord /\ EditOK(edit[e])
  BY <1>t DEF Shape, EditsHold
<1>u. UNCHANGED <<call, patch, notice>>
  BY DEF EditStep, SendEdit, ReadEdit, SaveEdit, EditDies, FailEdit
<1>o. \A f \in Edits : f # e => edit'[f] = edit[f]
  BY <1>t DEF EditStep, SendEdit, ReadEdit, SaveEdit, EditDies, FailEdit
<1> DEFINE Kept == (\A o \in Orders : RowMove(o)) /\ EditMove(e)
<1>1. ASSUME NEW o \in Drawn, NEW s \in Status, SendEdit(e, o, s) PROVE Kept
  <2>1. EditMove(e)
    BY <1>t, <1>e, <1>1 DEF SendEdit, EditMove, EditRecord
  <2> QED
    BY <1>1, <2>1 DEF SendEdit, RowMove
<1>2. ASSUME ReadEdit(e) PROVE Kept
  <2>1. EditMove(e)
    BY <1>t, <1>e, <1>2 DEF ReadEdit, EditMove, EditRecord
  <2> QED
    BY <1>2, <2>1 DEF ReadEdit, RowMove
<1>3. ASSUME SaveEdit(e) PROVE Kept
  <2> DEFINE w == [edit[e].copy EXCEPT !.status = edit[e].target]
             m == edit[e].target = "shipped" /\ edit[e].copy.status # "shipped"
  <2>1. edit' = [edit EXCEPT ![e].pc = "done", ![e].mailed = m]
    BY <1>3 DEF SaveEdit
  <2> HIDE DEF m
  <2>2. /\ edit'[e].pc = "done" /\ edit'[e].mailed = m
        /\ edit'[e].order = edit[e].order /\ edit'[e].target = edit[e].target
    BY <1>t, <1>e, <2>1 DEF EditRecord
  <2>3. EditMove(e)
    BY <1>3, <2>2 DEF SaveEdit, EditMove, m
  <2>4. w \in Row /\ edit[e].order \in Orders
    BY <1>e, <1>3 DEF SaveEdit, EditOK, EditRecord, Row
  <2>5. /\ Saves(edit[e].order, w)
        /\ \A o \in Orders : o # edit[e].order => orders'[o] = orders[o]
    BY <1>t, <1>3, <2>4, SaveMove DEF SaveEdit
  <2>6. RowEdited(edit[e].order, e)
    BY <1>3, <2>2, <2>5 DEF SaveEdit, RowEdited
  <2> QED
    BY <2>3, <2>5, <2>6 DEF RowMove
<1>d. ASSUME EditDies(e) PROVE Kept
  <2> DEFINE w == [edit[e].copy EXCEPT !.status = edit[e].target]
  <2>1. edit' = [edit EXCEPT ![e].pc = "dead"]
    BY <1>d DEF EditDies
  <2>2. /\ edit'[e].pc = "dead" /\ edit'[e].mailed = edit[e].mailed
        /\ edit'[e].order = edit[e].order /\ edit'[e].target = edit[e].target
    BY <1>t, <1>e, <2>1 DEF EditRecord
  <2>3. EditMove(e)
    BY <1>d, <2>2 DEF EditDies, EditMove
  <2>4. w \in Row /\ edit[e].order \in Orders
    BY <1>e, <1>d DEF EditDies, EditOK, EditRecord, Row
  <2>5. /\ Saves(edit[e].order, w)
        /\ \A o \in Orders : o # edit[e].order => orders'[o] = orders[o]
    BY <1>t, <1>d, <2>4, SaveMove DEF EditDies
  <2>6. RowEdited(edit[e].order, e)
    BY <1>d, <2>2, <2>5 DEF EditDies, RowEdited
  <2> QED
    BY <2>3, <2>5, <2>6 DEF RowMove
<1>4. ASSUME FailEdit(e) PROVE Kept
  <2>1. EditMove(e)
    BY <1>t, <1>e, <1>4 DEF FailEdit, EditMove, EditRecord
  <2> QED
    BY <1>4, <2>1 DEF FailEdit, RowMove
<1>5. Kept
  BY <1>1, <1>2, <1>3, <1>d, <1>4 DEF EditStep
<1> QED
  BY <1>5, <1>o, <1>u DEF Move, PatchMove, CallMove, NoticeMove, EditMove

LEMMA TableMoves ==
  ASSUME Shape,
         \/ \E o \in Orders : GoIdle(o)
         \/ CleanupPending
         \/ \E k \in Carts, p \in Products : AddToCart(k, p)
         \/ UNCHANGED orderVars
  PROVE  Move
<1>t. orders \in [Orders -> Row \cup {NoRow}]
  BY TypeParts DEF Shape
<1>u. UNCHANGED <<call, patch, notice, edit>>
  BY DEF GoIdle, CleanupPending, AddToCart, orderVars
<1>1. ASSUME NEW o \in Orders, GoIdle(o) PROVE \A x \in Orders : RowMove(x)
  <2>1. orders[o] \in Row
    BY <1>t, <1>1 DEF GoIdle, Rows
  <2>2. RowAges(o) /\ \A x \in Orders : x # o => orders'[x] = orders[x]
    BY <1>t, <1>1, <2>1 DEF GoIdle, RowAges, Creating
  <2> QED
    BY <2>2 DEF RowMove
<1>2. ASSUME CleanupPending PROVE \A x \in Orders : RowMove(x)
  BY <1>2 DEF CleanupPending, RowMove
<1>3. ASSUME UNCHANGED orders PROVE \A x \in Orders : RowMove(x)
  BY <1>3 DEF RowMove
<1>4. \A x \in Orders : RowMove(x)
  BY <1>1, <1>2, <1>3 DEF AddToCart, orderVars
<1> QED
  BY <1>4, <1>u DEF Move, PatchMove, CallMove, NoticeMove, EditMove

(* Every step of the system is such a move.                                 *)
LEMMA Moves == Shape /\ [OrderNext]_orderVars => Move
<1> SUFFICES ASSUME Shape, [OrderNext]_orderVars PROVE Move
  OBVIOUS
<1>1. CASE Ask
  BY <1>1, CallMoves, PatchMoves, NoticeMoves, EditMoves, TableMoves DEF Ask
<1>2. CASE OrderStep
  BY <1>2, CallMoves, PatchMoves, NoticeMoves, EditMoves, TableMoves DEF OrderStep
<1>3. CASE UNCHANGED orderVars
  BY <1>3, TableMoves
<1> QED
  BY <1>1, <1>2, <1>3 DEF OrderNext

LEMMA SavesFields ==
  ASSUME NEW o \in Orders, NEW r \in Row, Saves(o, r)
  PROVE  /\ orders'[o] \in Row
         /\ orders'[o].status = r.status /\ orders'[o].intent = r.intent
         /\ orders'[o].items = r.items   /\ (orders'[o].idle => r.idle)
         /\ orders[o] # NoRow => orders[o].items \subseteq r.items
<1>1. PICK i \in {r.idle, FALSE} : orders'[o] = [r EXCEPT !.idle = i]
  BY DEF Saves
<1> QED
  BY <1>1 DEF Saves, CanSave, Row

(* The status and the intent a row gets are the ones it had, or those of    *)
(* the copy and the verdict that are written.                               *)
StatusKept(o) == o \in Rows /\ orders'[o].status = orders[o].status

IntentKept(o) ==
  \/ orders'[o].intent = orders[o].intent
  \/ \E p \in Patches : patch[p].pc = "sent" /\ patch[p].order = o
                        /\ orders'[o].intent = patch[p].intent

WrittenByCall(o, c) ==
  /\ \/ call[c].pc = "draft" /\ o \notin Rows
     \/ call[c].pc = "reuse" /\ call[c].order = o
  /\ orders'[o].status = call[c].copy.status
  /\ orders'[o].intent = call[c].copy.intent

WrittenByNotice(o, n) ==
  /\ notice[n].pc = "save" /\ notice[n].order = o
  /\ notice'[n].pc \in {"clear", "done"}
  /\ orders'[o].status = Verdict(notice[n].kind)
  /\ orders'[o].intent = notice[n].copy.intent

WrittenByEdit(o, e) ==
  /\ edit[e].pc = "save" /\ edit[e].order = o /\ edit'[e].pc \in {"done", "dead"}
  /\ orders'[o].status = edit[e].target
  /\ orders'[o].intent = edit[e].copy.intent

LEMMA RowFields ==
  ASSUME Shape, Move, NEW o \in Orders, orders'[o] # NoRow
  PROVE  \/ StatusKept(o) /\ IntentKept(o)
         \/ \E c \in Calls   : WrittenByCall(o, c)
         \/ \E n \in Notices : WrittenByNotice(o, n)
         \/ \E e \in Edits   : WrittenByEdit(o, e)
<1>t. /\ orders \in [Orders -> Row \cup {NoRow}] /\ call \in [Calls -> CallRecord]
      /\ notice \in [Notices -> NoticeRecord] /\ edit \in [Edits -> EditRecord]
      /\ CallsHold /\ NoticesHold /\ EditsHold
  BY TypeParts DEF Shape
<1>r. orders[o] \in Row => o \in Rows
  BY NoRowAssumption DEF Rows
<1>1. CASE orders'[o] = orders[o]
  BY <1>1 DEF Rows, StatusKept, IntentKept
<1>2. CASE RowAges(o)
  BY <1>r, <1>2 DEF RowAges, Row, StatusKept, IntentKept
<1>3. CASE \E c \in Calls : RowGains(o, c)
  BY <1>r, <1>3 DEF RowGains, Row, StatusKept, IntentKept
<1>4. CASE \E c \in Calls : RowInserted(o, c)
  BY <1>4 DEF RowInserted, WrittenByCall
<1>5. CASE \E c \in Calls : RowReused(o, c)
  BY <1>t, <1>5, SavesFields DEF RowReused, CallsHold, CallOK, WrittenByCall
<1>6. CASE \E p \in Patches : RowAttached(o, p)
  BY <1>r, <1>6 DEF RowAttached, Row, StatusKept, IntentKept
<1>7. CASE \E n \in Notices : RowJudged(o, n)
  <2>1. PICK n \in Notices : RowJudged(o, n)
    BY <1>7
  <2> DEFINE w == [notice[n].copy EXCEPT !.status = Verdict(notice[n].kind)]
  <2>2. notice[n].copy \in Row /\ Verdict(notice[n].kind) \in Status
    BY <1>t, <2>1 DEF RowJudged, NoticesHold, NoticeOK, NoticeRecord, Kinds, Verdict, Status
  <2>3. /\ w \in Row /\ w.status = Verdict(notice[n].kind)
        /\ w.intent = notice[n].copy.intent
    BY <2>2 DEF Row
  <2>4. orders'[o].status = w.status /\ orders'[o].intent = w.intent
    BY <2>1, <2>3, SavesFields DEF RowJudged
  <2> QED
    BY <2>1, <2>3, <2>4 DEF RowJudged, WrittenByNotice
<1>8. CASE \E e \in Edits : RowEdited(o, e)
  <2>1. PICK e \in Edits : RowEdited(o, e)
    BY <1>8
  <2> DEFINE w == [edit[e].copy EXCEPT !.status = edit[e].target]
  <2>2. edit[e].copy \in Row /\ edit[e].target \in Status
    BY <1>t, <2>1 DEF RowEdited, EditsHold, EditOK, EditRecord
  <2>3. w \in Row /\ w.status = edit[e].target /\ w.intent = edit[e].copy.intent
    BY <2>2 DEF Row
  <2>4. orders'[o].status = w.status /\ orders'[o].intent = w.intent
    BY <2>1, <2>3, SavesFields DEF RowEdited
  <2> QED
    BY <2>1, <2>3, <2>4 DEF RowEdited, WrittenByEdit
<1> QED
  BY <1>1, <1>2, <1>3, <1>4, <1>5, <1>6, <1>7, <1>8 DEF Move, RowMove

-----------------------------------------------------------------------------
(* Intents.                                                                 *)

(* MintedFor in the next state.                                             *)
MintedNext(o, i) ==
  i = NoIntent \/ \E p \in Patches : patch'[p].order = o /\ patch'[p].intent = i

LEMMA MintedStays ==
  ASSUME Origins, Move, NEW o, NEW i, MintedFor(o, i)
  PROVE  MintedNext(o, i)
BY DEF Origins, Move, PatchMove, MintedFor, MintedNext

LEMMA OriginsInit == OrderInit => Origins
BY DEF OrderInit, Origins, Rows

LEMMA OriginsStep ==
  ASSUME Shape, Origins, Move
  PROVE  Origins'
<1>s. \A o, i : MintedFor(o, i) => MintedNext(o, i)
  BY MintedStays
<1>1. /\ \A p \in Patches : patch'[p].pc = "unsent" => patch'[p].intent = NoIntent
      /\ \A p, q \in Patches :
           patch'[p].intent = patch'[q].intent /\ patch'[p].intent # NoIntent => p = q
  BY DEF Origins, Move, PatchMove
<1>2. ASSUME NEW o \in Orders, orders'[o] # NoRow PROVE MintedNext(o, orders'[o].intent)
  <2>1. CASE StatusKept(o) /\ IntentKept(o)
    <3>1. MintedFor(o, orders'[o].intent)
      BY <2>1 DEF StatusKept, IntentKept, Origins, MintedFor
    <3> QED
      BY <1>s, <3>1
  <2>2. CASE \E c \in Calls : WrittenByCall(o, c)
    BY <1>s, <2>2 DEF Origins, MintedFor, WrittenByCall
  <2>3. CASE \E n \in Notices : WrittenByNotice(o, n)
    BY <1>s, <2>3 DEF Origins, WrittenByNotice
  <2>4. CASE \E e \in Edits : WrittenByEdit(o, e)
    BY <1>s, <2>4 DEF Origins, WrittenByEdit
  <2> QED
    BY <1>2, <2>1, <2>2, <2>3, <2>4, RowFields
<1>3. ASSUME NEW c \in Calls
      PROVE  /\ call'[c].pc = "reuse" => MintedNext(call'[c].order, call'[c].copy.intent)
             /\ call'[c].pc = "draft" => call'[c].copy.intent = NoIntent
  <2>0. /\ call[c].pc = "reuse" => MintedFor(call[c].order, call[c].copy.intent)
        /\ call[c].pc = "draft" => call[c].copy.intent = NoIntent
        /\ \A o \in Rows : MintedFor(o, orders[o].intent)
    BY DEF Origins
  <2>1. CASE call'[c] = call[c]
    BY <1>s, <2>0, <2>1
  <2>2. CASE call'[c] # call[c]
    <3>1. CallMove(c)
      BY DEF Move
    <3>2. call'[c].pc = "draft" => call'[c].copy.intent = NoIntent
      <4> SUFFICES ASSUME call'[c].pc = "draft" PROVE call'[c].copy.intent = NoIntent
        OBVIOUS
      <4>1. \E k \in Carts, ps \in SUBSET Products : call'[c].copy = NewRow(k, ps)
        BY <2>2, <3>1 DEF CallMove
      <4> QED
        BY <4>1 DEF NewRow
    <3>3. call'[c].pc = "reuse" => call'[c].order \in Rows
                                   /\ call'[c].copy = orders[call'[c].order]
      BY <2>2, <3>1 DEF CallMove
    <3> QED
      BY <1>s, <2>0, <3>2, <3>3
  <2> QED
    BY <2>1, <2>2
<1>4. ASSUME NEW n \in Notices, notice'[n].pc = "save"
      PROVE  MintedNext(notice'[n].order, notice'[n].copy.intent)
  <2>1. \/ notice'[n] = notice[n]
        \/ notice'[n].order \in Rows /\ notice'[n].copy = orders[notice'[n].order]
    BY <1>4 DEF Move, NoticeMove
  <2> QED
    BY <1>s, <1>4, <2>1 DEF Origins
<1>5. ASSUME NEW e \in Edits, edit'[e].pc = "save"
      PROVE  MintedNext(edit'[e].order, edit'[e].copy.intent)
  <2>1. \/ edit'[e] = edit[e]
        \/ edit'[e].order \in Rows /\ edit'[e].copy = orders[edit'[e].order]
    BY <1>5 DEF Move, EditMove
  <2> QED
    BY <1>s, <1>5, <2>1 DEF Origins
<1> QED
  BY <1>1, <1>2, <1>3, <1>4, <1>5 DEF Origins, Rows, MintedFor, MintedNext

(* No two rows carry the same PaymentIntent, however many stale copies the  *)
(* handlers of updateStripePaymentIntentId, handlePayment* and              *)
(* adminUpdateOrderStatus write back: getOrderByPaymentIntent, which takes  *)
(* the first row it finds, never has a choice.                              *)
THEOREM IntentsNameOneOrder == OrderSpec => []IntentNamesOneOrder
<1>1. Origins => IntentNamesOneOrder
  BY DEF Origins, MintedFor, IntentNamesOneOrder
<1>2. Shape /\ Origins /\ [OrderNext]_orderVars => (Shape /\ Origins)'
  BY ShapeStep, Moves, OriginsStep
<1>3. OrderInit => Shape /\ Origins
  BY ShapeInit, OriginsInit
<1> QED
  BY <1>1, <1>2, <1>3, PTL DEF OrderSpec

-----------------------------------------------------------------------------
(* Statuses.                                                                *)

(* The intent of notice n was minted for order o; Judged and EditedTo in    *)
(* the next state.                                                          *)
NoticeOf(o, n) ==
  \E p \in Patches : patch[p].order = o /\ patch[p].intent = notice[n].intent

NoticeOfNext(o, n) ==
  \E p \in Patches : patch'[p].order = o /\ patch'[p].intent = notice'[n].intent

JudgedNext(o, s) ==
  \E n \in Notices :
    /\ notice'[n].pc \in {"clear", "done"}
    /\ notice'[n].order = o /\ Verdict(notice'[n].kind) = s
    /\ NoticeOfNext(o, n)

EditedNext(o, s) ==
  \E e \in Edits : /\ edit'[e].pc \in {"done", "dead"}
                    /\ edit'[e].order = o /\ edit'[e].target = s

LEMMA NoticeOfStays ==
  ASSUME Shape, Origins, Move, NEW o, NEW n \in Notices,
         notice[n].pc # "unsent", notice'[n].intent = notice[n].intent,
         NoticeOf(o, n)
  PROVE  NoticeOfNext(o, n)
<1>1. notice[n].intent # NoIntent
  BY NoIntentAssumption DEF Shape, NoticesHold, NoticeOK
<1> QED
  BY <1>1 DEF Origins, Move, PatchMove, NoticeOf, NoticeOfNext

LEMMA CauseStays ==
  ASSUME Shape, Origins, Move, NEW o, NEW s
  PROVE  /\ Judged(o, s) => JudgedNext(o, s)
         /\ EditedTo(o, s) => EditedNext(o, s)
<1>1. ASSUME Judged(o, s) PROVE JudgedNext(o, s)
  <2>1. PICK n \in Notices : /\ notice[n].pc \in {"clear", "done"}
                             /\ notice[n].order = o /\ Verdict(notice[n].kind) = s
                             /\ NoticeOf(o, n)
    BY <1>1 DEF Judged, NoticeOf
  <2>2. /\ notice'[n].pc \in {"clear", "done"}
        /\ notice'[n].order = o /\ notice'[n].kind = notice[n].kind
        /\ notice'[n].intent = notice[n].intent
    BY <2>1 DEF Move, NoticeMove
  <2>3. NoticeOfNext(o, n)
    BY <2>1, <2>2, NoticeOfStays
  <2> QED
    BY <2>1, <2>2, <2>3 DEF JudgedNext
<1>2. ASSUME EditedTo(o, s) PROVE EditedNext(o, s)
  BY <1>2 DEF EditedTo, EditedNext, Move, EditMove
<1> QED
  BY <1>1, <1>2

LEMMA CausesInit == OrderInit => Causes
BY DEF OrderInit, Causes, StatusHasCause, Rows

LEMMA CausesStep ==
  ASSUME Shape, Origins, Causes, Move
  PROVE  Causes'
<1>1. ASSUME NEW o \in Orders, orders'[o] # NoRow, orders'[o].status # "pending"
      PROVE  JudgedNext(o, orders'[o].status) \/ EditedNext(o, orders'[o].status)
  <2>1. CASE StatusKept(o)
    <3>1. Judged(o, orders'[o].status) \/ EditedTo(o, orders'[o].status)
      BY <1>1, <2>1 DEF StatusKept, Causes, StatusHasCause
    <3> QED
      BY <3>1, CauseStays
  <2>2. CASE \E c \in Calls : WrittenByCall(o, c)
    BY <1>1, <2>2 DEF WrittenByCall, Causes
  <2>3. CASE \E n \in Notices : WrittenByNotice(o, n)
    <3>1. PICK n \in Notices : WrittenByNotice(o, n)
      BY <2>3
    <3>2. /\ notice'[n].order = o /\ notice'[n].kind = notice[n].kind
          /\ notice'[n].intent = notice[n].intent
      BY <3>1 DEF WrittenByNotice, Move, NoticeMove
    <3>3. NoticeOfNext(o, n)
      BY <3>1, <3>2, NoticeOfStays DEF WrittenByNotice, Causes, NoticeOf
    <3> QED
      BY <3>1, <3>2, <3>3 DEF WrittenByNotice, JudgedNext
  <2>4. CASE \E e \in Edits : WrittenByEdit(o, e)
    BY <2>4 DEF WrittenByEdit, EditedNext, Move, EditMove
  <2> QED
    BY <1>1, <2>1, <2>2, <2>3, <2>4, RowFields
<1>2. ASSUME NEW c \in Calls, call'[c].pc \in {"reuse", "draft"}
      PROVE  call'[c].copy.status = "pending"
  <2>1. CASE call'[c] = call[c]
    BY <1>2, <2>1 DEF Causes
  <2>2. CASE call'[c] # call[c]
    <3>1. \/ call'[c].copy.status = "pending"
          \/ \E k \in Carts, ps \in SUBSET Products : call'[c].copy = NewRow(k, ps)
      BY <1>2, <2>2 DEF Move, CallMove
    <3>2. ASSUME NEW k \in Carts, NEW ps \in SUBSET Products
          PROVE  NewRow(k, ps).status = "pending"
      BY DEF NewRow
    <3> QED
      BY <3>1, <3>2
  <2> QED
    BY <2>1, <2>2
<1>3. ASSUME NEW n \in Notices, notice'[n].pc \in {"save", "clear", "done"}
      PROVE  NoticeOfNext(notice'[n].order, n)
  <2>1. CASE notice[n].pc \in {"save", "clear", "done"}
    <3>1. notice'[n].order = notice[n].order /\ notice'[n].intent = notice[n].intent
      BY <1>3, <2>1 DEF Move, NoticeMove
    <3>2. NoticeOf(notice[n].order, n)
      BY <2>1 DEF Causes, NoticeOf
    <3> QED
      BY <2>1, <3>1, <3>2, NoticeOfStays
  <2>2. CASE notice[n].pc \notin {"save", "clear", "done"}
    <3>1. /\ notice[n].pc = "sent" /\ notice'[n].intent = notice[n].intent
          /\ notice'[n].order \in Rows
          /\ orders[notice'[n].order].intent = notice[n].intent
      BY <1>3, <2>2 DEF Move, NoticeMove
    <3>2. notice[n].intent # NoIntent
      BY <3>1, NoIntentAssumption DEF Shape, NoticesHold, NoticeOK
    <3>3. NoticeOf(notice'[n].order, n)
      BY <3>1, <3>2 DEF Origins, MintedFor, NoticeOf
    <3> QED
      BY <3>1, <3>3, NoticeOfStays
  <2> QED
    BY <2>1, <2>2
<1> QED
  BY <1>1, <1>2, <1>3
     DEF Causes, StatusHasCause, Judged, EditedTo, JudgedNext, EditedNext,
         NoticeOfNext, Rows

(* A row past "pending" got its status from a verdict on one of its own     *)
(* intents or from an administrator, although handlePayment* and            *)
(* adminUpdateOrderStatus save whole copies read before an await: a stale   *)
(* copy never brings back a status nobody decided.                          *)
THEOREM StatusesHaveCauses == OrderSpec => []StatusHasCause
<1>1. Causes => StatusHasCause
  BY DEF Causes
<1>2. Shape /\ Origins /\ Causes /\ [OrderNext]_orderVars => (Shape /\ Origins /\ Causes)'
  BY ShapeStep, Moves, OriginsStep, CausesStep
<1>3. OrderInit => Shape /\ Origins /\ Causes
  BY ShapeInit, OriginsInit, CausesInit
<1> QED
  BY <1>1, <1>2, <1>3, PTL DEF OrderSpec

(* A row past "pending" is never deleted, and is set back to "pending" only *)
(* by createOrderFromCart saving the copy it read before, or by an edit:    *)
(* the hourly cron's DELETE and the verdict handlers never do it.           *)
THEOREM VerdictsAreKept == OrderSpec => OnlyStaleReuseUndoesVerdict
<1> DEFINE Kept ==
      \A o \in Rows : orders[o].status # "pending" =>
        /\ orders'[o] # NoRow
        /\ orders'[o].status = "pending" =>
             \/ \E c \in Calls : call[c].pc = "reuse" /\ call[c].order = o
             \/ \E e \in Edits : edit[e].order = o /\ edit[e].target = "pending"
<1>1. ASSUME Shape, Move PROVE Kept
  <2> SUFFICES ASSUME NEW o \in Rows, orders[o].status # "pending"
               PROVE  /\ orders'[o] # NoRow
                      /\ orders'[o].status = "pending" =>
                           \/ \E c \in Calls : call[c].pc = "reuse" /\ call[c].order = o
                           \/ \E e \in Edits :
                                edit[e].order = o /\ edit[e].target = "pending"
    OBVIOUS
  <2>1. o \in Orders /\ orders[o] # NoRow
    BY DEF Rows
  <2>2. orders'[o] # NoRow
    <3>t. /\ call \in [Calls -> CallRecord] /\ notice \in [Notices -> NoticeRecord]
          /\ edit \in [Edits -> EditRecord]
          /\ CallsHold /\ NoticesHold /\ EditsHold
      BY <1>1, TypeParts DEF Shape
    <3>1. CASE orders'[o] = orders[o]
      BY <2>1, <3>1
    <3>2. CASE Expired(o)
      BY <3>2 DEF Expired
    <3>3. CASE RowAges(o)
      BY <3>3, NoRowAssumption DEF RowAges, Row
    <3>4. CASE \E c \in Calls : RowGains(o, c)
      BY <3>4, NoRowAssumption DEF RowGains, Row
    <3>5. CASE \E c \in Calls : RowInserted(o, c)
      BY <3>5 DEF RowInserted
    <3>6. CASE \E c \in Calls : RowReused(o, c)
      BY <2>1, <3>t, <3>6, SavesFields, NoRowAssumption DEF RowReused, CallsHold, CallOK
    <3>7. CASE \E p \in Patches : RowAttached(o, p)
      <4>1. PICK p \in Patches : RowAttached(o, p)
        BY <3>7
      <4>2. patch[p].intent \in Intents
        BY <1>1, <4>1 DEF RowAttached, Shape, PatchesHold
      <4>3. [orders[o] EXCEPT !.intent = patch[p].intent, !.idle = FALSE] \in Row
        BY <4>1, <4>2 DEF RowAttached, Row
      <4> QED
        BY <4>1, <4>3, NoRowAssumption DEF RowAttached
    <3>8. CASE \E n \in Notices : RowJudged(o, n)
      <4>1. PICK n \in Notices : RowJudged(o, n)
        BY <3>8
      <4>2. notice[n].copy \in Row /\ Verdict(notice[n].kind) \in Status
        BY <3>t, <4>1
           DEF RowJudged, NoticesHold, NoticeOK, NoticeRecord, Kinds, Verdict, Status
      <4>3. [notice[n].copy EXCEPT !.status = Verdict(notice[n].kind)] \in Row
        BY <4>2 DEF Row
      <4> QED
        BY <2>1, <4>1, <4>3, SavesFields, NoRowAssumption DEF RowJudged
    <3>9. CASE \E e \in Edits : RowEdited(o, e)
      <4>1. PICK e \in Edits : RowEdited(o, e)
        BY <3>9
      <4>2. edit[e].copy \in Row /\ edit[e].target \in Status
        BY <3>t, <4>1 DEF RowEdited, EditsHold, EditOK, EditRecord
      <4>3. [edit[e].copy EXCEPT !.status = edit[e].target] \in Row
        BY <4>2 DEF Row
      <4> QED
        BY <2>1, <4>1, <4>3, SavesFields, NoRowAssumption DEF RowEdited
    <3> QED
      BY <1>1, <2>1, <3>1, <3>2, <3>3, <3>4, <3>5, <3>6, <3>7, <3>8, <3>9
         DEF Move, RowMove
  <2>3. ASSUME orders'[o].status = "pending"
        PROVE  \/ \E c \in Calls : call[c].pc = "reuse" /\ call[c].order = o
               \/ \E e \in Edits : edit[e].order = o /\ edit[e].target = "pending"
    <3>1. ~StatusKept(o)
      BY <2>3 DEF StatusKept
    <3>2. ASSUME NEW c \in Calls, WrittenByCall(o, c)
          PROVE  call[c].pc = "reuse" /\ call[c].order = o
      BY <3>2 DEF WrittenByCall
    <3>3. ASSUME NEW n \in Notices, WrittenByNotice(o, n) PROVE FALSE
      <4>1. notice[n].kind \in Kinds
        BY <1>1, TypeParts DEF Shape, NoticeRecord
      <4> QED
        BY <2>3, <3>3, <4>1 DEF WrittenByNotice, Verdict, Kinds
    <3>4. ASSUME NEW e \in Edits, WrittenByEdit(o, e)
          PROVE  edit[e].order = o /\ edit[e].target = "pending"
      BY <2>3, <3>4 DEF WrittenByEdit
    <3> QED
      BY <1>1, <2>1, <2>2, <3>1, <3>2, <3>3, <3>4, RowFields
  <2> QED
    BY <2>2, <2>3
<1>2. Shape /\ [OrderNext]_orderVars => Shape' /\ [Kept]_orderVars
  BY <1>1, ShapeStep, Moves
<1> QED
  BY <1>2, ShapeInit, PTL DEF OrderSpec, OnlyStaleReuseUndoesVerdict

-----------------------------------------------------------------------------
(* Shipping mails.                                                          *)

MailedNext(o) ==
  \E e \in Edits : /\ (edit'[e].mailed \/ edit'[e].pc = "dead")
                    /\ edit'[e].order = o /\ edit'[e].target = "shipped"

LEMMA MailedStays ==
  ASSUME Mails, Move, NEW o, MailedFor(o)
  PROVE  MailedNext(o)
BY DEF Mails, Move, EditMove, MailedFor, MailedNext

LEMMA MailsInit == OrderInit => Mails
BY DEF OrderInit, Mails, ShippedIsMailed, Rows

LEMMA MailsStep ==
  ASSUME Shape, Causes, Mails, Move
  PROVE  Mails'
<1>1. ASSUME NEW o \in Orders, orders'[o] # NoRow, orders'[o].status = "shipped"
      PROVE  MailedNext(o)
  <2>1. CASE StatusKept(o)
    <3>1. MailedFor(o)
      BY <1>1, <2>1 DEF StatusKept, Mails, ShippedIsMailed, MailedFor
    <3> QED
      BY <3>1, MailedStays
  <2>2. ASSUME NEW c \in Calls, WrittenByCall(o, c) PROVE FALSE
    BY <1>1, <2>2 DEF WrittenByCall, Causes
  <2>3. ASSUME NEW n \in Notices, WrittenByNotice(o, n) PROVE FALSE
    <3>1. notice[n].kind \in Kinds
      BY TypeParts DEF Shape, NoticeRecord
    <3> QED
      BY <1>1, <2>3, <3>1 DEF WrittenByNotice, Verdict, Kinds
  <2>4. ASSUME NEW e \in Edits, WrittenByEdit(o, e) PROVE MailedNext(o)
    <3>1. /\ edit[e].pc = "save" /\ edit[e].order = o /\ edit[e].target = "shipped"
          /\ edit'[e].pc \in {"done", "dead"}
      BY <1>1, <2>4 DEF WrittenByEdit
    <3>2. /\ edit'[e].order = o /\ edit'[e].target = "shipped"
          /\ \/ edit'[e].mailed <=> edit[e].copy.status # "shipped"
             \/ edit'[e].pc = "dead"
      BY <3>1 DEF Move, EditMove
    <3>3. CASE edit[e].copy.status = "shipped"
      <4>1. MailedFor(o)
        BY <3>1, <3>3 DEF Mails
      <4> QED
        BY <4>1, MailedStays
    <3>4. CASE edit[e].copy.status # "shipped"
      BY <3>2, <3>4 DEF MailedNext
    <3> QED
      BY <3>3, <3>4
  <2> QED
    BY <1>1, <2>1, <2>2, <2>3, <2>4, RowFields
<1>2. ASSUME NEW e \in Edits, edit'[e].mailed
      PROVE  edit'[e].pc = "done" /\ edit'[e].target = "shipped"
  BY <1>2 DEF Mails, Move, EditMove
<1>3. ASSUME NEW e \in Edits, edit'[e].pc = "save", edit'[e].copy.status = "shipped"
      PROVE  MailedNext(edit'[e].order)
  <2>1. CASE edit'[e] = edit[e]
    <3>1. MailedFor(edit[e].order)
      BY <1>3, <2>1 DEF Mails
    <3> QED
      BY <2>1, <3>1, MailedStays
  <2>2. CASE edit'[e] # edit[e]
    <3>1. edit'[e].order \in Rows /\ orders[edit'[e].order].status = "shipped"
      BY <1>3, <2>2 DEF Move, EditMove
    <3>2. MailedFor(edit'[e].order)
      BY <3>1 DEF Mails, ShippedIsMailed, MailedFor
    <3> QED
      BY <3>2, MailedStays
  <2> QED
    BY <2>1, <2>2
<1> QED
  BY <1>1, <1>2, <1>3 DEF Mails, ShippedIsMailed, MailedFor, MailedNext, Rows

(* No order is shipped without ORDER.SHIPPED: adminUpdateOrderStatus decides*)
(* on the status it read, and an edit that read "shipped" leaves the mail to*)
(* the edit that put it there, which has sent it unless it died before.     *)
THEOREM ShippedOrdersAreMailed == OrderSpec => []ShippedIsMailed
<1>1. Mails => ShippedIsMailed
  BY DEF Mails
<1>2. /\ Shape /\ Origins /\ Causes /\ Mails /\ [OrderNext]_orderVars
      => (Shape /\ Origins /\ Causes /\ Mails)'
  BY ShapeStep, Moves, OriginsStep, CausesStep, MailsStep
<1>3. OrderInit => Shape /\ Origins /\ Causes /\ Mails
  BY ShapeInit, OriginsInit, CausesInit, MailsInit
<1> QED
  BY <1>1, <1>2, <1>3, PTL DEF OrderSpec

-----------------------------------------------------------------------------
(* Orders under construction.                                               *)

(* What a save of a younger copy leaves of a row under construction.        *)
LEMMA SaveOfYounger ==
  ASSUME NEW o \in Orders, NEW r \in Row, Saves(o, r), NEW c,
         orders[o] # NoRow, orders[o].items = call[c].copy.items, Younger(r, c)
  PROVE  orders'[o] \in Row /\ ~orders'[o].idle /\ orders'[o].items = call[c].copy.items
<1>1. /\ orders'[o] \in Row /\ orders'[o].items = r.items /\ (orders'[o].idle => r.idle)
      /\ orders[o].items \subseteq r.items
  BY SavesFields
<1>2. ~orders'[o].idle
  BY <1>1 DEF Younger
<1>3. r.items \subseteq call[c].copy.items
  BY DEF Younger
<1>4. r.items = call[c].copy.items
  BY <1>1, <1>3
<1> QED
  BY <1>1, <1>2, <1>4

LEMMA OrderStays ==
  ASSUME Creators, Move, NEW c \in Calls, call[c].order # NoOrder
  PROVE  call'[c].order = call[c].order
BY DEF Creators, Move, CallMove

(* The row of an order under construction, after a step of anyone else.     *)
LEMMA RowUnderConstruction ==
  ASSUME Shape, Creators, Move, NEW c \in Calls, Creating(c), call'[c] = call[c]
  PROVE  /\ orders'[call[c].order] \in Row
         /\ ~orders'[call[c].order].idle
         /\ orders'[call[c].order].items = call'[c].copy.items
<1> DEFINE o == call[c].order
           Kept == orders'[o] \in Row /\ ~orders'[o].idle
                     /\ orders'[o].items = call[c].copy.items
<1>t. /\ orders \in [Orders -> Row \cup {NoRow}]
      /\ notice \in [Notices -> NoticeRecord] /\ edit \in [Edits -> EditRecord]
      /\ CallsHold /\ PatchesHold /\ NoticesHold /\ EditsHold
  BY TypeParts DEF Shape
<1>c. /\ o \in Rows /\ ~orders[o].idle /\ orders[o].items = call[c].copy.items
      /\ \A d \in Calls : d # c /\ call[d].order = o =>
           ~Creating(d) /\ (call[d].pc = "reuse" => Younger(call[d].copy, c))
      /\ \A n \in Notices : notice[n].pc = "save" /\ notice[n].order = o =>
           Younger(notice[n].copy, c)
      /\ \A e \in Edits : edit[e].pc = "save" /\ edit[e].order = o =>
           Younger(edit[e].copy, c)
  BY DEF Creators
<1>r. o \in Orders /\ orders[o] \in Row /\ orders[o] # NoRow
  BY <1>t, <1>c DEF Rows
<1> HIDE DEF o
<1>1. ASSUME orders'[o] = orders[o] PROVE Kept
  BY <1>c, <1>r, <1>1
<1>2. ~Expired(o) /\ ~RowAges(o)
  BY <1>c DEF Expired, RowAges, o
<1>3. ASSUME NEW d \in Calls, RowGains(o, d) PROVE Kept
  <2>1. d = c
    BY <1>c, <1>3 DEF RowGains, Creating
  <2>2. PICK p \in Products :
          /\ orders'[o] = [orders[o] EXCEPT !.items = @ \cup {p}]
          /\ call'[c].copy.items = call[c].copy.items \cup {p}
    BY <1>3, <2>1 DEF RowGains
  <2>3. /\ orders'[o] \in Row /\ orders'[o].idle = orders[o].idle
        /\ orders'[o].items = orders[o].items \cup {p}
    BY <1>r, <2>2 DEF Row
  <2> QED
    BY <1>c, <2>2, <2>3
<1>4. ASSUME NEW d \in Calls, RowInserted(o, d) PROVE Kept
  BY <1>c, <1>4 DEF RowInserted
<1>5. ASSUME NEW d \in Calls, RowReused(o, d) PROVE Kept
  <2>1. d # c /\ call[d].order = o /\ call[d].pc = "reuse"
    BY <1>5 DEF RowReused, Creating
  <2>2. Younger(call[d].copy, c) /\ call[d].copy \in Row
    BY <1>t, <1>c, <2>1 DEF CallsHold, CallOK
  <2> QED
    BY <1>c, <1>r, <1>5, <2>2, SaveOfYounger DEF RowReused
<1>6. ASSUME NEW p \in Patches, RowAttached(o, p) PROVE Kept
  <2>1. patch[p].intent \in Intents
    BY <1>t, <1>6 DEF RowAttached, PatchesHold
  <2> QED
    BY <1>c, <1>r, <1>6, <2>1 DEF RowAttached, Row
<1>7. ASSUME NEW n \in Notices, RowJudged(o, n) PROVE Kept
  <2> DEFINE w == [notice[n].copy EXCEPT !.status = Verdict(notice[n].kind)]
  <2>1. notice[n].copy \in Row /\ Verdict(notice[n].kind) \in Status
    BY <1>t, <1>7
       DEF RowJudged, NoticesHold, NoticeOK, NoticeRecord, Kinds, Verdict, Status
  <2>2. w \in Row /\ w.idle = notice[n].copy.idle /\ w.items = notice[n].copy.items
    BY <2>1 DEF Row
  <2>3. Younger(w, c)
    BY <1>c, <1>7, <2>2 DEF RowJudged, Younger
  <2> QED
    BY <1>c, <1>r, <1>7, <2>2, <2>3, SaveOfYounger DEF RowJudged
<1>8. ASSUME NEW e \in Edits, RowEdited(o, e) PROVE Kept
  <2> DEFINE w == [edit[e].copy EXCEPT !.status = edit[e].target]
  <2>1. edit[e].copy \in Row /\ edit[e].target \in Status
    BY <1>t, <1>8 DEF RowEdited, EditsHold, EditOK, EditRecord
  <2>2. w \in Row /\ w.idle = edit[e].copy.idle /\ w.items = edit[e].copy.items
    BY <2>1 DEF Row
  <2>3. Younger(w, c)
    BY <1>c, <1>8, <2>2 DEF RowEdited, Younger
  <2> QED
    BY <1>c, <1>r, <1>8, <2>2, <2>3, SaveOfYounger DEF RowEdited
<1>9. Kept
  BY <1>r, <1>1, <1>2, <1>3, <1>4, <1>5, <1>6, <1>7, <1>8 DEF Move, RowMove
<1> QED
  BY <1>9 DEF o

LEMMA CreatorsInit == OrderInit => Creators
BY DEF OrderInit, Creators, Creating, Rows

LEMMA CreationStarts ==
  ASSUME Move, NEW c \in Calls, call'[c].pc \in {"items", "built"}
  PROVE  Creating(c) \/ (call[c].pc = "draft" /\ call'[c].pc = "items")
<1> SUFFICES ASSUME ~Creating(c)
             PROVE  call[c].pc = "draft" /\ call'[c].pc = "items"
  OBVIOUS
<1>1. call'[c] # call[c]
  BY DEF Creating
<1>2. CallMove(c)
  BY DEF Move
<1> QED
  BY <1>1, <1>2 DEF Creating, CallMove

LEMMA CreatorsStep ==
  ASSUME Shape, Shape', Creators, Move
  PROVE  Creators'
<1>t. /\ orders \in [Orders -> Row \cup {NoRow}] /\ call \in [Calls -> CallRecord]
      /\ CallsHold
  BY TypeParts DEF Shape
<1>d. Drawn \subseteq Drawn'
  <2> SUFFICES ASSUME NEW c \in Calls, call[c].order # NoOrder
               PROVE  call[c].order \in Drawn'
    BY DEF Drawn
  <2> QED
    BY OrderStays DEF Drawn
<1>r. Rows \subseteq Drawn
  BY DEF Creators
<1>1. ASSUME NEW o \in Orders, orders'[o] # NoRow PROVE o \in Drawn'
  <2>1. CASE o \in Drawn
    BY <1>d, <2>1
  <2>2. CASE \E c \in Calls : call'[c].order = o
    BY <2>2, NoOrderAssumption DEF Drawn
  <2>3. CASE o \in Rows
    BY <1>r, <2>1, <2>3
  <2>4. CASE \E c \in Calls : RowReused(o, c)
    BY <2>1, <2>4, NoOrderAssumption DEF RowReused, Drawn
  <2>5. CASE \E n \in Notices : RowJudged(o, n)
    BY <2>1, <2>5 DEF RowJudged, Creators
  <2>6. CASE \E e \in Edits : RowEdited(o, e)
    BY <2>1, <2>6 DEF RowEdited, Creators
  <2>7. \/ o \in Rows \/ \E c \in Calls : call'[c].order = o
        \/ \E c \in Calls : RowReused(o, c)
        \/ \E n \in Notices : RowJudged(o, n)
        \/ \E e \in Edits : RowEdited(o, e)
    BY <1>1, NoRowAssumption
       DEF Move, RowMove, Rows, RowAges, RowGains, RowInserted, RowAttached
  <2> QED
    BY <2>2, <2>3, <2>4, <2>5, <2>6, <2>7
<1>2. ASSUME NEW n \in Notices, notice'[n].pc = "save" PROVE notice'[n].order \in Drawn'
  <2>1. notice'[n].order \in Drawn
    BY <1>r, <1>2 DEF Creators, Move, NoticeMove
  <2> QED
    BY <1>d, <2>1
<1>3. ASSUME NEW e \in Edits, edit'[e].pc # "unsent" PROVE edit'[e].order \in Drawn'
  <2>1. edit'[e].order \in Drawn
    BY <1>3 DEF Creators, Move, EditMove
  <2> QED
    BY <1>d, <2>1
<1>4. ASSUME NEW c \in Calls
      PROVE  /\ call'[c].pc \in {"unsent", "sent", "fresh", "draft"}
                  => call'[c].order = NoOrder
             /\ call'[c].pc = "draft" => ~call'[c].copy.idle /\ call'[c].copy.items = {}
             /\ call'[c].pc = "built" => call'[c].copy \in Row
                                           /\ call'[c].copy.items = call'[c].copy.lines
  <2>0. /\ call[c].pc \in {"unsent", "sent", "fresh", "draft"} => call[c].order = NoOrder
        /\ call[c].pc = "draft" => ~call[c].copy.idle /\ call[c].copy.items = {}
        /\ call[c].pc = "built" => call[c].copy \in Row
                                     /\ call[c].copy.items = call[c].copy.lines
        /\ CallMove(c)
    BY DEF Creators, Move
  <2>1. CASE call'[c] = call[c]
    BY <2>0, <2>1
  <2>2. CASE call'[c] # call[c]
    <3>1. call'[c].pc \in {"unsent", "sent", "fresh", "draft"} => call'[c].order = NoOrder
      BY <2>0, <2>2 DEF CallMove
    <3>2. call'[c].pc = "built" => call'[c].copy \in Row
                                    /\ call'[c].copy.items = call'[c].copy.lines
      BY <2>2, <2>0 DEF CallMove
    <3>3. ASSUME call'[c].pc = "draft"
          PROVE  ~call'[c].copy.idle /\ call'[c].copy.items = {}
      <4>1. PICK k \in Carts, ps \in SUBSET Products : call'[c].copy = NewRow(k, ps)
        BY <2>0, <2>2, <3>3 DEF CallMove
      <4> QED
        BY <4>1 DEF NewRow
    <3> QED
      BY <3>1, <3>2, <3>3
  <2> QED
    BY <2>1, <2>2
<1> DEFINE At(c) ==
      /\ orders'[call'[c].order] \in Row
      /\ ~orders'[call'[c].order].idle
      /\ orders'[call'[c].order].items = call'[c].copy.items
    Sole(c) ==
      \A d \in Calls : d # c /\ call'[d].order = call'[c].order =>
        /\ call'[d].pc \notin {"items", "built"}
        /\ call'[d].pc = "reuse" => ~call'[d].copy.idle
                                      /\ call'[d].copy.items \subseteq call'[c].copy.items
    Seen(c) ==
      /\ \A n \in Notices : notice'[n].pc = "save" /\ notice'[n].order = call'[c].order =>
           ~notice'[n].copy.idle /\ notice'[n].copy.items \subseteq call'[c].copy.items
      /\ \A e \in Edits : edit'[e].pc = "save" /\ edit'[e].order = call'[c].order =>
           ~edit'[e].copy.idle /\ edit'[e].copy.items \subseteq call'[c].copy.items
<1>5. ASSUME NEW c \in Calls, call[c].pc = "draft", call'[c].pc = "items"
      PROVE  At(c) /\ Sole(c) /\ Seen(c)
  <2>1. /\ call'[c].copy = call[c].copy /\ call'[c].order \in Orders
        /\ call'[c].order \notin Drawn
        /\ orders'[call'[c].order] = call[c].copy
        /\ \A d \in Calls : d # c => call'[d] = call[d]
    BY <1>5 DEF Move, CallMove
  <2>2. At(c)
    BY <1>t, <1>5, <2>1 DEF Creators, CallsHold, CallOK
  <2>3. \A d \in Calls : d # c => call'[d].order # call'[c].order
    BY <2>1, NoOrderAssumption DEF Drawn
  <2>4. Sole(c)
    BY <2>3
  <2>5. \A n \in Notices : notice'[n].pc = "save" => notice'[n].order \in Drawn
    BY <1>r DEF Creators, Move, NoticeMove
  <2>6. \A e \in Edits : edit'[e].pc = "save" => edit'[e].order \in Drawn
    BY <1>r DEF Creators, Move, EditMove
  <2>7. Seen(c)
    BY <2>1, <2>5, <2>6
  <2> QED
    BY <2>2, <2>4, <2>7
<1>6. ASSUME NEW c \in Calls, Creating(c), Creating(c)'
      PROVE  At(c) /\ Sole(c) /\ Seen(c)
  <2>c. /\ call[c].order \in Rows /\ ~orders[call[c].order].idle
        /\ orders[call[c].order].items = call[c].copy.items
        /\ \A d \in Calls : d # c /\ call[d].order = call[c].order =>
             ~Creating(d) /\ (call[d].pc = "reuse" => Younger(call[d].copy, c))
        /\ \A n \in Notices : notice[n].pc = "save" /\ notice[n].order = call[c].order =>
             Younger(notice[n].copy, c)
        /\ \A e \in Edits : edit[e].pc = "save" /\ edit[e].order = call[c].order =>
             Younger(edit[e].copy, c)
    BY <1>6 DEF Creators
  <2>n. call[c].order \in Drawn /\ call[c].order # NoOrder
    BY <1>r, <2>c, NoOrderAssumption DEF Rows
  <2>o. call'[c].order = call[c].order
    BY <2>n, OrderStays
  <2>1. At(c) /\ call[c].copy.items \subseteq call'[c].copy.items
    <3>1. CASE call'[c] = call[c]
      BY <1>6, <3>1, RowUnderConstruction
    <3>2. CASE call'[c] # call[c]
      <4>1. PICK p \in Products :
              /\ call'[c].copy.items = call[c].copy.items \cup {p}
              /\ orders[call[c].order] \in Row
              /\ orders'[call[c].order] =
                   [orders[call[c].order] EXCEPT !.items = @ \cup {p}]
        BY <1>6, <3>2 DEF Creating, Move, CallMove
      <4>2. /\ orders'[call[c].order] \in Row
            /\ orders'[call[c].order].idle = orders[call[c].order].idle
            /\ orders'[call[c].order].items = orders[call[c].order].items \cup {p}
        BY <4>1 DEF Row
      <4> QED
        BY <2>c, <2>o, <4>1, <4>2
    <3> QED
      BY <3>1, <3>2
  <2>2. Sole(c)
    <3> SUFFICES ASSUME NEW d \in Calls, d # c, call'[d].order = call[c].order
                 PROVE  /\ call'[d].pc \notin {"items", "built"}
                        /\ call'[d].pc = "reuse" =>
                             /\ ~call'[d].copy.idle
                             /\ call'[d].copy.items \subseteq call[c].copy.items
      BY <2>o, <2>1
    <3>1. CASE call'[d] = call[d]
      BY <2>c, <3>1 DEF Creating, Younger
    <3>2. CASE call'[d] # call[d]
      <4>1. call'[d].pc \notin {"items", "built"}
        BY <2>c, <2>n, <3>2 DEF Move, CallMove, Creating
      <4>2. call'[d].pc = "reuse" => call'[d].copy = orders[call[c].order]
        BY <3>2 DEF Move, CallMove
      <4> QED
        BY <2>c, <4>1, <4>2
    <3> QED
      BY <3>1, <3>2
  <2>3. ASSUME NEW n \in Notices, notice'[n].pc = "save", notice'[n].order = call[c].order
        PROVE  ~notice'[n].copy.idle /\ notice'[n].copy.items \subseteq call[c].copy.items
    <3>1. notice'[n] = notice[n] \/ notice'[n].copy = orders[call[c].order]
      BY <2>3 DEF Move, NoticeMove
    <3> QED
      BY <2>c, <2>3, <3>1 DEF Younger
  <2>4. ASSUME NEW e \in Edits, edit'[e].pc = "save", edit'[e].order = call[c].order
        PROVE  ~edit'[e].copy.idle /\ edit'[e].copy.items \subseteq call[c].copy.items
    <3>1. edit'[e] = edit[e] \/ edit'[e].copy = orders[call[c].order]
      BY <2>4 DEF Move, EditMove
    <3> QED
      BY <2>c, <2>4, <3>1 DEF Younger
  <2>5. Seen(c)
    BY <2>o, <2>1, <2>3, <2>4
  <2> QED
    BY <2>1, <2>2, <2>5
<1>7. ASSUME NEW c \in Calls, Creating(c)' PROVE At(c) /\ Sole(c) /\ Seen(c)
  <2>1. Creating(c) \/ (call[c].pc = "draft" /\ call'[c].pc = "items")
    BY <1>7, CreationStarts DEF Creating
  <2> QED
    BY <1>5, <1>6, <1>7, <2>1
<1>8. ASSUME NEW c \in Calls, Creating(c)' PROVE call'[c].order \in Rows'
  <2>1. call'[c].order \in Orders
    BY <1>8 DEF Shape, CallsHold, CallOK, Creating
  <2> QED
    BY <1>7, <1>8, <2>1, NoRowAssumption DEF Rows
<1> QED
  BY <1>1, <1>2, <1>3, <1>4, <1>7, <1>8 DEF Creators, Creating, Younger, Rows

(* createOrderFromCart answers with every item the total was computed from: *)
(* the partial copies that reuses, verdicts and edits of the same order save*)
(* while the items are being inserted can remove none, because TypeORM      *)
(* refuses to orphan an item, and the cron cannot take the order away.      *)
THEOREM CreatorsAnswerComplete == OrderSpec => []CreatorAnswersComplete
<1>1. Creators => CreatorAnswersComplete
  BY DEF Creators, Creating, CreatorAnswersComplete
<1>2. Shape /\ Creators /\ [OrderNext]_orderVars => (Shape /\ Creators)'
  BY ShapeStep, Moves, CreatorsStep
<1>3. OrderInit => Shape /\ Creators
  BY ShapeInit, CreatorsInit
<1> QED
  BY <1>1, <1>2, <1>3, PTL DEF OrderSpec
=============================================================================
