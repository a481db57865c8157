--------------------------- MODULE PaymentProofs ---------------------------
(***************************************************************************)
(* What payment-service guarantees of licences, for any number of payments *)
(* of an order, of deliveries, of units and of requests to activate a key, *)
(* and of a subscription and its row whatever events come late, out of     *)
(* order or not at all; and that the row agrees with Stripe again once     *)
(* nothing is on its way, or says which fault kept it from that.  And what *)
(* the webhook guarantees for any set of Stripe events delivered any       *)
(* number of times, whichever activations fail or die.                     *)
(***************************************************************************)
EXTENDS Licences, Subscriptions, WebhookSystem, FiniteSetTheorems, TLAPS

-----------------------------------------------------------------------------
(* Licences.                                                                *)
(* The inductive invariant.                                                 *)

Apart(d1, d2) == {d1, d2} \in licTogether /\ PaidEventOf[d1] # PaidEventOf[d2]

(* Deliveries at work at one time are recorded, and differ in their event.  *)
WorkersApart ==
  \A d1, d2 \in PaidDeliveries :
    d1 # d2 /\ licStep[d1] \in LicAtWork /\ licStep[d2] \in LicAtWork
      => Apart(d1, d2)

(* A delivery that found no key was at work when the keys were saved.       *)
LateKeys ==
  \A d1 \in licIssued, d2 \in PaidDeliveries :
    licStep[d2] = "generate" => d1 # d2 /\ Apart(d1, d2)

(* Keys are saved when their delivery has passed generate.                  *)
NoKeyYet ==
  \A d \in licIssued : licStep[d] \notin {"idle", "check", "generate"}

(* The same for the requests: readers of one key are recorded; who reads a  *)
(* key that was activated ran with the request that did; and what was       *)
(* activated is used.                                                       *)
SameKey(c1, c2) == c1 # c2 /\ click[c1].pc # "idle" /\ click[c2].pc # "idle"
                   /\ click[c1].key = click[c2].key

ReadersTogether ==
  \A c1, c2 \in Clicks :
    SameKey(c1, c2) /\ click[c2].pc = "read" => {c1, c2} \in clickTogether

DoneIsUsed ==
  \A c \in Clicks : click[c].pc = "done" => click[c].key \in licUsed

LicInv ==
  /\ LicTypeOK
  /\ WorkersApart /\ LateKeys /\ NoKeyYet /\ IssuedOnce /\ KeysAreMailed
  /\ ReadersTogether /\ DoneIsUsed /\ ActivatedOnce

(* What the deliveries and what the requests read of the invariant.         *)
DeliveryPart == WorkersApart /\ LateKeys /\ NoKeyYet /\ IssuedOnce /\ KeysAreMailed
ClickPart == ReadersTogether /\ DoneIsUsed /\ ActivatedOnce

-----------------------------------------------------------------------------
(* Neither part is disturbed by a step of the other.                        *)
LEMMA DeliveryPartKept ==
  ASSUME DeliveryPart, DeliveriesKept
  PROVE  DeliveryPart'
  BY DEF DeliveryPart, DeliveriesKept, WorkersApart, LateKeys, NoKeyYet, IssuedOnce,
         KeysAreMailed, Apart

LEMMA ClickPartKept ==
  ASSUME ClickPart, KeysKept
  PROVE  ClickPart'
  BY DEF ClickPart, KeysKept, ReadersTogether, DoneIsUsed, ActivatedOnce, SameKey

(* A delivery that starts is recorded with those at work, and none of them  *)
(* holds its event.                                                         *)
LEMMA DeliverKeeps ==
  ASSUME LicTypeOK, DeliveryPart, NEW d \in PaidDeliveries, DeliverPaid(d)
  PROVE  DeliveryPart'
<1> USE DEF LicTypeOK, DeliveryPart, DeliverPaid, LicGoes
<1>1. WorkersApart'
  <2> SUFFICES ASSUME NEW d1 \in PaidDeliveries, NEW d2 \in PaidDeliveries, d1 # d2,
                      licStep'[d1] \in LicAtWork, licStep'[d2] \in LicAtWork
               PROVE  Apart(d1, d2)'
    BY DEF WorkersApart
  <2>1. CASE d1 # d /\ d2 # d
    BY <2>1 DEF WorkersApart, Apart
  <2>2. ASSUME NEW o \in PaidDeliveries, o # d, licStep'[o] \in LicAtWork
        PROVE  {d, o} \in licTogether' /\ PaidEventOf[d] # PaidEventOf[o]
    <3>1. licStep[o] \in LicAtWork
      BY <2>2
    <3>2. {d, o} \in licTogether'
      BY <3>1
    <3>3. PaidEventOf[d] # PaidEventOf[o]
      BY <3>1 DEF Claimable, LicAtWork
    <3> QED BY <3>2, <3>3
  <2>3. CASE d1 = d
    BY <2>2, <2>3 DEF Apart
  <2>4. CASE d2 = d
    <3>1. {d2, d1} = {d1, d2}
      OBVIOUS
    <3> QED BY <2>2, <2>4, <3>1 DEF Apart
  <2> QED BY <2>1, <2>3, <2>4
<1>2. LateKeys'
  BY DEF LateKeys, Apart
<1>3. NoKeyYet' /\ IssuedOnce' /\ KeysAreMailed'
  BY DEF NoKeyYet, IssuedOnce, KeysAreMailed
<1> QED BY <1>1, <1>2, <1>3

(* Who is sent on to generate keys saw none.                                *)
LEMMA CheckKeeps ==
  ASSUME LicTypeOK, DeliveryPart, NEW d \in PaidDeliveries, CheckKeys(d)
  PROVE  DeliveryPart'
<1> USE DEF LicTypeOK, DeliveryPart, CheckKeys, LicGoes
<1>1. WorkersApart'
  BY DEF WorkersApart, Apart, LicAtWork
<1>2. LateKeys'
  BY DEF LateKeys, Apart
<1>3. NoKeyYet' /\ IssuedOnce' /\ KeysAreMailed'
  BY DEF NoKeyYet, IssuedOnce, KeysAreMailed
<1> QED BY <1>1, <1>2, <1>3

(* Who saves keys over those of another was at work when these were saved.  *)
LEMMA GenerateKeeps ==
  ASSUME LicTypeOK, DeliveryPart, NEW d \in PaidDeliveries, GenerateKeys(d)
  PROVE  DeliveryPart'
<1> USE DEF LicTypeOK, DeliveryPart, GenerateKeys, LicGoes
<1>1. WorkersApart'
  BY DEF WorkersApart, Apart, LicAtWork
<1>2. LateKeys'
  BY DEF LateKeys, WorkersApart, Apart, LicAtWork
<1>3. NoKeyYet'
  BY DEF NoKeyYet
<1>4. IssuedOnce'
  <2> SUFFICES ASSUME NEW d1 \in licIssued', NEW d2 \in licIssued', d1 # d2
               PROVE  {d1, d2} \in licTogether /\ PaidEventOf[d1] # PaidEventOf[d2]
    BY DEF IssuedOnce
  <2>1. {d1, d2} = {d2, d1}
    OBVIOUS
  <2> QED BY <2>1 DEF IssuedOnce, LateKeys, Apart
<1>5. KeysAreMailed'
  BY DEF KeysAreMailed
<1> QED BY <1>1, <1>2, <1>3, <1>4, <1>5

(* The ways a delivery ends: told, unmailed, or stopped.                    *)
LEMMA EndKeeps ==
  ASSUME LicTypeOK, DeliveryPart, NEW d \in PaidDeliveries,
         NotifyKeys(d) \/ NotifyNobody(d) \/ DeliveryEnds(d)
  PROVE  DeliveryPart'
<1> USE DEF LicTypeOK, DeliveryPart, NotifyKeys, NotifyNobody, DeliveryEnds, LicGoes
<1>1. /\ licStep'[d] \in {"done", "thrown", "died", "unmailed"}
      /\ \A x \in PaidDeliveries : x # d => licStep'[x] = licStep[x]
      /\ licIssued' = licIssued /\ licTogether' = licTogether
  OBVIOUS
<1>2. WorkersApart'
  BY <1>1 DEF WorkersApart, Apart, LicAtWork
<1>3. LateKeys'
  BY <1>1 DEF LateKeys, Apart
<1>4. NoKeyYet' /\ IssuedOnce'
  BY <1>1 DEF NoKeyYet, IssuedOnce
<1>5. KeysAreMailed'
  BY DEF KeysAreMailed, NoKeyYet, LicAtWork
<1> QED BY <1>2, <1>3, <1>4, <1>5

-----------------------------------------------------------------------------
(* A request that begins finds the link unused: nobody has activated the    *)
(* key, and those who read it are recorded.                                 *)
LEMMA ReadKeeps ==
  ASSUME LicTypeOK, ClickPart, NEW c \in Clicks, NEW k \in Keys, ReadKey(c, k)
  PROVE  ClickPart'
<1> USE DEF LicTypeOK, ClickPart, ReadKey
<1>1. click'[c] = [pc |-> "read", key |-> k] /\ click[c].pc = "idle"
  OBVIOUS
<1>2. \A x \in Clicks : x # c => click'[x] = click[x]
  OBVIOUS
<1>3. ASSUME NEW o \in Clicks, o # c, click[o].pc # "idle", click[o].key = k
      PROVE  {c, o} \in clickTogether'
  <2>1. click[o].pc # "done"
    BY <1>3 DEF DoneIsUsed, ValidLink
  <2>2. click[o].pc = "read"
    BY <2>1, <1>3
  <2> QED BY <1>3, <2>2
<1>4. ReadersTogether'
  <2> SUFFICES ASSUME NEW c1 \in Clicks, NEW c2 \in Clicks, SameKey(c1, c2)',
                      click'[c2].pc = "read"
               PROVE  {c1, c2} \in clickTogether'
    BY DEF ReadersTogether
  <2>1. CASE c1 # c /\ c2 # c
    BY <2>1, <1>2 DEF ReadersTogether, SameKey
  <2>2. CASE c1 = c
    BY <2>2, <1>1, <1>2, <1>3 DEF SameKey
  <2>3. CASE c2 = c
    <3>1. {c1, c2} = {c2, c1}
      OBVIOUS
    <3> QED BY <3>1, <2>3, <1>1, <1>2, <1>3 DEF SameKey
  <2> QED BY <2>1, <2>2, <2>3
<1>5. DoneIsUsed'
  BY <1>1, <1>2 DEF DoneIsUsed
<1>6. ActivatedOnce'
  BY <1>1, <1>2 DEF ActivatedOnce
<1> QED BY <1>4, <1>5, <1>6

(* A request that saves was recorded with the others that read its key.     *)
LEMMA SaveKeeps ==
  ASSUME LicTypeOK, ClickPart, NEW c \in Clicks, SaveKey(c)
  PROVE  ClickPart'
<1> USE DEF LicTypeOK, ClickPart, SaveKey
<1>1. /\ click[c].pc = "read" /\ click'[c].pc = "done" /\ click'[c].key = click[c].key
      /\ licUsed' = licUsed \cup {click[c].key} /\ clickTogether' = clickTogether
  OBVIOUS
<1>2. \A x \in Clicks : x # c => click'[x] = click[x]
  OBVIOUS
<1>3. ReadersTogether'
  <2> SUFFICES ASSUME NEW c1 \in Clicks, NEW c2 \in Clicks, SameKey(c1, c2)',
                      click'[c2].pc = "read"
               PROVE  {c1, c2} \in clickTogether
    BY <1>1 DEF ReadersTogether
  <2>1. SameKey(c1, c2) /\ click[c2].pc = "read"
    BY <1>1, <1>2 DEF SameKey
  <2> QED BY <2>1 DEF ReadersTogether
<1>4. DoneIsUsed'
  BY <1>1, <1>2 DEF DoneIsUsed
<1>5. ActivatedOnce'
  <2> SUFFICES ASSUME NEW c1 \in Clicks, NEW c2 \in Clicks, c1 # c2,
                      click'[c1].pc = "done", click'[c2].pc = "done",
                      click'[c1].key = click'[c2].key
               PROVE  {c1, c2} \in clickTogether
    BY <1>1 DEF ActivatedOnce
  <2>1. {c1, c2} = {c2, c1}
    OBVIOUS
  <2>2. CASE c1 # c /\ c2 # c
    BY <2>2, <1>2 DEF ActivatedOnce
  <2>3. CASE c1 = c
    <3>1. SameKey(c2, c1) /\ click[c1].pc = "read"
      BY <2>3, <1>1, <1>2 DEF SameKey
    <3> QED BY <3>1, <2>1 DEF ReadersTogether
  <2>4. CASE c2 = c
    <3>1. SameKey(c1, c2) /\ click[c2].pc = "read"
      BY <2>4, <1>1, <1>2 DEF SameKey
    <3> QED BY <3>1 DEF ReadersTogether
  <2> QED BY <2>2, <2>3, <2>4
<1> QED BY <1>3, <1>4, <1>5

LEMMA ClickEndKeeps ==
  ASSUME LicTypeOK, ClickPart, NEW c \in Clicks, ClickEnds(c)
  PROVE  ClickPart'
<1>1. /\ click'[c].pc = "idle" /\ \A x \in Clicks : x # c => click'[x] = click[x]
      /\ licUsed' = licUsed /\ clickTogether' = clickTogether
  BY DEF LicTypeOK, ClickEnds
<1> QED BY <1>1 DEF ClickPart, ReadersTogether, SameKey, DoneIsUsed, ActivatedOnce

-----------------------------------------------------------------------------
(* The type, one lemma per side.                                            *)
LEMMA DeliveryType ==
  ASSUME LicTypeOK, NoKeyYet, NEW d \in PaidDeliveries,
         \/ DeliverPaid(d) \/ CheckKeys(d) \/ GenerateKeys(d)
         \/ NotifyKeys(d) \/ NotifyNobody(d) \/ DeliveryEnds(d) \/ ExpireLinks(d)
  PROVE  LicTypeOK'
<1> USE DEF LicTypeOK, LicGoes, KeysKept, DeliveriesKept, LicSteps, LicAtWork
<1>1. CASE DeliverPaid(d)
  BY <1>1 DEF DeliverPaid
<1>2. CASE CheckKeys(d)
  BY <1>2 DEF CheckKeys
<1>3. CASE GenerateKeys(d)
  BY <1>3 DEF GenerateKeys
<1>4. CASE NotifyKeys(d)
  <2>1. licMailed \subseteq licMailed' /\ licMailed' \subseteq licIssued
    BY <1>4 DEF NotifyKeys
  <2>2. licMailed \X Units \subseteq licMailed' \X Units
    BY <2>1
  <2> QED BY <1>4, <2>1, <2>2 DEF NotifyKeys
<1>5. CASE NotifyNobody(d)
  BY <1>5 DEF NotifyNobody
<1>6. CASE DeliveryEnds(d)
  BY <1>6 DEF DeliveryEnds
<1>7. CASE ExpireLinks(d)
  BY <1>7 DEF ExpireLinks
<1> QED BY <1>1, <1>2, <1>3, <1>4, <1>5, <1>6, <1>7

LEMMA ClickType ==
  ASSUME LicTypeOK, NEW c \in Clicks,
         (\E k \in Keys : ReadKey(c, k)) \/ SaveKey(c) \/ ClickEnds(c)
  PROVE  LicTypeOK'
<1> USE DEF LicTypeOK, DeliveriesKept
<1>1. CASE \E k \in Keys : ReadKey(c, k)
  <2> PICK k \in Keys : ReadKey(c, k)
    BY <1>1
  <2>1. k \in licMailed \X Units
    BY DEF ReadKey, ValidLink, Keys
  <2>2. {{c, o} : o \in {x \in Clicks : click[x].pc = "read" /\ click[x].key = k}}
          \in SUBSET SUBSET Clicks
    OBVIOUS
  <2> QED BY <2>1, <2>2 DEF ReadKey
<1>2. CASE SaveKey(c)
  <2>1. click[c] \in [pc : {"read", "done"}, key : licMailed \X Units]
    BY <1>2 DEF SaveKey
  <2> QED BY <1>2, <2>1 DEF SaveKey
<1>3. CASE ClickEnds(c)
  BY <1>3 DEF ClickEnds
<1> QED BY <1>1, <1>2, <1>3

-----------------------------------------------------------------------------
LEMMA LicInvIs == LicInv <=> LicTypeOK /\ DeliveryPart /\ ClickPart
  BY DEF LicInv, DeliveryPart, ClickPart

LEMMA LicInvInit == LicInit => LicInv
<1> SUFFICES ASSUME LicInit PROVE LicInv
  OBVIOUS
<1>1. LicTypeOK
  BY DEF LicInit, LicTypeOK, LicSteps
<1>2. DeliveryPart
  BY DEF LicInit, DeliveryPart, WorkersApart, LateKeys, NoKeyYet, IssuedOnce,
         KeysAreMailed, LicAtWork
<1>3. ClickPart
  BY DEF LicInit, ClickPart, ReadersTogether, SameKey, DoneIsUsed, ActivatedOnce
<1> QED BY <1>1, <1>2, <1>3, LicInvIs

LEMMA LicInvKept == LicInv /\ [LicNext]_licVars => LicInv'
<1> SUFFICES ASSUME LicInv, [LicNext]_licVars PROVE LicInv'
  OBVIOUS
<1>0. LicTypeOK /\ DeliveryPart /\ ClickPart
  BY LicInvIs
<1>1. ASSUME NEW d \in PaidDeliveries,
             \/ DeliverPaid(d) \/ CheckKeys(d) \/ GenerateKeys(d)
             \/ NotifyKeys(d) \/ NotifyNobody(d) \/ DeliveryEnds(d)
      PROVE  LicInv'
  <2>1. LicTypeOK'
    BY <1>0, <1>1, DeliveryType DEF DeliveryPart
  <2>2. DeliveryPart'
    BY <1>0, <1>1, DeliverKeeps, CheckKeeps, GenerateKeeps, EndKeeps
  <2>3. KeysKept
    BY <1>1 DEF DeliverPaid, CheckKeys, GenerateKeys, NotifyKeys, NotifyNobody,
                DeliveryEnds
  <2>4. ClickPart'
    BY <1>0, <2>3, ClickPartKept
  <2> QED BY <2>1, <2>2, <2>4 DEF LicInv, DeliveryPart, ClickPart
<1>2. ASSUME NEW d \in PaidDeliveries, ExpireLinks(d)
      PROVE  LicInv'
  <2>1. LicTypeOK'
    BY <1>0, <1>2, DeliveryType DEF DeliveryPart
  <2>2. DeliveryPart'
    BY <1>0, <1>2, DeliveryPartKept DEF ExpireLinks
  <2>3. ClickPart'
    BY <1>0, <1>2 DEF ExpireLinks, ClickPart, ReadersTogether, SameKey, DoneIsUsed,
                      ActivatedOnce
  <2> QED BY <2>1, <2>2, <2>3 DEF LicInv, DeliveryPart, ClickPart
<1>3. ASSUME NEW c \in Clicks,
             (\E k \in Keys : ReadKey(c, k)) \/ SaveKey(c) \/ ClickEnds(c)
      PROVE  LicInv'
  <2>1. LicTypeOK'
    BY <1>0, <1>3, ClickType
  <2>2. DeliveryPart'
    BY <1>0, <1>3, DeliveryPartKept DEF ReadKey, SaveKey, ClickEnds
  <2>3. ClickPart'
    BY <1>0, <1>3, ReadKeeps, SaveKeeps, ClickEndKeeps
  <2> QED BY <2>1, <2>2, <2>3 DEF LicInv, DeliveryPart, ClickPart
<1>4. CASE UNCHANGED licVars
  BY <1>4 DEF licVars, LicInv, LicTypeOK, WorkersApart, LateKeys, NoKeyYet, Apart,
              IssuedOnce, KeysAreMailed, ReadersTogether, SameKey, DoneIsUsed,
              ActivatedOnce
<1> QED BY <1>1, <1>2, <1>3, <1>4 DEF LicNext

(* The keys of an order are issued once, their links mailed and each key    *)
(* activated once, save for the faults that LicencesConsistent names,       *)
(* whatever the number of payments, deliveries, units and requests.         *)
THEOREM LicencesKept == LicSpec => []LicencesConsistent
<1>1. LicInv => LicencesConsistent
  BY DEF LicInv, LicencesConsistent
<1> QED BY <1>1, LicInvInit, LicInvKept, PTL DEF LicSpec

-----------------------------------------------------------------------------
(* Subscriptions.                                                           *)
(* The inductive invariant.  A word that the subscription is over is in a   *)
(* row, in an event on its way, or in what a call holds; each is true.      *)

Over(row) == row.status = "canceled" \/ row.ended
TellsEnd(e) == e.kind = "deleted" \/ e.status = "canceled"
Ended == {b \in SubIds : billed[b].status = "canceled"}

Changing(k) == k.pc \in {"change", "save"}
Handling(k) == k.pc \in {"updated", "paid", "failed", "deleted", "sync"}

RowTrue(b, row, over) == row \in Row /\ Over(row) => b \in over
EventTrue(e, over) == TellsEnd(e) => e.sub \in over
CallTrue(k, over) ==
  /\ Changing(k) \/ Handling(k) => RowTrue(k.sub, k.copy, over)
  /\ Handling(k) => EventTrue(k.event, over) /\ k.event.sub = k.sub
  /\ k.pc = "deleted" => TellsEnd(k.event)

WordsTrue ==
  /\ \A b \in SubIds : RowTrue(b, subRow[b], Ended)
  /\ \A e \in notices : EventTrue(e, Ended)
  /\ \A s \in SubSlots : CallTrue(subCall[s], Ended)

(* What a call is made of.                                                  *)
SubCalls ==
  [pc : {"idle"}]
    \cup [pc : {"customer", "stripe"}, sub : {NoRow},
          owner : CustomerIds \cup {NoCustomer}]
    \cup [pc : {"insert", "answer"}, sub : SubIds]
    \cup [pc : {"change", "save"}, sub : SubIds, op : SubChanges, copy : Row]
    \cup [pc : {"updated"}, sub : SubIds, event : Event,
          copy : Row \cup {NoRow}]
    \cup [pc : {"paid", "failed", "deleted"}, sub : SubIds, event : Event,
          copy : Row]
    \cup [pc : {"sync"}, sub : SubIds, event : Event, copy : Row,
          was : RowStatus \cup {"none"}]

CallsOK == subCall \in [SubSlots -> SubCalls]

SubInv == SubTypeOK /\ CallsOK /\ WordsTrue

-----------------------------------------------------------------------------
(* A true word stays true when more subscriptions are over.                 *)
LEMMA TrueStays ==
  ASSUME NEW G, NEW H, G \subseteq H
  PROVE  /\ \A b, row : RowTrue(b, row, G) => RowTrue(b, row, H)
         /\ \A e : EventTrue(e, G) => EventTrue(e, H)
         /\ \A k : CallTrue(k, G) => CallTrue(k, H)
  BY DEF RowTrue, EventTrue, CallTrue

(* The marks stay marks.                                                    *)
LEMMA Marked ==
  ASSUME subFault \subseteq SubFaults, NEW marks, marks \subseteq SubFaults,
         BlameSub(marks)
  PROVE  subFault' \subseteq SubFaults
  BY DEF BlameSub, SubFaults

(* The calls but one are what they were.                                    *)
LEMMA OneCall ==
  ASSUME CallsOK, NEW s \in SubSlots, NEW record \in SubCalls,
         subCall' = [subCall EXCEPT ![s] = record],
         NEW G, NEW H, G \subseteq H,
         \A z \in SubSlots : CallTrue(subCall[z], G), CallTrue(record, H)
  PROVE  /\ CallsOK' /\ DOMAIN subCall' = SubSlots
         /\ \A z \in SubSlots : CallTrue(subCall'[z], H)
<1>1. \A z \in SubSlots : subCall'[z] = IF z = s THEN record ELSE subCall[z]
  BY DEF CallsOK
<1>2. subCall' \in [SubSlots -> SubCalls] /\ DOMAIN subCall' = SubSlots
  BY DEF CallsOK
<1>3. \A z \in SubSlots : CallTrue(subCall'[z], H)
  BY <1>1, TrueStays
<1> QED BY <1>2, <1>3 DEF CallsOK

LEMMA IdleCall ==
  /\ NoSubCall \in SubCalls
  /\ \A over : CallTrue(NoSubCall, over)
  BY DEF NoSubCall, SubCalls, CallTrue, Changing, Handling

(* Stripe's changes: nothing that is over is billed again, and the events   *)
(* of the change tell the truth.                                            *)
LEMMA ChangeKeeps ==
  ASSUME SubTypeOK, WordsTrue, NEW b \in SubIds, NEW new \in Billed, NEW kinds,
         kinds \subseteq {"created", "updated", "deleted", "paid", "failed"},
         "deleted" \in kinds => new.status = "canceled",
         new.n = billed[b].n, billed[b].status # "canceled",
         ChangeAtStripe(b, new, kinds)
  PROVE  /\ billed' \in [SubIds -> Billed] /\ notices' \subseteq Event
         /\ Ended' = IF new.status = "canceled" THEN Ended \cup {b} ELSE Ended
         /\ \A e \in notices' : EventTrue(e, Ended')
<1>0. subLoad.changes \in 0..MaxChanges /\ MaxChanges \in Nat
  BY SubAssumption DEF SubTypeOK
<1>1. billed[b].n \in 0..MaxChanges /\ billed[b].n < subLoad.changes
  BY DEF SubTypeOK, Billed, ChangeAtStripe
<1>2. new.n + 1 \in 1..MaxChanges
  BY <1>0, <1>1
<1>3. [new EXCEPT !.n = @ + 1] \in Billed /\ [new EXCEPT !.n = @ + 1].status = new.status
  BY <1>2 DEF Billed
<1>4. /\ billed' \in [SubIds -> Billed]
      /\ \A a \in SubIds : billed'[a].status = IF a = b THEN new.status ELSE billed[a].status
  BY <1>3 DEF SubTypeOK, ChangeAtStripe
<1>5. Ended' = IF new.status = "canceled" THEN Ended \cup {b} ELSE Ended
  BY <1>4 DEF Ended
<1>6. ASSUME NEW e \in notices', e \notin notices
      PROVE  e \in Event /\ EventTrue(e, Ended')
  <2>1. PICK k \in kinds : e = [sub |-> b, kind |-> k, status |-> new.status,
                                flag |-> new.flag, n |-> new.n + 1]
    BY <1>6 DEF ChangeAtStripe
  <2>2. e \in Event
    BY <1>2, <2>1 DEF Event, Billed
  <2>3. TellsEnd(e) => new.status = "canceled"
    BY <2>1 DEF TellsEnd
  <2> QED BY <1>5, <2>1, <2>2, <2>3 DEF EventTrue
<1>7. \A e \in notices : e \in Event /\ EventTrue(e, Ended')
  BY <1>5, TrueStays DEF SubTypeOK, WordsTrue
<1> QED BY <1>4, <1>5, <1>6, <1>7

(* What Stripe does by itself.                                              *)
LEMMA MoveKeeps ==
  ASSUME SubInv, NEW b \in SubIds, NEW from, NEW to \in StripeStatus, NEW kinds,
         "canceled" \notin from,
         kinds \subseteq {"created", "updated", "deleted", "paid", "failed"},
         "deleted" \in kinds => to = "canceled",
         StripeMoves(b, from, to, kinds),
         NEW marks, marks \subseteq SubFaults, BlameSub(marks)
  PROVE  SubInv'
<1> DEFINE new == [billed[b] EXCEPT !.status = to, !.paid = @ \/ to = "active"]
<1>1. billed[b] \in Billed /\ billed[b].status # "canceled"
  BY DEF SubInv, SubTypeOK, StripeMoves
<1>2. new \in Billed /\ new.n = billed[b].n /\ new.status = to
  BY <1>1 DEF Billed
<1>3. ChangeAtStripe(b, new, kinds)
  BY DEF StripeMoves
<1> HIDE DEF new
<1>4. /\ billed' \in [SubIds -> Billed] /\ notices' \subseteq Event
      /\ Ended \subseteq Ended' /\ \A e \in notices' : EventTrue(e, Ended')
  BY <1>1, <1>2, <1>3, ChangeKeeps DEF SubInv
<1>5. /\ UNCHANGED <<subRow, seen, subCall, subLoad>>
      /\ UNCHANGED <<welcomed, farewell, customer, updates>>
  BY DEF StripeMoves, KeepMails, KeepCustomer
<1>6. SubTypeOK'
  BY <1>4, <1>5, Marked DEF SubInv, SubTypeOK
<1>7. WordsTrue'
  BY <1>4, <1>5, TrueStays DEF SubInv, WordsTrue
<1> QED BY <1>5, <1>6, <1>7 DEF SubInv, CallsOK

-----------------------------------------------------------------------------
(* A step of a call that leaves Stripe and the rows alone, or saves a true  *)
(* row; the events on their way may become fewer.                           *)
LEMMA StepKeeps ==
  ASSUME SubInv, NEW s \in SubSlots, NEW record \in SubCalls,
         subCall' = [subCall EXCEPT ![s] = record], CallTrue(record, Ended),
         UNCHANGED <<billed, subLoad>>, notices' \subseteq notices,
         subRow' \in [SubIds -> Row \cup {NoRow}],
         \A b \in SubIds : RowTrue(b, subRow'[b], Ended),
         seen' \in [SubIds -> 0..MaxChanges], welcomed' \in [SubIds -> 0..2],
         farewell' \subseteq SubIds, customer' \in CustomerIds \cup {NoCustomer},
         updates' \subseteq CustomerIds,
         NEW marks, marks \subseteq SubFaults, BlameSub(marks)
  PROVE  SubInv'
<1>1. Ended' = Ended
  BY DEF Ended
<1>2. /\ CallsOK' /\ DOMAIN subCall' = SubSlots
      /\ \A z \in SubSlots : CallTrue(subCall'[z], Ended)
  BY OneCall DEF SubInv, WordsTrue
<1>3. SubTypeOK'
  BY <1>2, Marked DEF SubInv, SubTypeOK
<1>4. WordsTrue'
  BY <1>1, <1>2 DEF SubInv, WordsTrue
<1> QED BY <1>2, <1>3, <1>4 DEF SubInv

(* What each kind of call holds.                                            *)
LEMMA CallKinds ==
  ASSUME SubInv, NEW s \in SubSlots
  PROVE  /\ subCall[s].pc \in {"customer", "stripe"} =>
              /\ subCall[s].owner \in CustomerIds \cup {NoCustomer}
              /\ subCall[s] \in [pc : {"customer", "stripe"}, sub : {NoRow},
                                 owner : CustomerIds \cup {NoCustomer}]
         /\ subCall[s].pc \in {"insert", "answer"} =>
              /\ subCall[s].sub \in SubIds
              /\ subCall[s] \in [pc : {"insert", "answer"}, sub : SubIds]
         /\ Changing(subCall[s]) =>
              /\ subCall[s].sub \in SubIds /\ subCall[s].op \in SubChanges
              /\ subCall[s].copy \in Row
              /\ RowTrue(subCall[s].sub, subCall[s].copy, Ended)
              /\ subCall[s] \in [pc : {"change", "save"}, sub : SubIds,
                                 op : SubChanges, copy : Row]
         /\ Handling(subCall[s]) =>
              /\ subCall[s].sub \in SubIds /\ subCall[s].event \in Event
              /\ RowTrue(subCall[s].sub, subCall[s].copy, Ended)
              /\ EventTrue(subCall[s].event, Ended)
              /\ subCall[s].event.sub = subCall[s].sub
              /\ subCall[s].pc # "updated" => subCall[s].copy \in Row
              /\ subCall[s].copy \in Row \cup {NoRow}
         /\ subCall[s].pc = "deleted" => TellsEnd(subCall[s].event)
<1>1. subCall[s] \in SubCalls /\ CallTrue(subCall[s], Ended)
  BY DEF SubInv, CallsOK, WordsTrue
<1>2. subCall[s].pc \in {"customer", "stripe"} =>
              /\ subCall[s].owner \in CustomerIds \cup {NoCustomer}
              /\ subCall[s] \in [pc : {"customer", "stripe"}, sub : {NoRow},
                                 owner : CustomerIds \cup {NoCustomer}]
  BY <1>1 DEF SubCalls
<1>3. subCall[s].pc \in {"insert", "answer"} =>
              /\ subCall[s].sub \in SubIds
              /\ subCall[s] \in [pc : {"insert", "answer"}, sub : SubIds]
  BY <1>1 DEF SubCalls
<1>4. Changing(subCall[s]) =>
              /\ subCall[s].sub \in SubIds /\ subCall[s].op \in SubChanges
              /\ subCall[s].copy \in Row
              /\ subCall[s] \in [pc : {"change", "save"}, sub : SubIds,
                                 op : SubChanges, copy : Row]
  BY <1>1 DEF SubCalls, Changing
<1>5. Handling(subCall[s]) =>
              /\ subCall[s].sub \in SubIds /\ subCall[s].event \in Event
              /\ subCall[s].pc # "updated" => subCall[s].copy \in Row
              /\ subCall[s].copy \in Row \cup {NoRow}
  BY <1>1 DEF SubCalls, Handling
<1>6. /\ Changing(subCall[s]) \/ Handling(subCall[s]) =>
           RowTrue(subCall[s].sub, subCall[s].copy, Ended)
      /\ Handling(subCall[s]) => /\ EventTrue(subCall[s].event, Ended)
                                 /\ subCall[s].event.sub = subCall[s].sub
      /\ subCall[s].pc = "deleted" => TellsEnd(subCall[s].event)
  BY <1>1 DEF CallTrue
<1> QED BY <1>2, <1>3, <1>4, <1>5, <1>6

(* The types of what stays.                                                 *)
LEMMA Kept ==
  ASSUME SubInv
  PROVE  /\ subRow \in [SubIds -> Row \cup {NoRow}]
         /\ \A b \in SubIds : RowTrue(b, subRow[b], Ended)
         /\ seen \in [SubIds -> 0..MaxChanges] /\ welcomed \in [SubIds -> 0..2]
         /\ farewell \subseteq SubIds /\ customer \in CustomerIds \cup {NoCustomer}
         /\ updates \subseteq CustomerIds /\ notices \subseteq Event
         /\ \A e \in notices : EventTrue(e, Ended)
  BY DEF SubInv, SubTypeOK, WordsTrue

(* A true row is saved.                                                     *)
LEMMA RowSavedKeeps ==
  ASSUME SubInv, NEW b \in SubIds, NEW row \in Row, RowTrue(b, row, Ended)
  PROVE  /\ Saved(b, row) \in [SubIds -> Row \cup {NoRow}]
         /\ \A a \in SubIds : RowTrue(a, Saved(b, row)[a], Ended)
<1>1. [row EXCEPT !.old = FALSE] \in Row
  BY DEF Row
<1>2. RowTrue(b, [row EXCEPT !.old = FALSE], Ended)
  BY DEF RowTrue, Over, Row
<1> QED BY <1>1, <1>2, Kept DEF Saved

(* A call ends, whatever row it saved.                                      *)
LEMMA RowEndsKeeps ==
  ASSUME SubInv, NEW s \in SubSlots, EndSub(s),
         UNCHANGED <<billed, notices, seen, subLoad>>,
         subRow' \in [SubIds -> Row \cup {NoRow}],
         \A b \in SubIds : RowTrue(b, subRow'[b], Ended),
         welcomed' \in [SubIds -> 0..2], farewell' \subseteq SubIds,
         UNCHANGED <<customer, updates>>,
         NEW marks, marks \subseteq SubFaults, BlameSub(marks)
  PROVE  SubInv'
<1>1. subCall' = [subCall EXCEPT ![s] = NoSubCall]
  BY DEF EndSub
<1>2. /\ notices' \subseteq notices /\ seen' \in [SubIds -> 0..MaxChanges]
      /\ customer' \in CustomerIds \cup {NoCustomer} /\ updates' \subseteq CustomerIds
  BY Kept
<1> QED BY <1>1, <1>2, IdleCall, StepKeeps

-----------------------------------------------------------------------------
(* createSubscription.                                                      *)
LEMMA ReadUserKeeps ==
  ASSUME SubInv, NEW s \in SubSlots, ReadUser(s)
  PROVE  SubInv'
<1> DEFINE record == [pc |-> IF customer = NoCustomer THEN "customer" ELSE "stripe",
                      sub |-> NoRow, owner |-> customer]
           marks == IF SubBusy = {} /\ updates = {} THEN {} ELSE {"overlap"}
<1>1. record \in SubCalls /\ CallTrue(record, Ended)
  BY Kept DEF SubCalls, CallTrue, Changing, Handling
<1>2. marks \subseteq SubFaults /\ BlameSub(marks)
  BY DEF ReadUser, SubFaults
<1>3. /\ subCall' = [subCall EXCEPT ![s] = record]
      /\ UNCHANGED <<billed, subRow, notices, seen, welcomed, farewell,
                     customer, updates, subLoad>>
  BY DEF ReadUser, BeginSub, KeepStripe, KeepMails, KeepCustomer
<1> HIDE DEF record, marks
<1> QED BY <1>1, <1>2, <1>3, StepKeeps, Kept

LEMMA CreateCustomerKeeps ==
  ASSUME SubInv, NEW s \in SubSlots, NEW c \in CustomerIds, CreateCustomer(s, c)
  PROVE  SubInv'
<1> DEFINE record == [subCall[s] EXCEPT !.pc = "stripe", !.owner = c]
<1>1. subCall[s] \in [pc : {"customer", "stripe"}, sub : {NoRow},
                      owner : CustomerIds \cup {NoCustomer}]
  BY CallKinds DEF CreateCustomer, SubAt
<1>2. record \in [pc : {"stripe"}, sub : {NoRow}, owner : CustomerIds]
  BY <1>1
<1>3. record \in SubCalls /\ CallTrue(record, Ended)
  BY <1>2 DEF SubCalls, CallTrue, Changing, Handling
<1>4. /\ subCall' = [subCall EXCEPT ![s] = record] /\ updates' = updates \cup {c}
      /\ UNCHANGED <<billed, subRow, notices, seen, welcomed, farewell,
                     customer, subLoad>>
      /\ BlameSub({})
  BY DEF CreateCustomer, StepSub, KeepStripe, KeepMails
<1> HIDE DEF record
<1> QED BY <1>3, <1>4, StepKeeps, Kept

LEMMA CreateSubscriptionKeeps ==
  ASSUME SubInv, NEW s \in SubSlots, NEW b \in SubIds, CreateSubscription(s, b)
  PROVE  SubInv'
<1> DEFINE new == [billed[b] EXCEPT !.status = "incomplete",
                                    !.owner = subCall[s].owner]
           record == [pc |-> "insert", sub |-> b]
<1>1. /\ ChangeAtStripe(b, new, {"created"}) /\ billed[b].status = "none"
      /\ subCall' = [subCall EXCEPT ![s] = record] /\ subCall[s].pc = "stripe"
      /\ UNCHANGED <<subRow, seen, subLoad, welcomed, farewell, customer, updates>>
      /\ BlameSub({})
  BY DEF CreateSubscription, StepSub, SubAt, KeepMails, KeepCustomer
<1>2. billed[b] \in Billed /\ subCall[s].owner \in CustomerIds \cup {NoCustomer}
  BY <1>1, CallKinds DEF SubInv, SubTypeOK
<1>3. new \in Billed /\ new.n = billed[b].n /\ new.status = "incomplete"
  BY <1>2 DEF Billed, StripeStatus
<1>4. \A over : record \in SubCalls /\ CallTrue(record, over)
  BY DEF SubCalls, CallTrue, Changing, Handling
<1> HIDE DEF new, record
<1>5. /\ billed' \in [SubIds -> Billed] /\ notices' \subseteq Event
      /\ Ended' = Ended /\ \A e \in notices' : EventTrue(e, Ended')
  BY <1>1, <1>3, ChangeKeeps DEF SubInv
<1>6. /\ CallsOK' /\ DOMAIN subCall' = SubSlots
      /\ \A z \in SubSlots : CallTrue(subCall'[z], Ended)
  BY <1>1, <1>4, OneCall DEF SubInv, WordsTrue
<1>7. SubTypeOK'
  BY <1>1, <1>5, <1>6, Marked DEF SubInv, SubTypeOK
<1>8. WordsTrue'
  BY <1>1, <1>5, <1>6, Kept DEF WordsTrue
<1> QED BY <1>6, <1>7, <1>8 DEF SubInv

LEMMA InsertRowKeeps ==
  ASSUME SubInv, NEW s \in SubSlots, InsertRow(s)
  PROVE  SubInv'
<1> DEFINE b == subCall[s].sub
           row == [status |-> "incomplete", flag |-> FALSE, ended |-> FALSE,
                   old |-> FALSE]
           record == [subCall[s] EXCEPT !.pc = "answer"]
<1>1. subCall[s].pc = "insert"
  BY DEF InsertRow, SubAt
<1>2. b \in SubIds /\ record \in [pc : {"answer"}, sub : SubIds]
  BY <1>1, CallKinds
<1>3. record \in SubCalls /\ CallTrue(record, Ended)
  BY <1>2 DEF SubCalls, CallTrue, Changing, Handling
<1>4. row \in Row /\ RowTrue(b, row, Ended)
  BY DEF Row, RowStatus, RowTrue, Over
<1>5. /\ subRow' = [subRow EXCEPT ![b] = row]
      /\ subCall' = [subCall EXCEPT ![s] = record] /\ BlameSub({})
      /\ UNCHANGED <<billed, notices, seen, welcomed, farewell, customer,
                     updates, subLoad>>
  BY DEF InsertRow, StepSub, KeepStripe, KeepMails, KeepCustomer
<1> HIDE DEF row, record, b
<1>6. /\ subRow' \in [SubIds -> Row \cup {NoRow}]
      /\ \A a \in SubIds : RowTrue(a, subRow'[a], Ended)
  BY <1>2, <1>4, <1>5, Kept
<1> QED BY <1>3, <1>5, <1>6, StepKeeps, Kept

LEMMA AnswerSecretKeeps ==
  ASSUME SubInv, NEW s \in SubSlots, AnswerSecret(s)
  PROVE  SubInv'
<1> DEFINE b == subCall[s].sub
<1>1. PICK told \in BOOLEAN : billed' = [billed EXCEPT ![b].secret = told]
  BY DEF AnswerSecret
<1>2. billed' \in [SubIds -> Billed]
  BY <1>1 DEF SubInv, SubTypeOK, Billed
<1>3. \A a \in SubIds : billed'[a].status = billed[a].status
  BY <1>1 DEF SubInv, SubTypeOK, Billed
<1>4. Ended' = Ended
  BY <1>3 DEF Ended
<1>5. /\ subCall' = [subCall EXCEPT ![s] = NoSubCall] /\ BlameSub({})
      /\ UNCHANGED <<subRow, notices, seen, welcomed, farewell, customer,
                     updates, subLoad>>
  BY DEF AnswerSecret, EndSub, KeepMails, KeepCustomer
<1>6. /\ CallsOK' /\ DOMAIN subCall' = SubSlots
      /\ \A z \in SubSlots : CallTrue(subCall'[z], Ended)
  BY <1>5, IdleCall, OneCall DEF SubInv, WordsTrue
<1>7. SubTypeOK'
  BY <1>2, <1>5, <1>6, Marked DEF SubInv, SubTypeOK
<1>8. WordsTrue'
  BY <1>4, <1>5, <1>6, Kept DEF WordsTrue
<1> QED BY <1>6, <1>7, <1>8 DEF SubInv

-----------------------------------------------------------------------------
(* Changes by the owner or an administrator.                                *)
LEMMA BeginChangeKeeps ==
  ASSUME SubInv, NEW s \in SubSlots, NEW b \in SubIds, NEW op \in SubChanges,
         BeginChange(s, b, op)
  PROVE  SubInv'
<1> DEFINE record == [pc |-> "change", sub |-> b, op |-> op, copy |-> subRow[b]]
<1>1. subRow[b] \in Row /\ RowTrue(b, subRow[b], Ended)
  BY Kept DEF BeginChange
<1>2. record \in SubCalls /\ CallTrue(record, Ended)
  BY <1>1 DEF SubCalls, CallTrue, Changing, Handling
<1>3. /\ subCall' = [subCall EXCEPT ![s] = record] /\ BlameSub({})
      /\ UNCHANGED <<billed, subRow, notices, seen, welcomed, farewell,
                     customer, updates, subLoad>>
  BY DEF BeginChange, BeginSub, KeepStripe, KeepMails, KeepCustomer
<1> HIDE DEF record
<1> QED BY <1>2, <1>3, StepKeeps, Kept

LEMMA Flags ==
  ASSUME NEW op \in SubChanges
  PROVE  op.flag \in BOOLEAN
<1>1. CASE op \in {[name |-> n, flag |-> f, trial |-> FALSE] :
                      n \in {"cancel", "terms"}, f \in BOOLEAN}
  <2>1. PICK n \in {"cancel", "terms"}, f \in BOOLEAN :
          op = [name |-> n, flag |-> f, trial |-> FALSE]
    BY <1>1
  <2>2. op.flag = f
    BY <2>1
  <2> QED BY <2>2
<1>2. CASE op \in {[name |-> "reactivate", flag |-> FALSE, trial |-> FALSE],
                   [name |-> "terms", flag |-> FALSE, trial |-> TRUE]}
  <2>1. PICK n \in {"reactivate", "terms"}, t \in BOOLEAN :
          op = [name |-> n, flag |-> FALSE, trial |-> t]
    BY <1>2
  <2>2. op.flag = FALSE
    BY <2>1
  <2> QED BY <2>2
<1> QED BY <1>1, <1>2 DEF SubChanges

(* What a call asks of Stripe, and the copy it goes on with.                *)
LEMMA ChangeAsked ==
  ASSUME NEW b \in SubIds, billed[b] \in Billed, NEW op \in SubChanges
  PROVE  /\ ChangeOf(b, op) \in Billed /\ ChangeOf(b, op).n = billed[b].n
         /\ ChangeOf(b, op).status = "canceled" =>
              \/ billed[b].status = "canceled"
              \/ op.name = "cancel" /\ ~op.flag
         /\ op.name = "cancel" /\ ~op.flag =>
              ChangeOf(b, op).status = "canceled"
<1>1. op.flag \in BOOLEAN
  BY Flags
<1>2. CASE op.name = "cancel" /\ ~op.flag
  BY <1>2 DEF ChangeOf, Billed, StripeStatus
<1>3. CASE ~(op.name = "cancel" /\ ~op.flag) /\ op.name = "terms" /\ op.trial
  BY <1>3 DEF ChangeOf, Billed, StripeStatus
<1>4. CASE ~(op.name = "cancel" /\ ~op.flag) /\ ~(op.name = "terms" /\ op.trial)
  <2>1. ChangeOf(b, op) = [billed[b] EXCEPT !.flag = op.flag]
    BY <1>4 DEF ChangeOf
  <2> QED BY <1>1, <1>4, <2>1 DEF Billed
<1> QED BY <1>2, <1>3, <1>4

LEMMA AskStripeKeeps ==
  ASSUME SubInv, NEW s \in SubSlots, AskStripe(s)
  PROVE  SubInv'
<1> DEFINE k == subCall[s]
           b == k.sub
           new == ChangeOf(b, k.op)
           copy == CASE k.op.name = "cancel" /\ ~k.op.flag ->
                          [k.copy EXCEPT !.status = "canceled", !.ended = TRUE]
                     [] k.op.name = "terms" ->
                          [k.copy EXCEPT !.flag = new.flag,
                             !.status = Mapped(new.status, k.copy.status)]
                     [] OTHER -> [k.copy EXCEPT !.flag = k.op.flag]
           record == [k EXCEPT !.pc = "save", !.copy = copy]
           kinds == {IF new.status = "canceled" THEN "deleted" ELSE "updated"}
           marks == IF new.status = "canceled" /\ ~new.paid THEN {"dropped"} ELSE {}
<1>1. /\ k.pc = "change" /\ billed[b].status # "canceled"
      /\ IF new = billed[b] THEN UNCHANGED <<billed, notices>>
         ELSE ChangeAtStripe(b, new, kinds)
      /\ subCall' = [subCall EXCEPT ![s] = record]
      /\ UNCHANGED <<subRow, seen, subLoad, welcomed, farewell, customer, updates>>
      /\ marks \subseteq SubFaults /\ BlameSub(marks)
  BY DEF AskStripe, SubAt, StepSub, KeepStripe, KeepMails, KeepCustomer, SubFaults
<1>2. /\ k \in [pc : {"change", "save"}, sub : SubIds, op : SubChanges, copy : Row]
      /\ RowTrue(b, k.copy, Ended) /\ b \in SubIds /\ k.op \in SubChanges
      /\ k.copy \in Row
  BY <1>1, CallKinds DEF Changing
<1>3. billed[b] \in Billed
  BY <1>2 DEF SubInv, SubTypeOK
<1>4. /\ new \in Billed /\ new.n = billed[b].n
      /\ new.status = "canceled" <=> k.op.name = "cancel" /\ ~k.op.flag
  BY <1>1, <1>2, <1>3, ChangeAsked
<1>5. /\ billed' \in [SubIds -> Billed] /\ notices' \subseteq Event
      /\ Ended \subseteq Ended' /\ (new.status = "canceled" => b \in Ended')
      /\ \A e \in notices' : EventTrue(e, Ended')
  <2>1. CASE new = billed[b]
    <3>1. UNCHANGED <<billed, notices>> /\ new.status # "canceled"
      BY <1>1, <2>1
    <3>2. Ended' = Ended
      BY <3>1 DEF Ended
    <3> QED BY <3>1, <3>2, Kept DEF SubInv, SubTypeOK
  <2>2. CASE new # billed[b]
    <3>1. ChangeAtStripe(b, new, kinds)
      BY <1>1, <2>2
    <3>2. /\ kinds \subseteq {"created", "updated", "deleted", "paid", "failed"}
          /\ "deleted" \in kinds => new.status = "canceled"
      OBVIOUS
    <3> HIDE DEF kinds, new, b
    <3> QED BY <1>1, <1>2, <1>4, <3>1, <3>2, ChangeKeeps DEF SubInv
  <2> QED BY <2>1, <2>2
<1>6. copy \in Row /\ RowTrue(b, copy, Ended')
  <2> HIDE DEF new, b
  <2>0. k.op.flag \in BOOLEAN /\ new.flag \in BOOLEAN
    BY <1>2, <1>4, Flags DEF Billed
  <2>1. CASE k.op.name = "cancel" /\ ~k.op.flag
    <3>1. copy = [k.copy EXCEPT !.status = "canceled", !.ended = TRUE]
      BY <2>1
    <3> QED BY <1>2, <1>4, <1>5, <2>1, <3>1 DEF Row, RowStatus, RowTrue
  <2>2. CASE ~(k.op.name = "cancel" /\ ~k.op.flag) /\ k.op.name = "terms"
    <3>1. copy = [k.copy EXCEPT !.flag = new.flag,
                                !.status = Mapped(new.status, k.copy.status)]
      BY <2>2
    <3>2. /\ Mapped(new.status, k.copy.status) \in RowStatus
          /\ Mapped(new.status, k.copy.status) = "canceled" =>
               k.copy.status = "canceled"
      BY <1>2, <1>4, <2>2 DEF Mapped, Row, RowStatus
    <3>3. copy \in Row /\ (Over(copy) => Over(k.copy))
      BY <1>2, <2>0, <3>1, <3>2 DEF Row, Over
    <3> QED BY <1>2, <1>5, <3>3 DEF RowTrue
  <2>3. CASE ~(k.op.name = "cancel" /\ ~k.op.flag) /\ k.op.name # "terms"
    <3>1. copy = [k.copy EXCEPT !.flag = k.op.flag]
      BY <2>3
    <3>2. copy \in Row /\ (Over(copy) => Over(k.copy))
      BY <1>2, <2>0, <3>1 DEF Row, Over
    <3> QED BY <1>2, <1>5, <3>2 DEF RowTrue
  <2> QED BY <2>1, <2>2, <2>3
<1> HIDE DEF copy
<1>7. record \in [pc : {"save"}, sub : SubIds, op : SubChanges, copy : Row]
      /\ record.sub = b /\ record.copy = copy
  BY <1>2, <1>6
<1>8. record \in SubCalls /\ CallTrue(record, Ended')
  BY <1>6, <1>7 DEF SubCalls, CallTrue, Changing, Handling
<1> HIDE DEF record, new, k, b, kinds, marks
<1>9. /\ CallsOK' /\ DOMAIN subCall' = SubSlots
      /\ \A z \in SubSlots : CallTrue(subCall'[z], Ended')
  BY <1>1, <1>5, <1>8, OneCall DEF SubInv, WordsTrue
<1>10. SubTypeOK'
  BY <1>1, <1>5, <1>9, Marked DEF SubInv, SubTypeOK
<1>11. WordsTrue'
  BY <1>1, <1>5, <1>9, TrueStays, Kept DEF WordsTrue
<1> QED BY <1>9, <1>10, <1>11 DEF SubInv

LEMMA SaveChangeKeeps ==
  ASSUME SubInv, NEW s \in SubSlots, SaveChange(s)
  PROVE  SubInv'
<1> DEFINE b == subCall[s].sub
           copy == subCall[s].copy
           marks == IF Pending(b) THEN {"overtaken"} ELSE {}
<1>1. b \in SubIds /\ copy \in Row /\ RowTrue(b, copy, Ended)
  BY CallKinds DEF SaveChange, SubAt, Changing
<1>2. /\ subRow' = Saved(b, copy) /\ EndSub(s)
      /\ UNCHANGED <<billed, notices, seen, subLoad, welcomed, farewell,
                     customer, updates>>
      /\ marks \subseteq SubFaults /\ BlameSub(marks)
  BY DEF SaveChange, KeepStripe, KeepMails, KeepCustomer, SubFaults
<1> HIDE DEF b, copy, marks
<1> QED BY <1>1, <1>2, RowSavedKeeps, RowEndsKeeps, Kept

-----------------------------------------------------------------------------
(* Webhook events.                                                          *)
LEMMA BeginEventKeeps ==
  ASSUME SubInv, NEW s \in SubSlots, NEW e \in notices, BeginEvent(s, e)
  PROVE  SubInv'
<1> DEFINE record == [pc |-> e.kind, sub |-> e.sub, event |-> e,
                      copy |-> subRow[e.sub]]
           marks == (IF e.n < seen[e.sub] THEN {"disordered"} ELSE {}) \cup
                    (IF subRow[e.sub] = NoRow /\ e.kind # "deleted" THEN {"lost"}
                     ELSE {})
<1>1. /\ e \in Event /\ EventTrue(e, Ended) /\ e.sub \in SubIds
      /\ e.n \in 0..MaxChanges
      /\ e.kind \in {"updated", "paid", "failed", "deleted"}
  BY Kept DEF Event, BeginEvent
<1>2. subRow[e.sub] \in Row \cup {NoRow} /\ RowTrue(e.sub, subRow[e.sub], Ended)
  BY <1>1, Kept
<1>3. marks \subseteq SubFaults /\ BlameSub(marks)
  BY DEF BeginEvent, SubFaults
<1>4. seen' \in [SubIds -> 0..MaxChanges]
  BY <1>1, Kept DEF BeginEvent
<1>5. /\ notices' \subseteq notices
      /\ UNCHANGED <<billed, subRow, subLoad, welcomed, farewell, customer, updates>>
  BY DEF BeginEvent, KeepMails, KeepCustomer
<1> HIDE DEF marks
<1>6. CASE subRow[e.sub] = NoRow /\ e.kind # "updated"
  <2>1. subCall' = [subCall EXCEPT ![s] = NoSubCall]
    BY <1>6 DEF BeginEvent, SubInv, CallsOK
  <2> QED BY <1>3, <1>4, <1>5, <2>1, IdleCall, StepKeeps, Kept
<1>7. CASE ~(subRow[e.sub] = NoRow /\ e.kind # "updated")
  <2>1. subCall' = [subCall EXCEPT ![s] = record]
    BY <1>7 DEF BeginEvent, BeginSub
  <2>2. record \in SubCalls
    BY <1>1, <1>2, <1>7 DEF SubCalls
  <2>3. CallTrue(record, Ended)
    BY <1>1, <1>2 DEF CallTrue, Changing, Handling, TellsEnd
  <2> HIDE DEF record
  <2> QED BY <1>3, <1>4, <1>5, <2>1, <2>2, <2>3, StepKeeps, Kept
<1> QED BY <1>6, <1>7

LEMMA WelcomeKeeps ==
  ASSUME SubInv, NEW b \in SubIds, Welcome(b) \/ UNCHANGED welcomed
  PROVE  welcomed' \in [SubIds -> 0..2]
  BY Kept DEF Welcome

LEMMA HandleCreatedKeeps ==
  ASSUME SubInv, NEW s \in SubSlots, NEW e \in notices, HandleCreated(s, e)
  PROVE  SubInv'
<1> DEFINE marks == IF e.n < seen[e.sub] THEN {"disordered"} ELSE {}
<1>1. e.sub \in SubIds /\ e.n \in 0..MaxChanges
  BY Kept DEF Event
<1>2. welcomed' \in [SubIds -> 0..2]
  BY <1>1, WelcomeKeeps DEF HandleCreated
<1>3. seen' \in [SubIds -> 0..MaxChanges]
  BY <1>1, Kept DEF HandleCreated
<1>4. subCall' = [subCall EXCEPT ![s] = NoSubCall]
  BY DEF HandleCreated, SubInv, CallsOK
<1>5. /\ notices' \subseteq notices
      /\ UNCHANGED <<billed, subRow, subLoad, farewell, customer, updates>>
      /\ marks \subseteq SubFaults /\ BlameSub(marks)
  BY DEF HandleCreated, KeepCustomer, SubFaults
<1> HIDE DEF marks
<1> QED BY <1>2, <1>3, <1>4, <1>5, IdleCall, StepKeeps, Kept

LEMMA ReadSyncKeeps ==
  ASSUME SubInv, NEW s \in SubSlots, ReadSync(s)
  PROVE  SubInv'
<1> DEFINE k == subCall[s]
           record == [pc |-> "sync", sub |-> k.sub, event |-> k.event,
                      copy |-> subRow[k.sub],
                      was |-> IF k.copy = NoRow THEN "none" ELSE k.copy.status]
           marks == IF subRow[k.sub] = NoRow THEN {"lost"} ELSE {}
<1>1. /\ k.sub \in SubIds /\ k.event \in Event /\ EventTrue(k.event, Ended)
      /\ k.event.sub = k.sub /\ k.copy \in Row \cup {NoRow}
  BY CallKinds DEF ReadSync, SubAt, Handling
<1>2. /\ marks \subseteq SubFaults /\ BlameSub(marks)
      /\ UNCHANGED <<billed, subRow, notices, seen, subLoad, welcomed, farewell,
                     customer, updates>>
  BY DEF ReadSync, SubFaults, KeepStripe, KeepMails, KeepCustomer
<1> HIDE DEF marks
<1>3. CASE subRow[k.sub] = NoRow
  <2>1. EndSub(s)
    BY <1>3 DEF ReadSync
  <2> QED BY <1>2, <2>1, RowEndsKeeps, Kept
<1>4. CASE subRow[k.sub] # NoRow
  <2>1. subCall' = [subCall EXCEPT ![s] = record]
    BY <1>4 DEF ReadSync, StepSub
  <2>2. subRow[k.sub] \in Row /\ RowTrue(k.sub, subRow[k.sub], Ended)
    BY <1>1, <1>4, Kept
  <2>3. k.copy # NoRow => k.copy.status \in RowStatus
    BY <1>1 DEF Row
  <2> HIDE DEF k
  <2>4. record \in SubCalls
    BY <1>1, <2>2, <2>3 DEF SubCalls
  <2>5. CallTrue(record, Ended)
    BY <1>1, <2>2 DEF CallTrue, Changing, Handling
  <2> HIDE DEF record
  <2> QED BY <1>2, <2>1, <2>4, <2>5, StepKeeps, Kept
<1> QED BY <1>3, <1>4

LEMMA SaveSyncKeeps ==
  ASSUME SubInv, NEW s \in SubSlots, SaveSync(s)
  PROVE  SubInv'
<1> DEFINE k == subCall[s]
           row == [k.copy EXCEPT !.status = Mapped(k.event.status, k.copy.status),
                                 !.flag = k.event.flag]
<1>1. /\ k.sub \in SubIds /\ k.event \in Event /\ EventTrue(k.event, Ended)
      /\ k.event.sub = k.sub /\ k.copy \in Row /\ RowTrue(k.sub, k.copy, Ended)
  BY CallKinds DEF SaveSync, SubAt, Handling
<1>2. /\ subRow' = Saved(k.sub, row) /\ EndSub(s)
      /\ Welcome(k.sub) \/ UNCHANGED welcomed
      /\ UNCHANGED <<billed, notices, seen, subLoad, farewell, customer, updates>>
      /\ BlameSub({})
  BY DEF SaveSync, KeepStripe, KeepCustomer
<1>3. /\ Mapped(k.event.status, k.copy.status) \in RowStatus
      /\ Mapped(k.event.status, k.copy.status) = "canceled" =>
           k.event.status = "canceled" \/ k.copy.status = "canceled"
  BY <1>1 DEF Mapped, Row, RowStatus
<1>4. k.event.flag \in BOOLEAN
  BY <1>1 DEF Event
<1>5. row \in Row /\ (Over(row) => Over(k.copy) \/ TellsEnd(k.event))
  BY <1>1, <1>3, <1>4 DEF Row, Over, TellsEnd
<1>6. RowTrue(k.sub, row, Ended)
  BY <1>1, <1>5 DEF RowTrue, EventTrue
<1>7. welcomed' \in [SubIds -> 0..2]
  BY <1>1, <1>2, WelcomeKeeps
<1> HIDE DEF k, row
<1> QED BY <1>1, <1>2, <1>5, <1>6, <1>7, RowSavedKeeps, RowEndsKeeps, Kept

LEMMA SavePaidKeeps ==
  ASSUME SubInv, NEW s \in SubSlots, SavePaid(s)
  PROVE  SubInv'
<1> DEFINE b == subCall[s].sub
           copy == subCall[s].copy
<1>1. b \in SubIds /\ copy \in Row /\ RowTrue(b, copy, Ended)
  BY CallKinds DEF SavePaid, SubAt, Handling
<1>2. /\ subRow' = Saved(b, copy) /\ EndSub(s) /\ BlameSub({})
      /\ UNCHANGED <<billed, notices, seen, subLoad, welcomed, farewell,
                     customer, updates>>
  BY DEF SavePaid, KeepStripe, KeepMails, KeepCustomer
<1> HIDE DEF b, copy
<1> QED BY <1>1, <1>2, RowSavedKeeps, RowEndsKeeps, Kept

LEMMA SavePastDueKeeps ==
  ASSUME SubInv, NEW s \in SubSlots, SavePastDue(s)
  PROVE  SubInv'
<1> DEFINE b == subCall[s].sub
           copy == subCall[s].copy
           row == [copy EXCEPT !.status = "past_due"]
<1>1. b \in SubIds /\ copy \in Row /\ RowTrue(b, copy, Ended)
  BY CallKinds DEF SavePastDue, SubAt, Handling
<1>2. /\ subRow' = Saved(b, row) /\ EndSub(s) /\ BlameSub({})
      /\ UNCHANGED <<billed, notices, seen, subLoad, welcomed, farewell,
                     customer, updates>>
  BY DEF SavePastDue, KeepStripe, KeepMails, KeepCustomer
<1>3. row \in Row /\ (Over(row) => Over(copy))
  BY <1>1 DEF Row, RowStatus, Over
<1>4. RowTrue(b, row, Ended)
  BY <1>1, <1>3 DEF RowTrue
<1> HIDE DEF b, copy, row
<1> QED BY <1>1, <1>2, <1>3, <1>4, RowSavedKeeps, RowEndsKeeps, Kept

LEMMA EndRowKeeps ==
  ASSUME SubInv, NEW s \in SubSlots, EndRow(s)
  PROVE  SubInv'
<1> DEFINE b == subCall[s].sub
           copy == subCall[s].copy
           row == [copy EXCEPT !.status = "canceled", !.ended = TRUE]
<1>1. b \in SubIds /\ copy \in Row /\ b \in Ended
  BY CallKinds DEF EndRow, SubAt, Handling, EventTrue
<1>2. /\ EndSub(s) /\ BlameSub({})
      /\ \/ subRow' = [subRow EXCEPT ![b] = NoRow] /\ UNCHANGED farewell
         \/ subRow' = Saved(b, row) /\ farewell' = farewell \cup {b}
      /\ UNCHANGED <<billed, notices, seen, subLoad, welcomed, customer, updates>>
  BY DEF EndRow, KeepStripe, KeepCustomer
<1>3. row \in Row /\ RowTrue(b, row, Ended) /\ RowTrue(b, NoRow, Ended)
  BY <1>1 DEF Row, RowStatus, RowTrue
<1> HIDE DEF b, copy, row
<1>4. /\ subRow' \in [SubIds -> Row \cup {NoRow}]
      /\ \A a \in SubIds : RowTrue(a, subRow'[a], Ended)
  BY <1>1, <1>2, <1>3, RowSavedKeeps, Kept
<1>5. farewell' \subseteq SubIds
  BY <1>1, <1>2, Kept
<1> QED BY <1>2, <1>4, <1>5, RowEndsKeeps, Kept

LEMMA SubDiesKeeps ==
  ASSUME SubInv, NEW s \in SubSlots, SubDies(s)
  PROVE  SubInv'
<1> DEFINE marks == IF "event" \in DOMAIN subCall[s] THEN {"lost"} ELSE {}
<1>1. /\ EndSub(s) /\ marks \subseteq SubFaults /\ BlameSub(marks)
      /\ UNCHANGED <<billed, subRow, notices, seen, subLoad, welcomed, farewell,
                     customer, updates>>
  BY DEF SubDies, SubFaults, KeepStripe, KeepMails, KeepCustomer
<1> HIDE DEF marks
<1> QED BY <1>1, RowEndsKeeps, Kept

-----------------------------------------------------------------------------
(* Steps of no call: the news of a customer, the clock, the sweep.          *)
LEMMA NoCallKeeps ==
  ASSUME SubInv, UNCHANGED <<billed, notices, seen, welcomed, farewell, subCall, subLoad>>,
         subRow' \in [SubIds -> Row \cup {NoRow}],
         \A b \in SubIds : RowTrue(b, subRow'[b], Ended),
         customer' \in CustomerIds \cup {NoCustomer}, updates' \subseteq CustomerIds,
         NEW marks, marks \subseteq SubFaults, BlameSub(marks)
  PROVE  SubInv'
<1>1. Ended' = Ended
  BY DEF Ended
<1>2. SubTypeOK'
  BY Marked DEF SubInv, SubTypeOK
<1>3. WordsTrue'
  BY <1>1 DEF SubInv, WordsTrue
<1> QED BY <1>2, <1>3 DEF SubInv, CallsOK

LEMMA CustomerKeeps ==
  ASSUME SubInv, NEW c \in CustomerIds, ReceiveCustomer(c) \/ LoseCustomer(c)
  PROVE  SubInv'
<1>1. /\ UNCHANGED <<billed, subRow, notices, seen, welcomed, farewell, subCall, subLoad>>
      /\ updates' = updates \ {c} /\ (customer' = c \/ customer' = customer)
      /\ BlameSub({}) \/ BlameSub({"lost"})
  BY DEF ReceiveCustomer, LoseCustomer, KeepStripe, KeepMails
<1>2. {} \subseteq SubFaults /\ {"lost"} \subseteq SubFaults
  BY DEF SubFaults
<1> QED BY <1>1, <1>2, NoCallKeeps, Kept

LEMMA AgeKeeps ==
  ASSUME SubInv, NEW b \in SubIds, Age(b)
  PROVE  SubInv'
<1>1. /\ UNCHANGED <<billed, notices, seen, welcomed, farewell, subCall, subLoad,
                     customer, updates>>
      /\ subRow' = [subRow EXCEPT ![b] = [subRow[b] EXCEPT !.old = TRUE]]
      /\ BlameSub({}) /\ subRow[b] # NoRow
  BY DEF Age, Incomplete, KeepStripe, KeepMails, KeepCustomer
<1>2. subRow[b] \in Row /\ RowTrue(b, subRow[b], Ended)
  BY <1>1, Kept
<1>3. /\ [subRow[b] EXCEPT !.old = TRUE] \in Row
      /\ RowTrue(b, [subRow[b] EXCEPT !.old = TRUE], Ended)
  BY <1>2 DEF Row, RowTrue, Over
<1>4. /\ subRow' \in [SubIds -> Row \cup {NoRow}]
      /\ \A a \in SubIds : RowTrue(a, subRow'[a], Ended)
  BY <1>1, <1>3, Kept
<1> QED BY <1>1, <1>4, NoCallKeeps, Kept

LEMMA SweepKeeps ==
  ASSUME SubInv, SweepIncomplete
  PROVE  SubInv'
<1> DEFINE marks == IF \E b \in SubIds : Stale(b) /\ (Pending(b) \/ CallsOn(b) # {})
                    THEN {"late"} ELSE {}
<1>1. /\ UNCHANGED <<billed, notices, seen, welcomed, farewell, subCall, subLoad,
                     customer, updates>>
      /\ subRow' = [b \in SubIds |-> IF Stale(b) THEN NoRow ELSE subRow[b]]
      /\ marks \subseteq SubFaults /\ BlameSub(marks)
  BY DEF SweepIncomplete, SubFaults, KeepStripe, KeepMails, KeepCustomer
<1> HIDE DEF marks
<1>2. \A b \in SubIds : subRow'[b] = NoRow \/ subRow'[b] = subRow[b]
  BY <1>1
<1>3. subRow' \in [SubIds -> Row \cup {NoRow}]
  BY <1>1, Kept
<1>4. \A b \in SubIds : RowTrue(b, subRow'[b], Ended)
  BY <1>2, Kept, NoRowAssumption DEF RowTrue
<1> QED BY <1>1, <1>3, <1>4, NoCallKeeps, Kept

-----------------------------------------------------------------------------
(* Every step, Stripe's own first.                                          *)
LEMMA StripeKeeps ==
  ASSUME SubInv, NEW b \in SubIds,
         \/ FirstPayment(b) \/ FirstDecline(b) \/ GiveUpUnpaid(b)
         \/ Renewal(b) \/ FailedRenewal(b) \/ PeriodEnd(b)
  PROVE  SubInv'
<1> USE DEF StripeStatus, SubFaults
<1>1. CASE FirstPayment(b)
  BY <1>1, MoveKeeps DEF FirstPayment
<1>2. CASE FirstDecline(b)
  BY <1>2, MoveKeeps DEF FirstDecline
<1>3. CASE GiveUpUnpaid(b)
  BY <1>3, MoveKeeps DEF GiveUpUnpaid
<1>4. CASE Renewal(b)
  BY <1>4, MoveKeeps DEF Renewal
<1>5. CASE FailedRenewal(b)
  BY <1>5, MoveKeeps DEF FailedRenewal
<1>6. CASE PeriodEnd(b)
  BY <1>6, MoveKeeps DEF PeriodEnd
<1> QED BY <1>1, <1>2, <1>3, <1>4, <1>5, <1>6

LEMMA SubInitHolds ==
  ASSUME SubInit
  PROVE  SubInv
<1>1. subLoad.customer \in CustomerIds \cup {NoCustomer} /\ MaxChanges \in Nat
  BY SubAssumption DEF SubInit
<1>2. SubTypeOK
  BY <1>1 DEF SubInit, SubTypeOK, Billed, StripeStatus
<1>3. CallsOK
  BY IdleCall DEF SubInit, CallsOK
<1>4. WordsTrue
  <2>1. \A b \in SubIds : RowTrue(b, subRow[b], Ended)
    BY NoRowAssumption DEF SubInit, RowTrue
  <2>2. \A s \in SubSlots : CallTrue(subCall[s], Ended)
    BY IdleCall DEF SubInit
  <2> QED BY <2>1, <2>2 DEF SubInit, WordsTrue
<1> QED BY <1>2, <1>3, <1>4 DEF SubInv

LEMMA SubNextKeeps ==
  ASSUME SubInv, [SubNext]_subVars
  PROVE  SubInv'
<1>0. subLoad.subs \subseteq SubIds /\ subLoad.slots \subseteq SubSlots
  BY SubAssumption DEF SubInv, SubTypeOK
<1>1. CASE UNCHANGED subVars
  <2>1. Ended' = Ended
    BY <1>1 DEF Ended, subVars
  <2> QED BY <1>1, <2>1 DEF subVars, SubInv, SubTypeOK, CallsOK, WordsTrue
<1>2. ASSUME NEW b \in subLoad.subs,
             \/ FirstPayment(b) \/ FirstDecline(b) \/ GiveUpUnpaid(b)
             \/ Renewal(b) \/ FailedRenewal(b) \/ PeriodEnd(b) \/ Age(b)
      PROVE  SubInv'
  BY <1>0, <1>2, StripeKeeps, AgeKeeps
<1>3. ASSUME NEW s \in subLoad.slots,
             \/ ReadUser(s)
             \/ \E c \in CustomerIds : CreateCustomer(s, c)
             \/ \E b \in subLoad.subs : CreateSubscription(s, b)
             \/ InsertRow(s)
             \/ AnswerSecret(s)
      PROVE  SubInv'
  BY <1>0, <1>3, ReadUserKeeps, CreateCustomerKeeps, CreateSubscriptionKeeps,
     InsertRowKeeps, AnswerSecretKeeps
<1>4. ASSUME NEW s \in subLoad.slots,
             \/ \E b \in subLoad.subs, op \in SubChanges : BeginChange(s, b, op)
             \/ AskStripe(s)
             \/ SaveChange(s)
      PROVE  SubInv'
  BY <1>0, <1>4, BeginChangeKeeps, AskStripeKeeps, SaveChangeKeeps
<1>5. ASSUME NEW s \in subLoad.slots,
             \/ \E e \in notices : BeginEvent(s, e) \/ HandleCreated(s, e)
             \/ ReadSync(s)
             \/ SaveSync(s)
             \/ SavePaid(s)
             \/ SavePastDue(s)
             \/ EndRow(s)
             \/ SubDies(s)
      PROVE  SubInv'
  BY <1>0, <1>5, BeginEventKeeps, HandleCreatedKeeps, ReadSyncKeeps,
     SaveSyncKeeps, SavePaidKeeps, SavePastDueKeeps, EndRowKeeps, SubDiesKeeps
<1>6. ASSUME NEW c \in CustomerIds, ReceiveCustomer(c) \/ LoseCustomer(c)
      PROVE  SubInv'
  BY <1>6, CustomerKeeps
<1>7. CASE SweepIncomplete
  BY <1>7, SweepKeeps
<1> QED BY <1>1, <1>2, <1>3, <1>4, <1>5, <1>6, <1>7 DEF SubNext

-----------------------------------------------------------------------------
(* Whatever webhook events come late, out of order, twice overlapping or    *)
(* not at all, and wherever handlers, owner's requests and the sweep stop,  *)
(* a row of payment-service that says cancelled, or that it ended, is of a  *)
(* subscription Stripe bills no more: no fault is needed to excuse it.      *)
THEOREM CancelledRowsAreOver == SubSpec => []CancelledIsOver
<1>1. SubInv => CancelledIsOver
  BY DEF SubInv, SubTypeOK, WordsTrue, RowTrue, Over, Ended, CancelledIsOver
<1> QED BY <1>1, SubInitHolds, SubNextKeeps, PTL DEF SubSpec

(* The model's variables keep their types, whatever is called or lost.      *)
THEOREM SubscriptionsTyped == SubSpec => []SubTypeOK
<1>1. SubInv => SubTypeOK
  BY DEF SubInv
<1> QED BY <1>1, SubInitHolds, SubNextKeeps, PTL DEF SubSpec
-----------------------------------------------------------------------------
(* A subscription and its row with nothing on its way.                      *)
(* What is on its way for a subscription: events, and calls.                *)
EventsOf(b) == {e \in notices : e.sub = b}
CallsOf(b) == {subCall[s] : s \in CallsOn(b)}

Creates(k) == k.pc \in {"insert", "answer"}
Syncs(k) == k.pc \in {"updated", "sync"}

Alone ==
  "overlap" \notin subFault =>
    \A b \in SubIds : \A s, z \in CallsOn(b) : s = z

(* One call of a subscription begins, goes on or ends.                      *)
CallBegins(b, k) ==
  /\ CallsOf(b)' = CallsOf(b) \cup {k}
  /\ "overlap" \notin subFault' => CallsOf(b) = {}
CallMoves(b, k, m) ==
  /\ k \in CallsOf(b) /\ m \in CallsOf(b)' /\ CallsOf(b)' \subseteq CallsOf(b) \cup {m}
  /\ "overlap" \notin subFault => CallsOf(b) = {k} /\ CallsOf(b)' = {m}
CallEnds(b, k) ==
  /\ k \in CallsOf(b) /\ CallsOf(b)' \subseteq CallsOf(b)
  /\ "overlap" \notin subFault => CallsOf(b) = {k} /\ CallsOf(b)' = {}

(* The marks of a step that leaves something on its way, or something to    *)
(* excuse.                                                                  *)
Blames(marks) ==
  /\ subFault \subseteq subFault' /\ marks \subseteq subFault'
  /\ \A b \in SubIds : Cardinality(CallsOn(b)') > 1 => "overlap" \in subFault'

SubSettled == SubQuiet /\ \A b \in SubIds : Follows(b)

LEMMA BlamedOrSettled ==
  ASSUME NEW marks, BlameSub(marks)
  PROVE  SubSettled' \/ Blames(marks)
  BY DEF BlameSub, SubSettled, Blames

(* Who is on a subscription.                                                *)
LEMMA OnIt ==
  ASSUME NEW b \in SubIds
  PROVE  /\ \A s : s \in CallsOn(b) <=> /\ s \in SubSlots
                                        /\ subCall[s] # NoSubCall
                                        /\ subCall[s].sub = b
         /\ \A k : k \in CallsOf(b) <=>
              \E s \in SubSlots : subCall[s] = k /\ k # NoSubCall /\ k.sub = b
  BY DEF CallsOn, SubBusy, CallsOf

LEMMA OnItNext ==
  ASSUME NEW b \in SubIds
  PROVE  /\ \A s : s \in CallsOn(b)' <=> /\ s \in SubSlots
                                         /\ subCall'[s] # NoSubCall
                                         /\ subCall'[s].sub = b
         /\ \A k : k \in CallsOf(b)' <=>
              \E s \in SubSlots : subCall'[s] = k /\ k # NoSubCall /\ k.sub = b
  BY DEF CallsOn, SubBusy, CallsOf

LEMMA AtMostOne ==
  ASSUME NEW S, NEW x, NEW y, S \subseteq {x, y}, ~(Cardinality(S) > 1)
  PROVE  \A u, v \in S : u = v
<1> SUFFICES ASSUME NEW u \in S, NEW v \in S, u # v
             PROVE  FALSE
  OBVIOUS
<1>1. S = {u, v}
  OBVIOUS
<1>2. IsFiniteSet({u}) /\ Cardinality({u}) = 1
  BY FS_Singleton
<1>3. Cardinality({u} \cup {v}) = Cardinality({u}) + 1
  BY <1>2, FS_AddElement
<1>4. {u} \cup {v} = S
  BY <1>1
<1> QED BY <1>2, <1>3, <1>4

(* What a change of one slot does to the calls of a subscription.           *)
LEMMA SlotElsewhere ==
  ASSUME CallsOK, NEW s \in SubSlots, NEW record,
         subCall' = [subCall EXCEPT ![s] = record], NEW b \in SubIds,
         subCall[s] = NoSubCall \/ subCall[s].sub # b,
         record = NoSubCall \/ record.sub # b
  PROVE  CallsOf(b)' = CallsOf(b)
<1>1. \A z \in SubSlots : subCall'[z] = IF z = s THEN record ELSE subCall[z]
  BY DEF CallsOK
<1>2. \A m : m \in CallsOf(b)' <=> m \in CallsOf(b)
  BY <1>1, OnIt, OnItNext
<1> QED BY <1>2

LEMMA SlotBegins ==
  ASSUME CallsOK, Alone', NEW s \in SubSlots, NEW record,
         subCall' = [subCall EXCEPT ![s] = record], NEW b \in SubIds,
         subCall[s] = NoSubCall \/ subCall[s].sub # b,
         record # NoSubCall, record.sub = b
  PROVE  CallBegins(b, record)
<1>1. \A z \in SubSlots : subCall'[z] = IF z = s THEN record ELSE subCall[z]
  BY DEF CallsOK
<1>2. CallsOf(b)' = CallsOf(b) \cup {record}
  BY <1>1, OnIt, OnItNext
<1>3. CallsOn(b)' = CallsOn(b) \cup {s} /\ s \notin CallsOn(b)
  BY <1>1, OnIt, OnItNext
<1>4. ASSUME "overlap" \notin subFault'
      PROVE  CallsOn(b) = {}
  BY <1>3, <1>4 DEF Alone
<1> QED BY <1>2, <1>4 DEF CallBegins, CallsOf

LEMMA SlotMoves ==
  ASSUME CallsOK, Alone, NEW s \in SubSlots, NEW record,
         subCall' = [subCall EXCEPT ![s] = record], NEW b \in SubIds,
         subCall[s] # NoSubCall, subCall[s].sub = b,
         record # NoSubCall, record.sub = b
  PROVE  CallMoves(b, subCall[s], record)
<1> DEFINE k == subCall[s]
<1>1. \A z \in SubSlots : subCall'[z] = IF z = s THEN record ELSE subCall[z]
  BY DEF CallsOK
<1>2. \A z : z \in CallsOn(b)' <=> z \in CallsOn(b)
  BY <1>1, OnIt, OnItNext
<1>3. CallsOn(b)' = CallsOn(b)
  BY <1>2
<1>4. k \in CallsOf(b) /\ record \in CallsOf(b)' /\ CallsOf(b)' \subseteq CallsOf(b) \cup {record}
  BY <1>1, OnIt, OnItNext
<1>5. ASSUME "overlap" \notin subFault
      PROVE  CallsOf(b) = {k} /\ CallsOf(b)' = {record}
  <2>1. CallsOn(b) = {s}
    BY <1>5, OnIt DEF Alone
  <2> QED BY <1>1, <1>3, <2>1 DEF CallsOf
<1> QED BY <1>4, <1>5 DEF CallMoves

LEMMA SlotEnds ==
  ASSUME CallsOK, Alone, NEW s \in SubSlots,
         subCall' = [subCall EXCEPT ![s] = NoSubCall], NEW b \in SubIds,
         subCall[s] # NoSubCall, subCall[s].sub = b
  PROVE  CallEnds(b, subCall[s])
<1> DEFINE k == subCall[s]
<1>1. \A z \in SubSlots : subCall'[z] = IF z = s THEN NoSubCall ELSE subCall[z]
  BY DEF CallsOK
<1>2. CallsOn(b)' = CallsOn(b) \ {s}
  BY <1>1, OnIt, OnItNext
<1>3. k \in CallsOf(b) /\ CallsOf(b)' \subseteq CallsOf(b)
  BY <1>1, OnIt, OnItNext
<1>4. ASSUME "overlap" \notin subFault
      PROVE  CallsOf(b) = {k} /\ CallsOf(b)' = {}
  <2>1. CallsOn(b) = {s}
    BY <1>4, OnIt DEF Alone
  <2> QED BY <1>2, <2>1 DEF CallsOf
<1> QED BY <1>3, <1>4 DEF CallEnds

(* A call alone on its subscription stays alone, or the overlap is marked.  *)
LEMMA AloneKept ==
  ASSUME CallsOK, Alone, NEW s \in SubSlots, NEW record,
         subCall' = [subCall EXCEPT ![s] = record],
         NEW marks, BlameSub(marks)
  PROVE  Alone'
<1> SUFFICES ASSUME "overlap" \notin subFault', NEW b \in SubIds
             PROVE  \A x, y \in CallsOn(b)' : x = y
  BY DEF Alone
<1>1. CASE SubSettled'
  BY <1>1 DEF SubSettled, SubQuiet, CallsOn
<1>2. CASE Blames(marks)
  <2>1. \A x, y \in CallsOn(b) : x = y
    BY <1>2 DEF Blames, Alone
  <2>2. \A z \in SubSlots : z # s => subCall'[z] = subCall[z]
    BY DEF CallsOK
  <2>3. CallsOn(b)' \subseteq CallsOn(b) \cup {s}
    BY <2>2, OnIt, OnItNext
  <2>4. PICK z : CallsOn(b) \subseteq {z}
    BY <2>1
  <2>5. ~(Cardinality(CallsOn(b)') > 1)
    BY <1>2 DEF Blames
  <2>6. CallsOn(b)' \subseteq {z, s}
    BY <2>3, <2>4
  <2> HIDE DEF Alone
  <2> QED BY <2>5, <2>6, AtMostOne
<1> QED BY <1>1, <1>2, BlamedOrSettled

-----------------------------------------------------------------------------
(* What a subscription has been through, in every state.                    *)
Created(b, k) ==
  /\ billed[b].status \in {"incomplete", "canceled"}
  /\ ~billed[b].paid /\ ~billed[b].secret
  /\ k.pc = "answer" /\ billed[b].status = "incomplete" => subRow[b] # NoRow

LifeTrue(b) ==
  /\ seen[b] <= billed[b].n
  /\ Live(b) => billed[b].paid
  /\ billed[b].status \in {"none", "incomplete"} => ~billed[b].paid
  /\ billed[b].status = "none" => /\ subRow[b] = NoRow /\ ~billed[b].secret
                                  /\ CallsOf(b) = {} /\ EventsOf(b) = {}
  /\ billed[b].status = "incomplete" =>
       /\ subRow[b] # NoRow => ~subRow[b].old
       /\ billed[b].secret => subRow[b] # NoRow
  /\ b \in farewell => billed[b].status = "canceled"
  /\ \A e \in EventsOf(b) : e.n <= billed[b].n
  /\ \A k \in CallsOf(b) : /\ Handling(k) => k.event.n <= seen[b]
                           /\ Creates(k) => Created(b, k)

OneCreation ==
  \A s, z \in SubSlots :
    Creates(subCall[s]) /\ Creates(subCall[z]) /\ subCall[s].sub = subCall[z].sub
      => s = z

LifeInv == SubInv /\ Alone /\ OneCreation /\ \A b \in SubIds : LifeTrue(b)

Rests(b) ==
  /\ billed'[b] = billed[b] /\ subRow'[b] = subRow[b] /\ seen'[b] = seen[b]
  /\ welcomed'[b] = welcomed[b] /\ (b \in farewell' <=> b \in farewell)
  /\ EventsOf(b)' = EventsOf(b) /\ CallsOf(b)' = CallsOf(b)

LEMMA RestsLife ==
  ASSUME NEW b \in SubIds, LifeTrue(b), Rests(b)
  PROVE  LifeTrue(b)'
  BY DEF LifeTrue, Rests, Live, Created

(* Stripe stays as it is; the row changes, a call begins or goes on.        *)
LEMMA LifeStays ==
  ASSUME SubInv, NEW b \in SubIds, LifeTrue(b), billed'[b] = billed[b],
         \/ subRow'[b] = subRow[b]
         \/ /\ billed[b].status # "none"
            /\ billed[b].status = "incomplete" =>
                 subRow'[b] # NoRow /\ ~subRow'[b].old,
         EventsOf(b)' \subseteq EventsOf(b),
         seen[b] <= seen'[b], seen'[b] <= billed[b].n, seen'[b] \in Nat,
         b \in farewell' => b \in farewell \/ billed[b].status = "canceled",
         \A k \in CallsOf(b)' \ CallsOf(b) :
           /\ billed[b].status # "none"
           /\ Handling(k) => k.event.n <= seen'[b] /\ k.event.n \in Nat
           /\ Creates(k) => /\ \E m \in CallsOf(b) : Creates(m)
                            /\ subRow'[b] # NoRow
  PROVE  LifeTrue(b)'
<1>1. /\ seen'[b] <= billed'[b].n
      /\ Live(b)' => billed'[b].paid
      /\ billed'[b].status \in {"none", "incomplete"} => ~billed'[b].paid
      /\ b \in farewell' => billed'[b].status = "canceled"
      /\ \A e \in EventsOf(b)' : e.n <= billed'[b].n
  BY DEF LifeTrue, Live
<1>2. billed'[b].status = "none" => /\ subRow'[b] = NoRow /\ ~billed'[b].secret
                                    /\ CallsOf(b)' = {} /\ EventsOf(b)' = {}
  BY DEF LifeTrue
<1>3. billed'[b].status = "incomplete" =>
        /\ subRow'[b] # NoRow => ~subRow'[b].old
        /\ billed'[b].secret => subRow'[b] # NoRow
  BY DEF LifeTrue
<1>4. ASSUME NEW k \in CallsOf(b)'
      PROVE  (Handling(k) => k.event.n <= seen'[b]) /\ (Creates(k) => Created(b, k)')
  <2>1. CASE k \notin CallsOf(b)
    BY <1>4, <2>1 DEF LifeTrue, Created
  <2>2. CASE k \in CallsOf(b)
    <3>1. Handling(k) => k.event.n <= seen[b] /\ k.event.n \in Nat /\ seen[b] \in Nat
      <4>1. PICK s \in SubSlots : subCall[s] = k
        BY <2>2, OnIt
      <4>2. Handling(k) => k.event \in Event
        BY <4>1, CallKinds
      <4> QED BY <2>2, <4>2, SubAssumption DEF LifeTrue, Event, SubInv, SubTypeOK
    <3>2. Creates(k) => Created(b, k)'
      BY <2>2 DEF LifeTrue, Created
    <3> QED BY <3>1, <3>2, SubAssumption DEF SubInv, SubTypeOK
  <2> QED BY <1>4, <2>1, <2>2
<1> QED BY <1>1, <1>2, <1>3, <1>4 DEF LifeTrue

(* Stripe changes a subscription it has.                                    *)
LEMMA LifeChanges ==
  ASSUME SubInv, NEW b \in SubIds, LifeTrue(b), billed[b].status # "none",
         NEW new \in Billed, new.n = billed[b].n, new.secret = billed[b].secret,
         NEW kinds, ChangeAtStripe(b, new, kinds), new.status # "none",
         new.status = "incomplete" => billed[b].status = "incomplete",
         billed[b].status = "canceled" => new.status = "canceled",
         billed[b].paid => new.paid,
         new.paid => billed[b].paid \/ billed[b].secret,
         new.paid \/ new.status \in {"incomplete", "canceled"},
         new.paid => new.status # "incomplete",
         UNCHANGED <<subRow, seen, farewell>>,
         \A k \in CallsOf(b)' : k \in CallsOf(b) \/ (~Handling(k) /\ ~Creates(k))
  PROVE  LifeTrue(b)'
<1>1. billed'[b] = [new EXCEPT !.n = @ + 1] /\ billed[b].n \in Nat /\ seen[b] \in Nat
  BY SubAssumption DEF SubInv, SubTypeOK, Billed, ChangeAtStripe
<1>2. billed'[b].n = billed[b].n + 1 /\ billed'[b].status = new.status
      /\ billed'[b].paid = new.paid /\ billed'[b].secret = new.secret
  BY <1>1 DEF Billed
<1>3. \A e \in EventsOf(b)' : e.n <= billed'[b].n
  <2>1. SUFFICES ASSUME NEW e \in EventsOf(b)'
                 PROVE  e.n <= billed[b].n + 1
    BY <1>2
  <2>2. CASE e \in notices
    <3>1. e.n <= billed[b].n /\ e.n \in Nat
      BY <2>1, <2>2, SubAssumption DEF EventsOf, LifeTrue, SubInv, SubTypeOK, Event
    <3> QED BY <1>1, <3>1
  <2>3. CASE e \notin notices
    <3>1. e.n = new.n + 1
      BY <2>1, <2>3 DEF EventsOf, ChangeAtStripe
    <3> QED BY <1>1, <3>1
  <2> QED BY <2>2, <2>3
<1>4. seen'[b] <= billed'[b].n
  BY <1>1, <1>2 DEF LifeTrue
<1>5. /\ Live(b)' => billed'[b].paid
      /\ billed'[b].status \in {"none", "incomplete"} => ~billed'[b].paid
      /\ billed'[b].status # "none"
      /\ billed'[b].status = "incomplete" =>
           /\ subRow'[b] # NoRow => ~subRow'[b].old
           /\ billed'[b].secret => subRow'[b] # NoRow
      /\ b \in farewell' => billed'[b].status = "canceled"
  BY <1>2 DEF LifeTrue, Live
<1>6. \A k \in CallsOf(b)' : /\ Handling(k) => k.event.n <= seen'[b]
                             /\ Creates(k) => Created(b, k)'
  BY <1>2 DEF LifeTrue, Created
<1> QED BY <1>3, <1>4, <1>5, <1>6 DEF LifeTrue
-----------------------------------------------------------------------------
(* What the steps do to a subscription; to the others they do nothing.      *)
LEMMA EventsKept ==
  ASSUME UNCHANGED notices, NEW b
  PROVE  EventsOf(b)' = EventsOf(b)
  BY DEF EventsOf

LEMMA CallsKept ==
  ASSUME UNCHANGED subCall, NEW b
  PROVE  CallsOf(b)' = CallsOf(b) /\ CallsOn(b)' = CallsOn(b)
  BY DEF CallsOf, CallsOn, SubBusy

LEMMA Elsewhere ==
  ASSUME CallsOK, NEW s \in SubSlots, NEW record, NEW b,
         subCall' = [subCall EXCEPT ![s] = record],
         subCall[s] = NoSubCall \/ subCall[s].sub \in {b, NoRow},
         record = NoSubCall \/ record.sub \in {b, NoRow},
         NEW a \in SubIds, a # b,
         billed'[a] = billed[a], subRow'[a] = subRow[a], seen'[a] = seen[a],
         welcomed'[a] = welcomed[a], a \in farewell' <=> a \in farewell,
         EventsOf(a)' = EventsOf(a)
  PROVE  Rests(a)
<1>1. /\ subCall[s] = NoSubCall \/ subCall[s].sub # a
      /\ record = NoSubCall \/ record.sub # a
  BY NoRowAssumption
<1>2. CallsOf(a)' = CallsOf(a)
  BY <1>1, SlotElsewhere
<1> QED BY <1>2 DEF Rests

(* A change at Stripe adds its events, and no other.                        *)
LEMMA ChangeSays ==
  ASSUME SubTypeOK, NEW b \in SubIds, NEW new \in Billed, NEW kinds,
         ChangeAtStripe(b, new, kinds)
  PROVE  /\ billed'[b] = [new EXCEPT !.n = @ + 1]
         /\ EventsOf(b)' = EventsOf(b) \cup
              {[sub |-> b, kind |-> k, status |-> new.status, flag |-> new.flag,
                n |-> new.n + 1] : k \in kinds}
         /\ \A a \in SubIds : a # b => /\ billed'[a] = billed[a]
                                       /\ EventsOf(a)' = EventsOf(a)
<1> DEFINE news == {[sub |-> b, kind |-> k, status |-> new.status,
                     flag |-> new.flag, n |-> new.n + 1] : k \in kinds}
<1>1. notices' = notices \cup news
  BY DEF ChangeAtStripe
<1>2. \A e \in news : e.sub = b
  OBVIOUS
<1> HIDE DEF news
<1>3. EventsOf(b)' = EventsOf(b) \cup news
  BY <1>1, <1>2 DEF EventsOf
<1>4. \A a \in SubIds : a # b => EventsOf(a)' = EventsOf(a)
  BY <1>1, <1>2 DEF EventsOf
<1>5. /\ billed'[b] = [new EXCEPT !.n = @ + 1]
      /\ \A a \in SubIds : a # b => billed'[a] = billed[a]
  BY DEF SubTypeOK, ChangeAtStripe
<1> QED BY <1>3, <1>4, <1>5 DEF news

(* What Stripe does by itself.                                              *)
Moved(b, to) == [billed[b] EXCEPT !.status = to, !.paid = @ \/ to = "active"]

LEMMA MoveSteps ==
  ASSUME LifeInv, NEW b \in SubIds, NEW from, NEW to \in StripeStatus, NEW kinds,
         StripeMoves(b, from, to, kinds)
  PROVE  /\ Moved(b, to) \in Billed /\ ChangeAtStripe(b, Moved(b, to), kinds)
         /\ billed[b].status \in from
         /\ UNCHANGED <<subRow, seen, welcomed, farewell, subCall, customer, updates>>
         /\ \A a \in SubIds : a # b => Rests(a)
<1>1. /\ ChangeAtStripe(b, Moved(b, to), kinds) /\ billed[b].status \in from
      /\ UNCHANGED <<subRow, seen, welcomed, farewell, subCall, customer, updates>>
  BY DEF StripeMoves, KeepMails, KeepCustomer, Moved
<1>2. Moved(b, to) \in Billed
  BY DEF Moved, LifeInv, SubInv, SubTypeOK, Billed
<1>3. \A a \in SubIds : a # b => billed'[a] = billed[a] /\ EventsOf(a)' = EventsOf(a)
  BY <1>1, <1>2, ChangeSays DEF LifeInv, SubInv
<1>4. \A a \in SubIds : a # b => Rests(a)
  BY <1>1, <1>3, CallsKept DEF Rests
<1> QED BY <1>1, <1>2, <1>4

LEMMA MoveLife ==
  ASSUME LifeInv, NEW b \in SubIds, NEW from, NEW to \in StripeStatus, NEW kinds,
         StripeMoves(b, from, to, kinds),
         "canceled" \notin from, "none" \notin from, to # "none",
         to = "incomplete" => from = {"incomplete"},
         to = "active" /\ "incomplete" \in from => billed[b].secret,
         to \in {"past_due", "trialing"} => "incomplete" \notin from
  PROVE  \A a \in SubIds : LifeTrue(a)'
<1> DEFINE new == Moved(b, to)
<1>1. /\ new \in Billed /\ ChangeAtStripe(b, new, kinds) /\ billed[b].status \in from
      /\ UNCHANGED <<subRow, seen, farewell, subCall>>
      /\ \A a \in SubIds : a # b => Rests(a)
  BY MoveSteps
<1>2. /\ billed[b] \in Billed /\ new.status = to /\ new.n = billed[b].n
      /\ new.secret = billed[b].secret
      /\ new.paid = (billed[b].paid \/ to = "active")
  BY DEF Moved, LifeInv, SubInv, SubTypeOK, Billed
<1>3. LifeTrue(b) /\ SubInv
  BY DEF LifeInv
<1>4. billed[b].status \in {"incomplete", "active", "past_due", "trialing"}
  BY <1>1, <1>2 DEF Billed, StripeStatus
<1>5. /\ billed[b].status # "incomplete" => billed[b].paid
      /\ billed[b].status = "incomplete" => ~billed[b].paid
  BY <1>3, <1>4 DEF LifeTrue, Live
<1>6. CallsOf(b)' = CallsOf(b)
  BY <1>1, CallsKept
<1>7. /\ new.paid => billed[b].paid \/ billed[b].secret
      /\ new.paid \/ new.status \in {"incomplete", "canceled"}
      /\ new.paid => new.status # "incomplete"
      /\ billed[b].paid => new.paid
      /\ new.status = "incomplete" => billed[b].status = "incomplete"
  BY <1>1, <1>2, <1>4, <1>5 DEF StripeStatus
<1> HIDE DEF new
<1>8. LifeTrue(b)'
  <2>1. /\ billed[b].status # "none" /\ billed[b].status # "canceled"
        /\ new.status # "none" /\ UNCHANGED <<subRow, seen, farewell>>
    BY <1>1, <1>2, <1>4, <1>6
  <2> QED BY <1>1, <1>2, <1>3, <1>6, <1>7, <2>1, LifeChanges
<1>9. \A a \in SubIds : a # b => LifeTrue(a)'
  BY <1>1, RestsLife DEF LifeInv
<1> QED BY <1>8, <1>9

(* A call on one subscription, that changes nothing at Stripe.              *)
Only(b) == \A a \in SubIds : a # b => Rests(a)

Here(b) ==
  /\ billed'[b] = billed[b] /\ seen'[b] = seen[b] /\ EventsOf(b)' = EventsOf(b)

LEMMA CallHere ==
  ASSUME LifeInv, NEW s \in SubSlots, NEW record, NEW b,
         subCall' = [subCall EXCEPT ![s] = record],
         subCall[s] = NoSubCall \/ subCall[s].sub \in {b, NoRow},
         record = NoSubCall \/ record.sub \in {b, NoRow},
         UNCHANGED <<billed, notices, seen>>,
         \A a \in SubIds : a # b =>
           /\ subRow'[a] = subRow[a] /\ welcomed'[a] = welcomed[a]
           /\ a \in farewell' <=> a \in farewell
  PROVE  Only(b) /\ Here(b)
<1>1. CallsOK
  BY DEF LifeInv, SubInv
<1>2. \A a : EventsOf(a)' = EventsOf(a)
  BY EventsKept
<1>3. ASSUME NEW a \in SubIds, a # b
      PROVE  Rests(a)
  BY <1>1, <1>2, <1>3, Elsewhere
<1> QED BY <1>2, <1>3 DEF Only, Here

LEMMA OnlyLife ==
  ASSUME LifeInv, NEW b, Only(b), b \in SubIds => LifeTrue(b)'
  PROVE  \A a \in SubIds : LifeTrue(a)'
  BY RestsLife DEF Only, LifeInv

(* A call saves a row and ends.                                             *)
Saves(b, k, r) ==
  /\ Here(b) /\ CallEnds(b, k) /\ UNCHANGED farewell
  /\ subRow'[b] = [r EXCEPT !.old = FALSE] /\ subRow'[b] # NoRow

LEMMA SaveSteps ==
  ASSUME LifeInv, NEW s \in SubSlots, NEW k, k = subCall[s],
         k.pc \in {"save", "sync", "paid", "failed"}, NEW r \in Row,
         subRow' = Saved(k.sub, r), EndSub(s),
         UNCHANGED <<billed, notices, seen, farewell>>,
         welcomed' = welcomed \/ Welcome(k.sub)
  PROVE  /\ k.sub \in SubIds /\ k \in CallsOf(k.sub) /\ Only(k.sub)
         /\ Saves(k.sub, k, r) /\ \A a \in SubIds : LifeTrue(a)'
<1> DEFINE b == k.sub
<1>1. b \in SubIds /\ k # NoSubCall
  BY CallKinds DEF LifeInv, Changing, Handling, NoSubCall
<1>2. subCall' = [subCall EXCEPT ![s] = NoSubCall]
  BY DEF EndSub
<1>3. /\ \A a \in SubIds : a # b => subRow'[a] = subRow[a] /\ welcomed'[a] = welcomed[a]
      /\ subRow'[b] = [r EXCEPT !.old = FALSE]
  BY <1>1 DEF Saved, Welcome, LifeInv, SubInv, SubTypeOK
<1>4. subRow'[b] \in Row /\ ~subRow'[b].old
  BY <1>3 DEF Row
<1> HIDE DEF b
<1>5. subCall[s] # NoSubCall /\ subCall[s].sub = b
  BY <1>1 DEF b
<1>6. Only(b) /\ Here(b)
  BY <1>2, <1>3, <1>5, CallHere
<1>7. CallEnds(b, k)
  BY <1>1, <1>2, <1>5, SlotEnds DEF LifeInv, SubInv
<1>8. k \in CallsOf(b) /\ CallsOf(b)' \subseteq CallsOf(b) /\ billed[b].status # "none"
  BY <1>1, <1>7 DEF CallEnds, LifeInv, LifeTrue
<1>9. subRow'[b] # NoRow
  BY <1>4, NoRowAssumption
<1>10. LifeTrue(b)'
  <2>1. LifeTrue(b) /\ seen[b] <= billed[b].n /\ seen[b] \in Nat /\ SubInv
    BY <1>1, SubAssumption DEF LifeInv, LifeTrue, SubInv, SubTypeOK
  <2>2. /\ billed'[b] = billed[b] /\ seen'[b] = seen[b]
        /\ EventsOf(b)' \subseteq EventsOf(b) /\ (b \in farewell' => b \in farewell)
        /\ seen[b] <= seen'[b]
    BY <1>6, <2>1 DEF Here
  <2> QED BY <1>1, <1>4, <1>8, <1>9, <2>1, <2>2, LifeStays
<1>11. \A a \in SubIds : LifeTrue(a)'
  BY <1>6, <1>10, OnlyLife
<1>12. Saves(b, k, r)
  BY <1>3, <1>6, <1>7, <1>9 DEF Saves
<1> QED BY <1>1, <1>6, <1>8, <1>11, <1>12 DEF b

(* A call ends where it is.                                                 *)
Drops(b, k) ==
  /\ Here(b) /\ CallEnds(b, k) /\ UNCHANGED <<subRow, welcomed, farewell>>

LEMMA Frame ==
  ASSUME LifeInv, NEW b \in SubIds
  PROVE  /\ LifeTrue(b) /\ SubInv /\ CallsOK /\ Alone /\ billed[b] \in Billed
         /\ seen[b] <= billed[b].n /\ seen[b] \in Nat /\ billed[b].n \in Nat
         /\ subRow[b] \in Row \cup {NoRow} /\ seen[b] <= seen[b]
         /\ CallsOf(b) # {} => billed[b].status # "none"
  BY SubAssumption DEF LifeInv, LifeTrue, SubInv, SubTypeOK, Billed

LEMMA DropSteps ==
  ASSUME LifeInv, NEW s \in SubSlots, NEW k, k = subCall[s], k # NoSubCall,
         k.sub \in SubIds, EndSub(s),
         UNCHANGED <<billed, subRow, notices, seen, welcomed, farewell>>
  PROVE  /\ k \in CallsOf(k.sub) /\ Only(k.sub) /\ Drops(k.sub, k)
         /\ \A a \in SubIds : LifeTrue(a)'
<1> DEFINE b == k.sub
<1>1. subCall' = [subCall EXCEPT ![s] = NoSubCall] /\ b \in SubIds
  BY DEF EndSub
<1>2. subCall[s] # NoSubCall /\ subCall[s].sub = b
  OBVIOUS
<1> HIDE DEF b
<1>3. Only(b) /\ Here(b)
  BY <1>1, <1>2, CallHere
<1>4. CallEnds(b, k)
  BY <1>1, <1>2, SlotEnds, Frame
<1>5. LifeTrue(b)'
  <2>1. /\ billed'[b] = billed[b] /\ seen'[b] = seen[b] /\ subRow'[b] = subRow[b]
        /\ EventsOf(b)' \subseteq EventsOf(b) /\ (b \in farewell' => b \in farewell)
        /\ seen[b] <= seen'[b] /\ CallsOf(b)' \subseteq CallsOf(b)
    BY <1>1, <1>3, <1>4, Frame DEF Here, CallEnds
  <2> QED BY <1>1, <2>1, LifeStays, Frame
<1>6. \A a \in SubIds : LifeTrue(a)'
  BY <1>3, <1>5, OnlyLife
<1>7. Drops(b, k) /\ k \in CallsOf(b)
  BY <1>3, <1>4 DEF Drops, CallEnds
<1> QED BY <1>3, <1>6, <1>7 DEF b

(* A call that is on no subscription yet, or the news of a customer.        *)
LEMMA NobodysSteps ==
  ASSUME LifeInv, NEW s \in SubSlots, NEW record,
         \/ subCall' = [subCall EXCEPT ![s] = record]
         \/ UNCHANGED subCall,
         subCall[s] = NoSubCall \/ subCall[s].sub = NoRow,
         record = NoSubCall \/ record.sub = NoRow,
         UNCHANGED <<billed, subRow, notices, seen, welcomed, farewell>>
  PROVE  \A a \in SubIds : Rests(a) /\ LifeTrue(a)'
<1>1. CASE UNCHANGED subCall
  <2>1. ASSUME NEW a \in SubIds
        PROVE  Rests(a)
    BY <1>1, EventsKept, CallsKept DEF Rests
  <2> QED BY <2>1, RestsLife, Frame
<1>2. CASE subCall' = [subCall EXCEPT ![s] = record]
  <2>1. Only(NoRow)
    BY <1>2, CallHere
  <2>2. \A a \in SubIds : Rests(a)
    BY <2>1, NoRowAssumption DEF Only
  <2> QED BY <2>2, RestsLife, Frame
<1> QED BY <1>1, <1>2

(* The end of a subscription: its row goes, or says so.                     *)
Closes(b, k) ==
  /\ Here(b) /\ CallEnds(b, k) /\ UNCHANGED welcomed /\ billed[b].status = "canceled"
  /\ IF k.copy.status = "incomplete"
     THEN subRow'[b] = NoRow /\ UNCHANGED farewell
     ELSE subRow'[b] # NoRow /\ subRow'[b].status = "canceled"

LEMMA EndRowSteps ==
  ASSUME LifeInv, NEW s \in SubSlots, NEW k, k = subCall[s], EndRow(s)
  PROVE  /\ k.sub \in SubIds /\ k \in CallsOf(k.sub) /\ Only(k.sub) /\ k.pc = "deleted"
         /\ Closes(k.sub, k) /\ \A a \in SubIds : LifeTrue(a)'
<1> DEFINE b == k.sub
           row == [k.copy EXCEPT !.status = "canceled", !.ended = TRUE]
<1>1. /\ b \in SubIds /\ k # NoSubCall /\ k.copy \in Row /\ b \in Ended
      /\ k.pc = "deleted"
  BY CallKinds DEF EndRow, SubAt, Handling, EventTrue, NoSubCall, LifeInv
<1>2. /\ subCall' = [subCall EXCEPT ![s] = NoSubCall]
      /\ UNCHANGED <<billed, notices, seen, welcomed>>
      /\ IF k.copy.status = "incomplete"
         THEN subRow' = [subRow EXCEPT ![b] = NoRow] /\ UNCHANGED farewell
         ELSE subRow' = Saved(b, row) /\ farewell' = farewell \cup {b}
  BY DEF EndRow, EndSub, KeepStripe, KeepCustomer
<1>3. /\ \A a \in SubIds : a # b => subRow'[a] = subRow[a]
      /\ \A a \in SubIds : a # b => (a \in farewell' <=> a \in farewell)
  BY <1>1, <1>2 DEF Saved, LifeInv, SubInv, SubTypeOK
<1>4. row \in Row /\ [row EXCEPT !.old = FALSE] \in Row
  BY <1>1 DEF Row, RowStatus
<1>5. IF k.copy.status = "incomplete"
      THEN subRow'[b] = NoRow /\ UNCHANGED farewell
      ELSE subRow'[b] # NoRow /\ subRow'[b].status = "canceled"
  <2>1. CASE k.copy.status = "incomplete"
    BY <1>1, <1>2, <2>1 DEF LifeInv, SubInv, SubTypeOK
  <2>2. CASE k.copy.status # "incomplete"
    <3>1. subRow'[b] = [row EXCEPT !.old = FALSE]
      BY <1>1, <1>2, <2>2 DEF Saved, LifeInv, SubInv, SubTypeOK
    <3>2. [row EXCEPT !.old = FALSE].status = "canceled"
      BY <1>1 DEF Row
    <3> QED BY <1>4, <2>2, <3>1, <3>2, NoRowAssumption
  <2> QED BY <2>1, <2>2
<1>6. billed[b].status = "canceled"
  BY <1>1 DEF Ended
<1> HIDE DEF b, row
<1>7. subCall[s] # NoSubCall /\ subCall[s].sub = b
  BY <1>1 DEF b
<1>8. Only(b) /\ Here(b)
  BY <1>2, <1>3, <1>7, CallHere
<1>9. CallEnds(b, k)
  BY <1>1, <1>2, <1>7, SlotEnds, Frame
<1>10. LifeTrue(b)'
  <2>1. /\ billed'[b] = billed[b] /\ seen'[b] = seen[b]
        /\ EventsOf(b)' \subseteq EventsOf(b)
        /\ seen[b] <= seen'[b] /\ CallsOf(b)' \subseteq CallsOf(b)
    BY <1>1, <1>8, <1>9, Frame DEF Here, CallEnds
  <2> QED BY <1>1, <1>6, <2>1, LifeStays, Frame
<1>11. \A a \in SubIds : LifeTrue(a)'
  BY <1>8, <1>10, OnlyLife
<1>12. Closes(b, k) /\ k \in CallsOf(b)
  BY <1>2, <1>5, <1>6, <1>8, <1>9 DEF Closes, CallEnds
<1> QED BY <1>1, <1>8, <1>11, <1>12 DEF b

(* Creation, step by step.                                                  *)
LEMMA CreationKept ==
  ASSUME LifeInv, NEW s \in SubSlots, NEW record,
         subCall' = [subCall EXCEPT ![s] = record],
         Creates(record) => /\ Creates(subCall[s])
                            /\ record.sub = subCall[s].sub
  PROVE  OneCreation'
<1> SUFFICES ASSUME NEW x \in SubSlots, NEW z \in SubSlots,
                    Creates(subCall'[x]), Creates(subCall'[z]),
                    subCall'[x].sub = subCall'[z].sub
             PROVE  x = z
  BY DEF OneCreation
<1>1. \A y \in SubSlots : subCall'[y] = IF y = s THEN record ELSE subCall[y]
  BY DEF LifeInv, SubInv, CallsOK
<1>2. \A y \in SubSlots : Creates(subCall'[y]) =>
         Creates(subCall[y]) /\ subCall'[y].sub = subCall[y].sub
  BY <1>1
<1> QED BY <1>2 DEF LifeInv, OneCreation

LEMMA CreateSteps ==
  ASSUME LifeInv, Alone', NEW s \in SubSlots, NEW b \in SubIds,
         CreateSubscription(s, b)
  PROVE  /\ Only(b) /\ billed[b].status = "none" /\ LifeTrue(b)'
         /\ CallsOf(b)' = {[pc |-> "insert", sub |-> b]}
         /\ \A a \in SubIds : LifeTrue(a)'
         /\ OneCreation'
         /\ billed'[b].status = "incomplete" /\ ~billed'[b].paid
         /\ billed'[b].owner = subCall[s].owner
         /\ subRow'[b] = NoRow /\ b \notin farewell'
         /\ \A e \in EventsOf(b)' : e.kind = "created"
         /\ subCall[s].pc = "stripe"
<1> DEFINE new == [billed[b] EXCEPT !.status = "incomplete",
                                    !.owner = subCall[s].owner]
           record == [pc |-> "insert", sub |-> b]
<1>1. /\ ChangeAtStripe(b, new, {"created"}) /\ billed[b].status = "none"
      /\ subCall' = [subCall EXCEPT ![s] = record] /\ subCall[s].pc = "stripe"
      /\ UNCHANGED <<subRow, seen, welcomed, farewell>>
  BY DEF CreateSubscription, StepSub, SubAt, KeepMails, KeepCustomer
<1>2. /\ subCall[s].owner \in CustomerIds \cup {NoCustomer}
      /\ subCall[s].sub = NoRow
  BY <1>1, CallKinds DEF LifeInv
<1>3. /\ new \in Billed /\ new.n = billed[b].n /\ new.status = "incomplete"
      /\ new.owner = subCall[s].owner /\ new.paid = billed[b].paid
      /\ new.secret = billed[b].secret /\ billed[b].n \in Nat
  BY <1>2, Frame DEF Billed, StripeStatus
<1>4. record # NoSubCall /\ record.sub = b /\ Creates(record) /\ ~Handling(record)
      /\ record.pc # "answer"
  BY DEF NoSubCall, Creates, Handling
<1>5. /\ ~billed[b].paid /\ ~billed[b].secret /\ subRow[b] = NoRow
      /\ b \notin farewell /\ CallsOf(b) = {} /\ EventsOf(b) = {}
  BY <1>1, Frame DEF LifeTrue
<1> HIDE DEF new, record
<1>6. /\ billed'[b] = [new EXCEPT !.n = @ + 1]
      /\ EventsOf(b)' = EventsOf(b) \cup
              {[sub |-> b, kind |-> k, status |-> new.status, flag |-> new.flag,
                n |-> new.n + 1] : k \in {"created"}}
      /\ \A a \in SubIds : a # b => /\ billed'[a] = billed[a]
                                    /\ EventsOf(a)' = EventsOf(a)
  BY <1>1, <1>3, ChangeSays DEF LifeInv, SubInv
<1>7. \A e \in EventsOf(b)' : e.kind = "created" /\ e.n = new.n + 1
  BY <1>5, <1>6
<1>8. subCall[s] = NoSubCall \/ subCall[s].sub # b
  BY <1>2, NoRowAssumption
<1>9. CallsOf(b)' = {record}
  <2>1. CallBegins(b, record)
    BY <1>1, <1>4, <1>8, SlotBegins, Frame
  <2> QED BY <1>5, <2>1 DEF CallBegins
<1>10. Only(b)
  <2>1. ASSUME NEW a \in SubIds, a # b
        PROVE  Rests(a)
    <3>1. /\ CallsOK
          /\ subCall[s] = NoSubCall \/ subCall[s].sub \in {b, NoRow}
          /\ record = NoSubCall \/ record.sub \in {b, NoRow}
      BY <1>2, <1>4, Frame
    <3>2. /\ billed'[a] = billed[a] /\ subRow'[a] = subRow[a] /\ seen'[a] = seen[a]
          /\ welcomed'[a] = welcomed[a] /\ (a \in farewell' <=> a \in farewell)
          /\ EventsOf(a)' = EventsOf(a)
      BY <1>1, <1>6, <2>1
    <3> QED BY <1>1, <2>1, <3>1, <3>2, Elsewhere
  <2> QED BY <2>1 DEF Only
<1>11. /\ billed'[b].status = "incomplete" /\ ~billed'[b].paid /\ ~billed'[b].secret
       /\ billed'[b].owner = subCall[s].owner /\ billed'[b].n = billed[b].n + 1
  BY <1>3, <1>5, <1>6 DEF Billed
<1>12. LifeTrue(b)'
  BY <1>1, <1>3, <1>4, <1>5, <1>7, <1>9, <1>11, Frame DEF LifeTrue, Created, Live
<1>13. \A a \in SubIds : LifeTrue(a)'
  BY <1>10, <1>12, OnlyLife
<1>14. OneCreation'
  <2>1. \A z \in SubSlots : subCall'[z] = IF z = s THEN record ELSE subCall[z]
    BY <1>1 DEF LifeInv, SubInv, CallsOK
  <2>2. ASSUME NEW z \in SubSlots, Creates(subCall[z])
        PROVE  subCall[z].sub # b
    <3>1. subCall[z] # NoSubCall
      BY <2>2 DEF Creates, NoSubCall
    <3> QED BY <1>5, <3>1, OnIt
  <2> QED BY <1>4, <2>1, <2>2 DEF LifeInv, OneCreation
<1> QED BY <1>1, <1>5, <1>7, <1>9, <1>10, <1>11, <1>12, <1>13, <1>14 DEF record

LEMMA InsertSteps ==
  ASSUME LifeInv, NEW s \in SubSlots, NEW k, k = subCall[s], InsertRow(s)
  PROVE  /\ k.sub \in SubIds /\ k \in CallsOf(k.sub) /\ Only(k.sub) /\ Here(k.sub)
         /\ k.pc = "insert" /\ UNCHANGED <<welcomed, farewell>>
         /\ CallMoves(k.sub, k, [k EXCEPT !.pc = "answer"])
         /\ subRow'[k.sub] \in Row /\ subRow'[k.sub].status = "incomplete"
         /\ OneCreation' /\ \A a \in SubIds : LifeTrue(a)'
<1> DEFINE b == k.sub
           row == [status |-> "incomplete", flag |-> FALSE, ended |-> FALSE,
                   old |-> FALSE]
           record == [k EXCEPT !.pc = "answer"]
<1>1. /\ k.pc = "insert" /\ subRow' = [subRow EXCEPT ![b] = row]
      /\ subCall' = [subCall EXCEPT ![s] = record]
      /\ UNCHANGED <<billed, notices, seen, welcomed, farewell>>
  BY DEF InsertRow, StepSub, SubAt, KeepStripe, KeepMails, KeepCustomer
<1>2. b \in SubIds /\ record \in [pc : {"answer"}, sub : SubIds] /\ record.sub = b
  BY <1>1, CallKinds DEF LifeInv
<1>3. row \in Row /\ row.status = "incomplete" /\ ~row.old
  BY DEF Row, RowStatus
<1>4. /\ record # NoSubCall /\ k # NoSubCall /\ Creates(record) /\ Creates(k)
      /\ ~Handling(record)
  BY <1>1, <1>2 DEF NoSubCall, Creates, Handling
<1>5. subRow'[b] = row /\ \A a \in SubIds : a # b => subRow'[a] = subRow[a]
  BY <1>1, <1>2 DEF LifeInv, SubInv, SubTypeOK
<1>6. row # NoRow
  BY <1>3, NoRowAssumption
<1>7. OneCreation'
  BY <1>1, <1>2, <1>4, CreationKept
<1> HIDE DEF b, row, record
<1>8. subCall[s] # NoSubCall /\ subCall[s].sub = b
  BY <1>4 DEF b
<1>9. Only(b) /\ Here(b)
  BY <1>1, <1>2, <1>5, <1>8, CallHere
<1>10. CallMoves(b, k, record)
  BY <1>1, <1>2, <1>4, <1>8, SlotMoves, Frame
<1>11. LifeTrue(b)'
  <2>1. k \in CallsOf(b) /\ billed[b].status # "none" /\ CallsOf(b)' \subseteq CallsOf(b) \cup {record}
    BY <1>2, <1>10, Frame DEF CallMoves
  <2>2. /\ billed'[b] = billed[b] /\ seen'[b] = seen[b]
        /\ EventsOf(b)' \subseteq EventsOf(b) /\ (b \in farewell' => b \in farewell)
        /\ seen[b] <= seen'[b] /\ seen'[b] <= billed[b].n /\ seen'[b] \in Nat
    BY <1>1, <1>2, <1>9, Frame DEF Here
  <2>3. \A m \in CallsOf(b)' \ CallsOf(b) :
           /\ billed[b].status # "none"
           /\ Handling(m) => m.event.n <= seen'[b] /\ m.event.n \in Nat
           /\ Creates(m) => /\ \E x \in CallsOf(b) : Creates(x)
                            /\ subRow'[b] # NoRow
    BY <1>4, <1>5, <1>6, <2>1
  <2> QED BY <1>2, <1>3, <1>5, <1>6, <2>1, <2>2, <2>3, LifeStays, Frame
<1>12. \A a \in SubIds : LifeTrue(a)'
  BY <1>9, <1>11, OnlyLife
<1>13. k \in CallsOf(b) /\ subRow'[b] \in Row /\ subRow'[b].status = "incomplete"
  BY <1>3, <1>5, <1>10 DEF CallMoves
<1> QED BY <1>1, <1>2, <1>7, <1>9, <1>10, <1>12, <1>13 DEF b, record

LEMMA AnswerSteps ==
  ASSUME LifeInv, NEW s \in SubSlots, NEW k, k = subCall[s], AnswerSecret(s)
  PROVE  /\ k.sub \in SubIds /\ k \in CallsOf(k.sub) /\ Only(k.sub) /\ k.pc = "answer"
         /\ \E told \in BOOLEAN :
              billed'[k.sub] = [billed[k.sub] EXCEPT !.secret = told]
         /\ EventsOf(k.sub)' = EventsOf(k.sub) /\ CallEnds(k.sub, k)
         /\ UNCHANGED <<subRow, seen, welcomed, farewell>>
         /\ \A a \in SubIds : LifeTrue(a)'
<1> DEFINE b == k.sub
<1>1. PICK told \in BOOLEAN : billed' = [billed EXCEPT ![b].secret = told]
  BY DEF AnswerSecret
<1>2. /\ k.pc = "answer" /\ subCall' = [subCall EXCEPT ![s] = NoSubCall]
      /\ UNCHANGED <<subRow, notices, seen, welcomed, farewell>>
  BY DEF AnswerSecret, SubAt, EndSub, KeepMails, KeepCustomer
<1>3. b \in SubIds /\ k # NoSubCall /\ Creates(k)
  BY <1>2, CallKinds DEF LifeInv, NoSubCall, Creates
<1>4. /\ billed'[b] = [billed[b] EXCEPT !.secret = told]
      /\ \A a \in SubIds : a # b => billed'[a] = billed[a]
  BY <1>1, <1>3 DEF LifeInv, SubInv, SubTypeOK
<1> HIDE DEF b
<1>5. subCall[s] # NoSubCall /\ subCall[s].sub = b
  BY <1>3 DEF b
<1>6. CallEnds(b, k)
  BY <1>2, <1>3, <1>5, SlotEnds, Frame
<1>7. \A a : EventsOf(a)' = EventsOf(a)
  BY <1>2, EventsKept
<1>8. Only(b)
  <2>1. ASSUME NEW a \in SubIds, a # b
        PROVE  Rests(a)
    <3>1. CallsOK /\ (subCall[s] = NoSubCall \/ subCall[s].sub \in {b, NoRow})
      BY <1>5, Frame
    <3>2. /\ billed'[a] = billed[a] /\ subRow'[a] = subRow[a] /\ seen'[a] = seen[a]
          /\ welcomed'[a] = welcomed[a] /\ (a \in farewell' <=> a \in farewell)
          /\ EventsOf(a)' = EventsOf(a)
      BY <1>2, <1>4, <1>7, <2>1
    <3> QED BY <1>2, <2>1, <3>1, <3>2, Elsewhere
  <2> QED BY <2>1 DEF Only
<1>9. k \in CallsOf(b) /\ CallsOf(b)' \subseteq CallsOf(b)
  BY <1>6 DEF CallEnds
<1>10. \A m \in CallsOf(b)' : ~Creates(m)
  <2>1. SUFFICES ASSUME NEW m \in CallsOf(b)', Creates(m)
                 PROVE  FALSE
    OBVIOUS
  <2>2. PICK z \in SubSlots : subCall'[z] = m /\ m # NoSubCall /\ m.sub = b
    BY <1>3, OnItNext
  <2>3. z # s /\ subCall[z] = m
    BY <1>2, <2>2, Frame, <1>3 DEF CallsOK
  <2> QED BY <1>3, <1>5, <2>1, <2>2, <2>3 DEF LifeInv, OneCreation
<1>11. LifeTrue(b)'
  <2>1. /\ billed'[b].status = billed[b].status /\ billed'[b].paid = billed[b].paid
        /\ billed'[b].n = billed[b].n /\ billed'[b].flag = billed[b].flag
    BY <1>3, <1>4, Frame DEF Billed
  <2>2. Created(b, k) /\ LifeTrue(b)
    BY <1>3, <1>9, Frame DEF LifeTrue
  <2>3. /\ billed[b].status = "incomplete" => subRow[b] # NoRow
        /\ billed[b].status # "none"
    BY <1>2, <2>2 DEF Created
  <2>4. \A m \in CallsOf(b)' : /\ Handling(m) => m.event.n <= seen'[b]
                               /\ Creates(m) => Created(b, m)'
    BY <1>2, <1>9, <1>10, <2>2 DEF LifeTrue
  <2> QED BY <1>2, <1>7, <2>1, <2>2, <2>3, <2>4 DEF LifeTrue, Live
<1>12. \A a \in SubIds : LifeTrue(a)'
  BY <1>8, <1>11, OnlyLife
<1> QED BY <1>2, <1>3, <1>4, <1>6, <1>7, <1>8, <1>9, <1>12 DEF b

(* An owner's request, or an administrator's.                               *)
LEMMA BeginChangeSteps ==
  ASSUME LifeInv, Alone', NEW s \in SubSlots, NEW b \in SubIds,
         NEW op \in SubChanges, NEW k,
         k = [pc |-> "change", sub |-> b, op |-> op, copy |-> subRow[b]],
         BeginChange(s, b, op)
  PROVE  /\ Only(b) /\ Here(b) /\ CallBegins(b, k) /\ subRow[b] # NoRow
         /\ UNCHANGED <<subRow, welcomed, farewell>>
         /\ \A a \in SubIds : LifeTrue(a)'
<1>1. /\ subCall' = [subCall EXCEPT ![s] = k] /\ subCall[s] = NoSubCall
      /\ subRow[b] # NoRow
      /\ UNCHANGED <<billed, subRow, notices, seen, welcomed, farewell>>
  BY DEF BeginChange, BeginSub, KeepStripe, KeepMails
<1>2. k # NoSubCall /\ k.sub = b /\ ~Handling(k) /\ ~Creates(k)
  BY DEF NoSubCall, Handling, Creates
<1>3. Only(b) /\ Here(b)
  BY <1>1, <1>2, CallHere
<1>4. CallBegins(b, k)
  BY <1>1, <1>2, SlotBegins, Frame
<1>5. LifeTrue(b)'
  <2>1. billed[b].status # "none" /\ CallsOf(b)' \subseteq CallsOf(b) \cup {k}
    BY <1>1, <1>4, Frame DEF CallBegins, LifeTrue
  <2>2. /\ billed'[b] = billed[b] /\ seen'[b] = seen[b] /\ subRow'[b] = subRow[b]
        /\ EventsOf(b)' \subseteq EventsOf(b) /\ (b \in farewell' => b \in farewell)
        /\ seen[b] <= seen'[b]
    BY <1>1, <1>3, Frame DEF Here
  <2> QED BY <1>2, <2>1, <2>2, LifeStays, Frame
<1> QED BY <1>1, <1>3, <1>4, <1>5, OnlyLife

(* What the call asks of Stripe, and what it goes on with.                  *)
Copied(k, new) ==
  CASE k.op.name = "cancel" /\ ~k.op.flag ->
         [k.copy EXCEPT !.status = "canceled", !.ended = TRUE]
    [] k.op.name = "terms" ->
         [k.copy EXCEPT !.flag = new.flag, !.status = Mapped(new.status, k.copy.status)]
    [] OTHER -> [k.copy EXCEPT !.flag = k.op.flag]

GoesOn(k, new) == [k EXCEPT !.pc = "save", !.copy = Copied(k, new)]

AskedWord(new) == {IF new.status = "canceled" THEN "deleted" ELSE "updated"}

LEMMA AskSteps ==
  ASSUME LifeInv, NEW s \in SubSlots, NEW k, k = subCall[s], AskStripe(s),
         NEW new, new = ChangeOf(k.sub, k.op),
         NEW m, m = GoesOn(k, new)
  PROVE  /\ k.sub \in SubIds /\ k \in CallsOf(k.sub) /\ Only(k.sub) /\ k.pc = "change"
         /\ k.copy \in Row /\ k.op \in SubChanges
         /\ CallMoves(k.sub, k, m) /\ m.pc = "save" /\ m.copy = Copied(k, new)
         /\ UNCHANGED <<subRow, seen, welcomed, farewell>>
         /\ new \in Billed /\ new.n = billed[k.sub].n
         /\ billed[k.sub].status \notin {"none", "canceled"}
         /\ k.op.name = "terms" /\ k.op.trial => billed[k.sub].paid
         /\ IF new = billed[k.sub]
            THEN billed'[k.sub] = billed[k.sub] /\ EventsOf(k.sub)' = EventsOf(k.sub)
            ELSE ChangeAtStripe(k.sub, new, AskedWord(new))
         /\ \A a \in SubIds : LifeTrue(a)'
<1> DEFINE b == k.sub
<1>1. /\ k.pc = "change" /\ billed[b].status # "canceled"
      /\ k.op.name = "terms" /\ k.op.trial => billed[b].paid
      /\ IF new = billed[b] THEN UNCHANGED <<billed, notices>>
         ELSE ChangeAtStripe(b, new, AskedWord(new))
      /\ subCall' = [subCall EXCEPT ![s] = m]
      /\ UNCHANGED <<subRow, seen, welcomed, farewell>>
  BY DEF AskStripe, SubAt, StepSub, KeepStripe, KeepMails, Copied, AskedWord, GoesOn
<1>2. /\ k \in [pc : {"change", "save"}, sub : SubIds, op : SubChanges, copy : Row]
      /\ b \in SubIds /\ k.op \in SubChanges /\ k.copy \in Row
  BY <1>1, CallKinds DEF Changing, LifeInv
<1>3. m.pc = "save" /\ m.sub = b /\ m.copy = Copied(k, new)
  BY <1>2 DEF GoesOn
<1>4. k # NoSubCall /\ m # NoSubCall /\ ~Handling(m) /\ ~Creates(m)
  <2>1. k.pc = "change" /\ m.pc = "save"
    BY <1>1, <1>3
  <2> QED BY <2>1 DEF NoSubCall, Handling, Creates
<1>5. /\ new \in Billed /\ new.n = billed[b].n
      /\ new.status = "canceled" <=> k.op.name = "cancel" /\ ~k.op.flag
  BY <1>1, <1>2, Frame, ChangeAsked
<1>6. /\ new.secret = billed[b].secret /\ new.paid = billed[b].paid
      /\ \/ new.status = billed[b].status
         \/ new.status = "canceled"
         \/ new.status = "trialing" /\ billed[b].paid
  <2>1. CASE k.op.name = "cancel" /\ ~k.op.flag
    BY <1>2, <2>1, Frame DEF ChangeOf, Billed
  <2>2. CASE ~(k.op.name = "cancel" /\ ~k.op.flag) /\ k.op.name = "terms" /\ k.op.trial
    BY <1>1, <1>2, <2>2, Frame DEF ChangeOf, Billed
  <2>3. CASE /\ ~(k.op.name = "cancel" /\ ~k.op.flag)
             /\ ~(k.op.name = "terms" /\ k.op.trial)
    <3>1. new = [billed[b] EXCEPT !.flag = k.op.flag]
      BY <2>3 DEF ChangeOf
    <3> QED BY <1>2, <3>1, Frame DEF Billed
  <2> QED BY <2>1, <2>2, <2>3
<1> HIDE DEF b
<1>7. subCall[s] # NoSubCall /\ subCall[s].sub = b
  BY <1>4 DEF b
<1>8. CallMoves(b, k, m) /\ k \in CallsOf(b) /\ CallsOf(b)' \subseteq CallsOf(b) \cup {m}
  <2>1. CallMoves(b, k, m)
    BY <1>1, <1>2, <1>3, <1>4, <1>7, SlotMoves, Frame
  <2> QED BY <2>1 DEF CallMoves
<1>9. billed[b].status # "none" /\ LifeTrue(b) /\ SubInv
  BY <1>2, <1>8, Frame
<1>10. /\ \A a \in SubIds : a # b => billed'[a] = billed[a] /\ EventsOf(a)' = EventsOf(a)
       /\ new = billed[b] => billed'[b] = billed[b] /\ EventsOf(b)' = EventsOf(b)
  <2>1. CASE new = billed[b]
    BY <1>1, <2>1, EventsKept
  <2>2. CASE new # billed[b]
    BY <1>1, <1>2, <1>5, <1>9, <2>2, ChangeSays DEF SubInv
  <2> QED BY <2>1, <2>2
<1>11. Only(b)
  <2>1. ASSUME NEW a \in SubIds, a # b
        PROVE  Rests(a)
    <3>1. /\ CallsOK
          /\ subCall[s] = NoSubCall \/ subCall[s].sub \in {b, NoRow}
          /\ m = NoSubCall \/ m.sub \in {b, NoRow}
      BY <1>3, <1>7, <1>9 DEF SubInv
    <3>2. /\ billed'[a] = billed[a] /\ subRow'[a] = subRow[a] /\ seen'[a] = seen[a]
          /\ welcomed'[a] = welcomed[a] /\ (a \in farewell' <=> a \in farewell)
          /\ EventsOf(a)' = EventsOf(a)
      BY <1>1, <1>10, <2>1
    <3>3. subCall' = [subCall EXCEPT ![s] = m]
      BY <1>1
    <3> QED BY <2>1, <3>1, <3>2, <3>3, Elsewhere
  <2> QED BY <2>1 DEF Only
<1>12. LifeTrue(b)'
  <2>1. CASE new = billed[b]
    <3>1. /\ billed'[b] = billed[b] /\ seen'[b] = seen[b] /\ subRow'[b] = subRow[b]
          /\ EventsOf(b)' \subseteq EventsOf(b) /\ (b \in farewell' => b \in farewell)
          /\ seen[b] <= seen'[b]
      BY <1>1, <1>2, <1>10, <2>1, Frame
    <3> QED BY <1>2, <1>4, <1>8, <1>9, <3>1, LifeStays, Frame
  <2>2. CASE new # billed[b]
    <3>1. /\ billed[b].status \in {"none", "incomplete"} => ~billed[b].paid
          /\ Live(b) => billed[b].paid
          /\ billed[b].status \in {"incomplete", "active", "past_due", "trialing"}
      BY <1>1, <1>2, <1>9, Frame DEF LifeTrue, Billed, StripeStatus
    <3>2. /\ new.paid \/ new.status \in {"incomplete", "canceled"}
          /\ new.paid => new.status # "incomplete"
          /\ new.status # "none"
          /\ new.status = "incomplete" => billed[b].status = "incomplete"
      BY <1>6, <3>1 DEF Live
    <3>3. /\ ChangeAtStripe(b, new, AskedWord(new)) /\ UNCHANGED <<subRow, seen, farewell>>
          /\ billed[b].status # "canceled"
          /\ \A x \in CallsOf(b)' : x \in CallsOf(b) \/ (~Handling(x) /\ ~Creates(x))
      BY <1>1, <1>4, <1>8, <2>2 DEF b
    <3> QED BY <1>2, <1>5, <1>6, <1>9, <3>2, <3>3, LifeChanges
  <2> QED BY <2>1, <2>2
<1> QED BY <1>1, <1>2, <1>3, <1>5, <1>8, <1>9, <1>10, <1>11, <1>12, OnlyLife DEF b

(* An event is taken.                                                       *)
TakesEvent(b, e) ==
       /\ e \in EventsOf(b) /\ billed'[b] = billed[b] /\ EventsOf(b)' = EventsOf(b) \ {e}
       /\ seen'[b] = IF e.n > seen[b] THEN e.n ELSE seen[b]
       /\ UNCHANGED <<subRow, farewell>>

LEMMA TakeSteps ==
  ASSUME LifeInv, NEW e \in notices, notices' = notices \ {e},
         seen' = [seen EXCEPT ![e.sub] = IF e.n > @ THEN e.n ELSE @],
         UNCHANGED <<billed, subRow, farewell>>
  PROVE  /\ e \in Event /\ e.sub \in SubIds /\ TakesEvent(e.sub, e)
         /\ e.n \in Nat /\ e.n <= billed[e.sub].n
         /\ seen[e.sub] <= seen'[e.sub] /\ seen'[e.sub] <= billed[e.sub].n
         /\ seen'[e.sub] \in Nat /\ e.n <= seen'[e.sub]
         /\ billed[e.sub].status # "none"
         /\ \A a \in SubIds : a # e.sub =>
              EventsOf(a)' = EventsOf(a) /\ seen'[a] = seen[a]
<1> DEFINE b == e.sub
<1>1. e \in Event /\ b \in SubIds /\ e.n \in Nat
  BY SubAssumption DEF LifeInv, SubInv, SubTypeOK, Event
<1>2. /\ seen'[b] = IF e.n > seen[b] THEN e.n ELSE seen[b]
      /\ \A a \in SubIds : a # b => seen'[a] = seen[a]
  BY <1>1 DEF LifeInv, SubInv, SubTypeOK
<1>3. e \in EventsOf(b) /\ EventsOf(b)' = EventsOf(b) \ {e}
  BY DEF EventsOf
<1>4. \A a \in SubIds : a # b => EventsOf(a)' = EventsOf(a)
  BY DEF EventsOf
<1>5. e.n <= billed[b].n /\ billed[b].status # "none"
  BY <1>1, <1>3, Frame DEF LifeTrue
<1> HIDE DEF b
<1>6. /\ seen[b] <= seen'[b] /\ seen'[b] <= billed[b].n
      /\ seen'[b] \in Nat /\ e.n <= seen'[b]
  BY <1>1, <1>2, <1>5, Frame
<1> QED BY <1>1, <1>2, <1>3, <1>4, <1>5, <1>6 DEF TakesEvent, b

LEMMA BeginEventSteps ==
  ASSUME LifeInv, Alone', NEW s \in SubSlots, NEW e \in notices, BeginEvent(s, e),
         NEW k, k = [pc |-> e.kind, sub |-> e.sub, event |-> e, copy |-> subRow[e.sub]]
  PROVE  /\ e \in Event /\ e.sub \in SubIds /\ TakesEvent(e.sub, e) /\ Only(e.sub)
         /\ e.kind \in {"updated", "paid", "failed", "deleted"}
         /\ UNCHANGED welcomed
         /\ IF subRow[e.sub] = NoRow /\ e.kind # "updated"
            THEN CallsOf(e.sub)' = CallsOf(e.sub) ELSE CallBegins(e.sub, k)
         /\ \A a \in SubIds : LifeTrue(a)'
<1> DEFINE b == e.sub
<1>1. /\ notices' = notices \ {e} /\ UNCHANGED <<billed, subRow, welcomed, farewell>>
      /\ e.kind \in {"updated", "paid", "failed", "deleted"}
      /\ seen' = [seen EXCEPT ![e.sub] = IF e.n > @ THEN e.n ELSE @]
      /\ subCall[s] = NoSubCall
      /\ IF subRow[b] = NoRow /\ e.kind # "updated"
         THEN UNCHANGED subCall ELSE subCall' = [subCall EXCEPT ![s] = k]
  BY DEF BeginEvent, BeginSub, KeepMails
<1>2. /\ e \in Event /\ b \in SubIds /\ TakesEvent(b, e)
      /\ e.n \in Nat /\ e.n <= billed[b].n
      /\ seen[b] <= seen'[b] /\ seen'[b] <= billed[b].n
      /\ seen'[b] \in Nat /\ e.n <= seen'[b]
      /\ billed[b].status # "none"
      /\ \A a \in SubIds : a # b => EventsOf(a)' = EventsOf(a) /\ seen'[a] = seen[a]
  BY <1>1, TakeSteps
<1>3. k # NoSubCall /\ k.sub = b /\ k.event = e /\ ~Creates(k)
  BY <1>1 DEF NoSubCall, Creates
<1> HIDE DEF b
<1>4. IF subRow[b] = NoRow /\ e.kind # "updated"
      THEN CallsOf(b)' = CallsOf(b) ELSE CallBegins(b, k)
  BY <1>1, <1>2, <1>3, CallsKept, SlotBegins, Frame
<1>5. CallsOf(b)' \subseteq CallsOf(b) \cup {k}
  BY <1>4 DEF CallBegins
<1>6. Only(b)
  <2>1. ASSUME NEW a \in SubIds, a # b
        PROVE  Rests(a)
    <3>1. /\ billed'[a] = billed[a] /\ subRow'[a] = subRow[a] /\ seen'[a] = seen[a]
          /\ welcomed'[a] = welcomed[a] /\ (a \in farewell' <=> a \in farewell)
          /\ EventsOf(a)' = EventsOf(a)
      BY <1>1, <1>2, <2>1
    <3>2. CASE UNCHANGED subCall
      BY <3>1, <3>2, CallsKept DEF Rests
    <3>3. CASE subCall' = [subCall EXCEPT ![s] = k]
      <4>1. CallsOK
        BY DEF LifeInv, SubInv
      <4> QED BY <1>1, <1>3, <2>1, <3>1, <3>3, <4>1, Elsewhere
    <3> QED BY <1>1, <3>2, <3>3
  <2> QED BY <2>1 DEF Only
<1>7. LifeTrue(b)'
  <2>1. /\ EventsOf(b)' \subseteq EventsOf(b) /\ billed'[b] = billed[b]
        /\ subRow'[b] = subRow[b] /\ (b \in farewell' => b \in farewell)
    BY <1>1, <1>2 DEF TakesEvent
  <2>2. \A m \in CallsOf(b)' \ CallsOf(b) :
           /\ billed[b].status # "none"
           /\ Handling(m) => m.event.n <= seen'[b] /\ m.event.n \in Nat
           /\ Creates(m) => /\ \E x \in CallsOf(b) : Creates(x)
                            /\ subRow'[b] # NoRow
    BY <1>2, <1>3, <1>5
  <2> QED BY <1>2, <2>1, <2>2, LifeStays, Frame
<1> QED BY <1>1, <1>2, <1>4, <1>6, <1>7, OnlyLife DEF b

LEMMA HandleCreatedSteps ==
  ASSUME LifeInv, NEW s \in SubSlots, NEW e \in notices, HandleCreated(s, e)
  PROVE  /\ e \in Event /\ e.sub \in SubIds /\ TakesEvent(e.sub, e) /\ Only(e.sub)
         /\ e.kind = "created" /\ CallsOf(e.sub)' = CallsOf(e.sub)
         /\ welcomed[e.sub] <= welcomed'[e.sub]
         /\ UNCHANGED subCall /\ \A a \in SubIds : LifeTrue(a)'
<1> DEFINE b == e.sub
<1>1. /\ notices' = notices \ {e} /\ UNCHANGED <<billed, subRow, farewell, subCall>>
      /\ e.kind = "created" /\ (Welcome(b) \/ UNCHANGED welcomed)
      /\ seen' = [seen EXCEPT ![e.sub] = IF e.n > @ THEN e.n ELSE @]
  BY DEF HandleCreated
<1>2. /\ e \in Event /\ b \in SubIds /\ TakesEvent(b, e)
      /\ seen[b] <= seen'[b] /\ seen'[b] <= billed[b].n /\ seen'[b] \in Nat
      /\ \A a \in SubIds : a # b => EventsOf(a)' = EventsOf(a) /\ seen'[a] = seen[a]
  BY <1>1, TakeSteps
<1>3. /\ \A a \in SubIds : a # b => welcomed'[a] = welcomed[a]
      /\ welcomed[b] <= welcomed'[b]
  BY <1>1, <1>2 DEF Welcome, LifeInv, SubInv, SubTypeOK
<1>4. \A a : CallsOf(a)' = CallsOf(a)
  BY <1>1, CallsKept
<1> HIDE DEF b
<1>5. Only(b)
  BY <1>1, <1>2, <1>3, <1>4 DEF Only, Rests
<1>6. LifeTrue(b)'
  <2>1. /\ EventsOf(b)' \subseteq EventsOf(b) /\ billed'[b] = billed[b]
        /\ subRow'[b] = subRow[b] /\ (b \in farewell' => b \in farewell)
        /\ CallsOf(b)' \ CallsOf(b) = {}
    BY <1>1, <1>2, <1>4 DEF TakesEvent
  <2> QED BY <1>2, <2>1, LifeStays, Frame
<1> QED BY <1>1, <1>2, <1>3, <1>4, <1>5, <1>6, OnlyLife DEF b

(* syncFromStripe goes on with the row it read again.                       *)
Reread(k) ==
  [pc |-> "sync", sub |-> k.sub, event |-> k.event, copy |-> subRow[k.sub],
   was |-> IF k.copy = NoRow THEN "none" ELSE k.copy.status]

LEMMA ReadSyncSteps ==
  ASSUME LifeInv, NEW s \in SubSlots, NEW k, k = subCall[s], ReadSync(s),
         subRow[k.sub] # NoRow, NEW m, m = Reread(k)
  PROVE  /\ k.sub \in SubIds /\ k \in CallsOf(k.sub) /\ Only(k.sub) /\ Here(k.sub)
         /\ k.pc = "updated" /\ k.event \in Event /\ k.copy \in Row \cup {NoRow}
         /\ CallMoves(k.sub, k, m) /\ UNCHANGED <<subRow, welcomed, farewell>>
         /\ \A a \in SubIds : LifeTrue(a)'
<1> DEFINE b == k.sub
<1>1. /\ k.pc = "updated" /\ subCall' = [subCall EXCEPT ![s] = m]
      /\ UNCHANGED <<billed, subRow, notices, seen, welcomed, farewell>>
  BY DEF ReadSync, SubAt, StepSub, KeepStripe, KeepMails, Reread
<1>2. b \in SubIds /\ k.event \in Event /\ k.copy \in Row \cup {NoRow}
  BY <1>1, CallKinds DEF Handling, LifeInv
<1>3. /\ k # NoSubCall /\ m # NoSubCall /\ m.sub = b /\ m.event = k.event
      /\ ~Creates(m) /\ Handling(k)
  BY <1>1 DEF NoSubCall, Reread, Creates, Handling
<1> HIDE DEF b
<1>4. subCall[s] # NoSubCall /\ subCall[s].sub = b
  BY <1>3 DEF b
<1>5. Only(b) /\ Here(b)
  BY <1>1, <1>3, <1>4, CallHere
<1>6. CallMoves(b, k, m)
  BY <1>1, <1>2, <1>3, <1>4, SlotMoves, Frame
<1>7. k \in CallsOf(b) /\ CallsOf(b)' \subseteq CallsOf(b) \cup {m}
  BY <1>6 DEF CallMoves
<1>8. LifeTrue(b)'
  <2>1. k.event.n <= seen[b] /\ k.event.n \in Nat
    BY <1>2, <1>3, <1>7, Frame, SubAssumption DEF LifeTrue, Event
  <2>2. /\ EventsOf(b)' \subseteq EventsOf(b) /\ billed'[b] = billed[b]
        /\ subRow'[b] = subRow[b] /\ (b \in farewell' => b \in farewell)
        /\ seen'[b] = seen[b] /\ seen[b] <= seen'[b] /\ billed[b].status # "none"
    BY <1>1, <1>2, <1>5, <1>7, Frame DEF Here
  <2>3. \A x \in CallsOf(b)' \ CallsOf(b) :
           /\ billed[b].status # "none"
           /\ Handling(x) => x.event.n <= seen'[b] /\ x.event.n \in Nat
           /\ Creates(x) => /\ \E y \in CallsOf(b) : Creates(y)
                            /\ subRow'[b] # NoRow
    BY <1>3, <1>7, <2>1, <2>2
  <2> QED BY <1>2, <2>2, <2>3, LifeStays, Frame
<1>9. \A a \in SubIds : LifeTrue(a)'
  BY <1>5, <1>8, OnlyLife
<1> QED BY <1>1, <1>2, <1>5, <1>6, <1>7, <1>9 DEF b

(* The clock, and the sweep: the row alone.                                 *)
LEMMA RowAlone ==
  ASSUME LifeInv, NEW b \in SubIds,
         UNCHANGED <<billed, notices, seen, welcomed, farewell, subCall>>,
         \/ subRow'[b] = subRow[b]
         \/ /\ billed[b].status # "none" /\ billed[b].status # "incomplete"
  PROVE  /\ Here(b) /\ CallsOf(b)' = CallsOf(b) /\ UNCHANGED <<welcomed, farewell>>
         /\ LifeTrue(b)'
<1>1. Here(b) /\ CallsOf(b)' = CallsOf(b)
  BY EventsKept, CallsKept DEF Here
<1>2. /\ EventsOf(b)' \subseteq EventsOf(b) /\ billed'[b] = billed[b]
      /\ seen'[b] = seen[b] /\ seen[b] <= seen'[b] /\ (b \in farewell' => b \in farewell)
      /\ CallsOf(b)' \ CallsOf(b) = {}
  BY <1>1, Frame DEF Here
<1>3. LifeTrue(b)'
  BY <1>2, LifeStays, Frame
<1> QED BY <1>1, <1>3

LEMMA AgeSteps ==
  ASSUME LifeInv, NEW b \in SubIds, Age(b)
  PROVE  /\ Here(b) /\ CallsOf(b)' = CallsOf(b) /\ UNCHANGED <<welcomed, farewell, subCall>>
         /\ Only(b) /\ Incomplete(b) /\ subRow'[b] = [subRow[b] EXCEPT !.old = TRUE]
         /\ \A a \in SubIds : LifeTrue(a)'
<1>1. /\ UNCHANGED <<billed, notices, seen, welcomed, farewell, subCall>>
      /\ subRow' = [subRow EXCEPT ![b] = [subRow[b] EXCEPT !.old = TRUE]]
      /\ Incomplete(b) /\ billed[b].status # "incomplete"
  BY DEF Age, KeepStripe, KeepMails
<1>2. /\ subRow'[b] = [subRow[b] EXCEPT !.old = TRUE]
      /\ \A a \in SubIds : a # b => subRow'[a] = subRow[a]
  BY <1>1 DEF LifeInv, SubInv, SubTypeOK
<1>3. billed[b].status # "none"
  BY <1>1, Frame DEF LifeTrue, Incomplete
<1>4. Only(b)
  BY <1>1, <1>2, EventsKept, CallsKept DEF Only, Rests
<1>5. Here(b) /\ CallsOf(b)' = CallsOf(b) /\ LifeTrue(b)'
  BY <1>1, <1>3, RowAlone
<1> QED BY <1>1, <1>2, <1>4, <1>5, OnlyLife

LEMMA SweepSteps ==
  ASSUME LifeInv, SweepIncomplete
  PROVE  /\ UNCHANGED subCall
         /\ \A b \in SubIds :
              /\ Here(b) /\ CallsOf(b)' = CallsOf(b) /\ UNCHANGED <<welcomed, farewell>>
              /\ subRow'[b] = IF Stale(b) THEN NoRow ELSE subRow[b]
              /\ Stale(b) => billed[b].status \notin {"none", "incomplete"}
              /\ LifeTrue(b)'
<1>1. /\ UNCHANGED <<billed, notices, seen, welcomed, farewell, subCall>>
      /\ \A b \in SubIds : subRow'[b] = IF Stale(b) THEN NoRow ELSE subRow[b]
  BY DEF SweepIncomplete, KeepStripe, KeepMails
<1>2. \A b \in SubIds : Stale(b) => billed[b].status \notin {"none", "incomplete"}
  BY Frame DEF Stale, Incomplete, LifeTrue
<1> QED BY <1>1, <1>2, RowAlone

(* Whatever is done, a call that overlaps another is marked.                *)
LEMMA AloneRests ==
  ASSUME Alone, UNCHANGED subCall, NEW marks, BlameSub(marks)
  PROVE  Alone'
<1>1. \A b : CallsOn(b)' = CallsOn(b)
  BY CallsKept
<1>2. CASE SubSettled'
  BY <1>2 DEF SubSettled, SubQuiet, CallsOn, Alone
<1>3. CASE Blames(marks)
  BY <1>1, <1>3 DEF Blames, Alone
<1> QED BY <1>2, <1>3, BlamedOrSettled

LEMMA StripeBlames ==
  ASSUME NEW b,
         \/ FirstPayment(b) \/ FirstDecline(b) \/ GiveUpUnpaid(b)
         \/ Renewal(b) \/ FailedRenewal(b) \/ PeriodEnd(b) \/ Age(b)
  PROVE  UNCHANGED subCall /\ \E marks : BlameSub(marks)
<1>1. CASE FirstPayment(b)
  BY <1>1 DEF FirstPayment, StripeMoves
<1>2. CASE FirstDecline(b)
  BY <1>2 DEF FirstDecline, StripeMoves
<1>3. CASE GiveUpUnpaid(b)
  BY <1>3 DEF GiveUpUnpaid, StripeMoves
<1>4. CASE Renewal(b)
  BY <1>4 DEF Renewal, StripeMoves
<1>5. CASE FailedRenewal(b)
  BY <1>5 DEF FailedRenewal, StripeMoves
<1>6. CASE PeriodEnd(b)
  BY <1>6 DEF PeriodEnd, StripeMoves
<1>7. CASE Age(b)
  BY <1>7 DEF Age
<1> QED BY <1>1, <1>2, <1>3, <1>4, <1>5, <1>6, <1>7

SubStep(s) ==
  \/ ReadUser(s)
  \/ \E c \in CustomerIds : CreateCustomer(s, c)
  \/ \E b \in SubIds : CreateSubscription(s, b)
  \/ InsertRow(s)
  \/ AnswerSecret(s)
  \/ \E b \in SubIds, op \in SubChanges : BeginChange(s, b, op)
  \/ AskStripe(s)
  \/ SaveChange(s)
  \/ \E e \in notices : BeginEvent(s, e) \/ HandleCreated(s, e)
  \/ ReadSync(s)
  \/ SaveSync(s)
  \/ SavePaid(s)
  \/ SavePastDue(s)
  \/ EndRow(s)
  \/ SubDies(s)

(* What becomes of the slot of a step, and what it marks.                   *)
LEMMA SlotOfStep ==
  ASSUME NEW s \in SubSlots, SubStep(s)
  PROVE  /\ UNCHANGED subCall \/ \E record : subCall' = [subCall EXCEPT ![s] = record]
         /\ \E marks : BlameSub(marks)
<1>1. CASE ReadUser(s)
  BY <1>1 DEF ReadUser, BeginSub
<1>2. ASSUME NEW c, CreateCustomer(s, c)
      PROVE  /\ \E record : subCall' = [subCall EXCEPT ![s] = record]
             /\ \E marks : BlameSub(marks)
  BY <1>2 DEF CreateCustomer, StepSub
<1>3. ASSUME NEW b, CreateSubscription(s, b)
      PROVE  /\ \E record : subCall' = [subCall EXCEPT ![s] = record]
             /\ \E marks : BlameSub(marks)
  BY <1>3 DEF CreateSubscription, StepSub
<1>4. CASE InsertRow(s)
  BY <1>4 DEF InsertRow, StepSub
<1>5. CASE AnswerSecret(s)
  BY <1>5 DEF AnswerSecret, EndSub
<1>6. ASSUME NEW b, NEW op, BeginChange(s, b, op)
      PROVE  /\ \E record : subCall' = [subCall EXCEPT ![s] = record]
             /\ \E marks : BlameSub(marks)
  BY <1>6 DEF BeginChange, BeginSub
<1>7. CASE AskStripe(s)
  BY <1>7 DEF AskStripe, StepSub
<1>8. CASE SaveChange(s)
  BY <1>8 DEF SaveChange, EndSub
<1>9. ASSUME NEW e, BeginEvent(s, e)
      PROVE  /\ UNCHANGED subCall \/ \E record : subCall' = [subCall EXCEPT ![s] = record]
             /\ \E marks : BlameSub(marks)
  BY <1>9 DEF BeginEvent, BeginSub
<1>10. ASSUME NEW e, HandleCreated(s, e)
       PROVE  UNCHANGED subCall /\ \E marks : BlameSub(marks)
  BY <1>10 DEF HandleCreated
<1>11. CASE ReadSync(s)
  BY <1>11 DEF ReadSync, EndSub, StepSub
<1>12. CASE SaveSync(s)
  BY <1>12 DEF SaveSync, EndSub
<1>13. CASE SavePaid(s)
  BY <1>13 DEF SavePaid, EndSub
<1>14. CASE SavePastDue(s)
  BY <1>14 DEF SavePastDue, EndSub
<1>15. CASE EndRow(s)
  BY <1>15 DEF EndRow, EndSub
<1>16. CASE SubDies(s)
  BY <1>16 DEF SubDies, EndSub
<1> QED BY <1>1, <1>2, <1>3, <1>4, <1>5, <1>6, <1>7, <1>8, <1>9, <1>10, <1>11,
           <1>12, <1>13, <1>14, <1>15, <1>16 DEF SubStep

StripeStep(b) ==
  \/ FirstPayment(b) \/ FirstDecline(b) \/ GiveUpUnpaid(b)
  \/ Renewal(b) \/ FailedRenewal(b) \/ PeriodEnd(b)

LEMMA SubNextIs ==
  ASSUME LifeInv, SubNext
  PROVE  \/ \E b \in SubIds : StripeStep(b) \/ Age(b)
         \/ \E s \in SubSlots : SubStep(s)
         \/ \E c \in CustomerIds : ReceiveCustomer(c) \/ LoseCustomer(c)
         \/ SweepIncomplete
<1>1. subLoad.subs \subseteq SubIds /\ subLoad.slots \subseteq SubSlots
  BY SubAssumption DEF LifeInv, SubInv, SubTypeOK
<1>2. \A s \in subLoad.slots :
        /\ ReadUser(s) => SubStep(s)
        /\ \A c \in CustomerIds : CreateCustomer(s, c) => SubStep(s)
        /\ \A b \in subLoad.subs : CreateSubscription(s, b) => SubStep(s)
        /\ InsertRow(s) \/ AnswerSecret(s) => SubStep(s)
        /\ \A b \in subLoad.subs, op \in SubChanges : BeginChange(s, b, op) => SubStep(s)
        /\ AskStripe(s) \/ SaveChange(s) => SubStep(s)
        /\ \A e \in notices : BeginEvent(s, e) \/ HandleCreated(s, e) => SubStep(s)
        /\ ReadSync(s) \/ SaveSync(s) \/ SavePaid(s) \/ SavePastDue(s) => SubStep(s)
        /\ EndRow(s) \/ SubDies(s) => SubStep(s)
  BY <1>1 DEF SubStep
<1>3. \A b \in subLoad.subs :
        /\ FirstPayment(b) \/ FirstDecline(b) \/ GiveUpUnpaid(b) => StripeStep(b)
        /\ Renewal(b) \/ FailedRenewal(b) \/ PeriodEnd(b) => StripeStep(b)
  BY DEF StripeStep
<1> QED BY <1>1, <1>2, <1>3 DEF SubNext

LEMMA AloneNext ==
  ASSUME LifeInv, SubNext
  PROVE  Alone'
<1>0. CallsOK /\ Alone
  BY DEF LifeInv, SubInv
<1>1. ASSUME NEW b \in SubIds, StripeStep(b) \/ Age(b)
      PROVE  Alone'
  BY <1>0, <1>1, StripeBlames, AloneRests DEF StripeStep
<1>2. ASSUME NEW s \in SubSlots, SubStep(s)
      PROVE  Alone'
  BY <1>0, <1>2, SlotOfStep, AloneRests, AloneKept
<1>3. ASSUME NEW c \in CustomerIds, ReceiveCustomer(c) \/ LoseCustomer(c)
      PROVE  Alone'
  BY <1>0, <1>3, AloneRests DEF ReceiveCustomer, LoseCustomer
<1>4. CASE SweepIncomplete
  BY <1>0, <1>4, AloneRests DEF SweepIncomplete
<1> QED BY <1>1, <1>2, <1>3, <1>4, SubNextIs
-----------------------------------------------------------------------------
(* What keeps row and Stripe together, as long as nothing is marked.        *)
Free(marks) == subFault \cap marks = {}

(* An incomplete row of a paid subscription: the event that promotes it is  *)
(* on its way, or in the hands of its only call.                            *)
Promotes(e) == e.kind = "updated" /\ e.status \in {"active", "past_due"}
PromotionComes(b) == \E e \in EventsOf(b) : Promotes(e)
KeepsIncomplete(k) ==
  \/ k.pc \in {"change", "save", "paid"} /\ k.copy.status = "incomplete"
  \/ k.pc = "sync" /\ k.copy.status = "incomplete" /\ ~Promotes(k.event)
PromotionMarks == {"overlap", "lost"}
Promoted(b) ==
  Free(PromotionMarks) /\ billed[b].paid =>
    /\ Incomplete(b) =>
         \/ PromotionComes(b)
         \/ \E k \in CallsOf(b) : Syncs(k) /\ Promotes(k.event)
    /\ \A k \in CallsOf(b) : KeepsIncomplete(k) => PromotionComes(b)

(* Stripe's last word on a subscription is on its way, or the row has it,   *)
(* or its only call; what would take it back comes before.                  *)
Tells(e, b) ==
  e.kind = "updated" /\ e.status = billed[b].status /\ e.flag = billed[b].flag
WordComes(b) == \E e \in EventsOf(b) : Tells(e, b)
StatusFits(status, b) ==
  status = billed[b].status \/ billed[b].status = "trialing"
RowFits(row, b) == StatusFits(row.status, b) /\ row.flag = billed[b].flag
Disturbs(e, b) ==
  \/ e.kind = "updated" /\ ~Tells(e, b)
  \/ e.kind = "failed" /\ ~StatusFits("past_due", b)
Misleads(k, b) ==
  \/ Syncs(k) /\ ~Tells(k.event, b)
  \/ k.pc \in {"change", "save", "paid"} /\ ~RowFits(k.copy, b)
  \/ k.pc = "failed" /\ ~(StatusFits("past_due", b) /\ k.copy.flag = billed[b].flag)
WordMarks == {"overlap", "lost", "disordered", "late"}
WordIsThere(b) ==
  \/ subRow[b] # NoRow /\ RowFits(subRow[b], b)
  \/ WordComes(b)
  \/ \E k \in CallsOf(b) : Syncs(k) /\ Tells(k.event, b)
WordIsLast(b) ==
  /\ \A e \in EventsOf(b) : Disturbs(e, b) =>
       \/ e.n < seen[b]
       \/ \E f \in EventsOf(b) : Tells(f, b) /\ e.n < f.n
  /\ \A k \in CallsOf(b) : Misleads(k, b) => WordComes(b)
Told(b) == Free(WordMarks) /\ Live(b) => WordIsThere(b) /\ WordIsLast(b)

(* Nothing of a subscription that was never paid says that it began.        *)
Begun == {"active", "past_due", "canceled"}
Quietly(e) ==
  \/ e.kind \in {"created", "paid"}
  \/ e.kind = "updated" /\ e.status \notin Begun
NotBegun(row) == row = NoRow \/ row.status = "incomplete"
CallNotBegun(k) ==
  /\ Changing(k) \/ Handling(k) => NotBegun(k.copy)
  /\ Syncs(k) => k.event.status \notin Begun
  /\ k.pc # "failed"
Unbegun(b) ==
  /\ NotBegun(subRow[b]) /\ b \notin farewell
  /\ \A e \in EventsOf(b) : Quietly(e) \/ e.kind = "deleted"
  /\ \A k \in CallsOf(b) : CallNotBegun(k)
Untold(b) ==
  /\ ~billed[b].paid /\ "declined" \notin subFault
  /\ billed[b].status = "canceled" => "dropped" \notin subFault
UntoldUnbegun(b) == Untold(b) => Unbegun(b)

(* The event that begins a paid subscription, whose welcome mail was not    *)
(* sent yet, is on its way and nothing comes before it that takes the row   *)
(* on; or its only call has it.                                             *)
Begins(e) == e.kind = "updated" /\ e.status = "active"
CallUnbegun(k) ==
  /\ k.pc \in {"paid", "sync"} => k.copy.status = "incomplete"
  /\ Syncs(k) => k.event.status \notin Begun
  /\ k.pc \notin {"failed", "deleted"}
StillFirst(b, e) ==
  /\ Incomplete(b)
  /\ \A f \in EventsOf(b) : f # e /\ f.n <= e.n => Quietly(f)
  /\ \A k \in CallsOf(b) : CallUnbegun(k)
BeginningComes(b) ==
  \E e \in EventsOf(b) : Begins(e) /\ (e.n < seen[b] \/ StillFirst(b, e))
HasBeginning(k) ==
  /\ Syncs(k) /\ Begins(k.event) /\ k.copy # NoRow /\ k.copy.status = "incomplete"
  /\ k.pc = "sync" => k.was = "incomplete"
BeginningHandled(b) == Incomplete(b) /\ \E k \in CallsOf(b) : HasBeginning(k)
WelcomeMarks ==
  {"declined", "lost", "late", "disordered", "overlap", "overtaken"}
Welcomed(b) ==
  Free(WelcomeMarks) /\ billed[b].paid /\ welcomed[b] = 0 =>
    BeginningComes(b) \/ BeginningHandled(b)

Together(b) == Promoted(b) /\ Told(b) /\ UntoldUnbegun(b) /\ Welcomed(b)

(* Marks only grow while something is on its way.                           *)
LEMMA FreeBefore ==
  ASSUME subFault \subseteq subFault'
  PROVE  /\ \A marks : (subFault' \cap marks = {}) => Free(marks)
         /\ \A mark : mark \notin subFault' => mark \notin subFault
  BY DEF Free

LEMMA RestsTogether ==
  ASSUME NEW b \in SubIds, Together(b), Rests(b), subFault \subseteq subFault'
  PROVE  Together(b)'
<1>0. /\ billed'[b] = billed[b] /\ subRow'[b] = subRow[b] /\ seen'[b] = seen[b]
      /\ welcomed'[b] = welcomed[b] /\ (b \in farewell' <=> b \in farewell)
      /\ EventsOf(b)' = EventsOf(b) /\ CallsOf(b)' = CallsOf(b)
  BY DEF Rests
<1>1. Promoted(b)'
  BY <1>0, FreeBefore DEF Together, Promoted, Free, Incomplete, PromotionComes
<1>2. Told(b)'
  <2>1. /\ \A e : Tells(e, b)' <=> Tells(e, b)
        /\ \A e : Disturbs(e, b)' <=> Disturbs(e, b)
        /\ \A k : Misleads(k, b)' <=> Misleads(k, b)
        /\ \A row : RowFits(row, b)' <=> RowFits(row, b)
        /\ Live(b)' <=> Live(b)
    BY <1>0 DEF Tells, Disturbs, Misleads, RowFits, StatusFits, Live
  <2>2. WordComes(b)' <=> WordComes(b)
    BY <1>0, <2>1 DEF WordComes
  <2>3. WordIsThere(b) => WordIsThere(b)'
    BY <1>0, <2>1, <2>2 DEF WordIsThere
  <2>4. WordIsLast(b) => WordIsLast(b)'
    BY <1>0, <2>1, <2>2 DEF WordIsLast
  <2> QED BY <2>1, <2>3, <2>4, FreeBefore DEF Together, Told, Free
<1>3. UntoldUnbegun(b)'
  BY <1>0 DEF Together, UntoldUnbegun, Untold, Unbegun
<1>4. Welcomed(b)'
  <2>1. \A e : StillFirst(b, e) => StillFirst(b, e)'
    BY <1>0 DEF StillFirst, Incomplete
  <2> QED BY <1>0, <2>1, FreeBefore
          DEF Together, Welcomed, Free, BeginningComes, BeginningHandled, Incomplete
<1> QED BY <1>1, <1>2, <1>3, <1>4 DEF Together

LEMMA FreeMeans ==
  ASSUME subFault \subseteq subFault'
  PROVE  /\ Free(PromotionMarks)' =>
              /\ Free(PromotionMarks)
              /\ {"overlap", "lost"} \cap subFault' = {} /\ "overlap" \notin subFault
         /\ Free(WordMarks)' =>
              /\ Free(WordMarks)
              /\ {"overlap", "lost", "disordered", "late"} \cap subFault' = {}
              /\ "overlap" \notin subFault
         /\ Free(WelcomeMarks)' =>
              /\ Free(WelcomeMarks)
              /\ WelcomeMarks \cap subFault' = {} /\ "overlap" \notin subFault
  BY DEF Free, PromotionMarks, WordMarks, WelcomeMarks

(* A subscription that Stripe does not bill differently is told the same.   *)
LEMMA SameWord ==
  ASSUME NEW b, billed'[b] = billed[b]
  PROVE  /\ \A e : Tells(e, b)' <=> Tells(e, b)
         /\ \A e : Disturbs(e, b)' <=> Disturbs(e, b)
         /\ \A k : Misleads(k, b)' <=> Misleads(k, b)
         /\ \A row : RowFits(row, b)' <=> RowFits(row, b)
         /\ Live(b)' <=> Live(b)
  BY DEF Tells, Disturbs, Misleads, RowFits, StatusFits, Live

LEMMA SavesTogether ==
  ASSUME NEW b \in SubIds, NEW k, NEW r, NEW marks, Together(b), Blames(marks),
         Saves(b, k, r), r \in Row,
         r.status = "incomplete" => KeepsIncomplete(k),
         Live(b) => Misleads(k, b) \/ RowFits(r, b),
         CallNotBegun(k) => r.status = "incomplete",
         CallUnbegun(k) => \/ r.status = "incomplete"
                           \/ EventsOf(b) = {} \/ "overtaken" \in subFault',
         HasBeginning(k) => welcomed'[b] # 0,
         welcomed'[b] = 0 => welcomed[b] = 0
  PROVE  Together(b)'
<1>0. /\ billed'[b] = billed[b] /\ seen'[b] = seen[b] /\ EventsOf(b)' = EventsOf(b)
      /\ farewell' = farewell /\ subFault \subseteq subFault'
      /\ subRow'[b] # NoRow /\ subRow'[b].status = r.status /\ subRow'[b].flag = r.flag
      /\ k \in CallsOf(b) /\ CallsOf(b)' \subseteq CallsOf(b)
      /\ "overlap" \notin subFault => CallsOf(b) = {k} /\ CallsOf(b)' = {}
  BY DEF Saves, Here, CallEnds, Blames, Row
<1>1. Promoted(b)'
  BY <1>0, FreeMeans DEF Together, Promoted, Incomplete, PromotionComes
<1>2. Told(b)'
  <2> SUFFICES ASSUME Free(WordMarks)', Live(b)'
               PROVE  WordIsThere(b)' /\ WordIsLast(b)'
    BY DEF Told
  <2>1. CallsOf(b) = {k} /\ CallsOf(b)' = {} /\ WordIsThere(b) /\ WordIsLast(b)
    BY <1>0, FreeMeans, SameWord DEF Together, Told
  <2>2. WordComes(b)' <=> WordComes(b)
    BY <1>0, SameWord DEF WordComes
  <2>3. RowFits(subRow'[b], b) \/ WordComes(b)
    BY <1>0, <2>1, SameWord DEF WordIsLast, RowFits
  <2>4. WordIsThere(b)'
    BY <1>0, <2>2, <2>3, SameWord DEF WordIsThere
  <2>5. WordIsLast(b)'
    BY <1>0, <2>1, <2>2, SameWord DEF WordIsLast
  <2> QED BY <2>4, <2>5
<1>3. UntoldUnbegun(b)'
  BY <1>0 DEF Together, UntoldUnbegun, Untold, Unbegun, NotBegun
<1>4. Welcomed(b)'
  <2> SUFFICES ASSUME Free(WelcomeMarks)', billed'[b].paid, welcomed'[b] = 0
               PROVE  BeginningComes(b)'
    BY DEF Welcomed
  <2>1. CallsOf(b) = {k} /\ CallsOf(b)' = {} /\ "overtaken" \notin subFault'
        /\ (BeginningComes(b) \/ BeginningHandled(b))
    BY <1>0, FreeMeans DEF Together, Welcomed, WelcomeMarks
  <2>2. ~BeginningHandled(b)
    BY <2>1 DEF BeginningHandled
  <2>3. \A e \in EventsOf(b) : StillFirst(b, e) => StillFirst(b, e)'
    BY <1>0, <2>1 DEF StillFirst, Incomplete
  <2> QED BY <1>0, <2>1, <2>2, <2>3 DEF BeginningComes
<1> QED BY <1>1, <1>2, <1>3, <1>4 DEF Together

LEMMA DropsTogether ==
  ASSUME NEW b \in SubIds, NEW k, NEW marks, Together(b), Blames(marks),
         Drops(b, k), Syncs(k) => "lost" \in subFault'
  PROVE  Together(b)'
<1>0. /\ billed'[b] = billed[b] /\ seen'[b] = seen[b] /\ EventsOf(b)' = EventsOf(b)
      /\ farewell' = farewell /\ subFault \subseteq subFault' /\ welcomed' = welcomed
      /\ subRow' = subRow /\ k \in CallsOf(b) /\ CallsOf(b)' \subseteq CallsOf(b)
      /\ "overlap" \notin subFault => CallsOf(b) = {k} /\ CallsOf(b)' = {}
  BY DEF Drops, Here, CallEnds, Blames
<1>1. Promoted(b)'
  BY <1>0, FreeMeans DEF Together, Promoted, Incomplete, PromotionComes
<1>2. Told(b)'
  <2> SUFFICES ASSUME Free(WordMarks)', Live(b)'
               PROVE  WordIsThere(b)' /\ WordIsLast(b)'
    BY DEF Told
  <2>1. /\ CallsOf(b) = {k} /\ CallsOf(b)' = {} /\ WordIsThere(b) /\ WordIsLast(b)
        /\ ~Syncs(k)
    BY <1>0, FreeMeans, SameWord DEF Together, Told
  <2>2. WordComes(b)' <=> WordComes(b)
    BY <1>0, SameWord DEF WordComes
  <2>3. WordIsThere(b)'
    BY <1>0, <2>1, <2>2, SameWord DEF WordIsThere
  <2>4. WordIsLast(b)'
    BY <1>0, <2>1, <2>2, SameWord DEF WordIsLast
  <2> QED BY <2>3, <2>4
<1>3. UntoldUnbegun(b)'
  BY <1>0 DEF Together, UntoldUnbegun, Untold, Unbegun
<1>4. Welcomed(b)'
  <2> SUFFICES ASSUME Free(WelcomeMarks)', billed'[b].paid, welcomed'[b] = 0
               PROVE  BeginningComes(b)'
    BY DEF Welcomed
  <2>1. CallsOf(b) = {k} /\ CallsOf(b)' = {} /\ ~Syncs(k)
        /\ (BeginningComes(b) \/ BeginningHandled(b))
    BY <1>0, FreeMeans DEF Together, Welcomed, WelcomeMarks
  <2>2. ~BeginningHandled(b)
    BY <2>1 DEF BeginningHandled, HasBeginning
  <2>3. \A e \in EventsOf(b) : StillFirst(b, e) => StillFirst(b, e)'
    BY <1>0, <2>1 DEF StillFirst, Incomplete
  <2> QED BY <1>0, <2>1, <2>2, <2>3 DEF BeginningComes
<1> QED BY <1>1, <1>2, <1>3, <1>4 DEF Together

LEMMA ClosesTogether ==
  ASSUME NEW b \in SubIds, NEW k, NEW marks, Together(b), Blames(marks),
         Closes(b, k), k.pc = "deleted", k.copy # NoRow
  PROVE  Together(b)'
<1>0. /\ billed'[b] = billed[b] /\ seen'[b] = seen[b] /\ EventsOf(b)' = EventsOf(b)
      /\ subFault \subseteq subFault' /\ welcomed' = welcomed
      /\ billed[b].status = "canceled"
      /\ IF k.copy.status = "incomplete"
         THEN subRow'[b] = NoRow /\ farewell' = farewell
         ELSE subRow'[b] # NoRow /\ subRow'[b].status = "canceled"
      /\ k \in CallsOf(b) /\ CallsOf(b)' \subseteq CallsOf(b)
      /\ "overlap" \notin subFault => CallsOf(b) = {k} /\ CallsOf(b)' = {}
  BY DEF Closes, Here, CallEnds, Blames
<1>1. Promoted(b)'
  BY <1>0, FreeMeans DEF Together, Promoted, Incomplete, PromotionComes
<1>2. Told(b)'
  BY <1>0 DEF Told, Live
<1>3. UntoldUnbegun(b)'
  <2> SUFFICES ASSUME Untold(b)'
               PROVE  Unbegun(b)'
    BY DEF UntoldUnbegun
  <2>1. Unbegun(b)
    BY <1>0 DEF Together, UntoldUnbegun, Untold
  <2>2. k.copy.status = "incomplete"
    BY <1>0, <2>1 DEF Unbegun, CallNotBegun, Handling, NotBegun
  <2> QED BY <1>0, <2>1, <2>2 DEF Unbegun, NotBegun
<1>4. Welcomed(b)'
  <2> SUFFICES ASSUME Free(WelcomeMarks)', billed'[b].paid, welcomed'[b] = 0
               PROVE  BeginningComes(b)'
    BY DEF Welcomed
  <2>1. CallsOf(b) = {k} /\ (BeginningComes(b) \/ BeginningHandled(b))
    BY <1>0, FreeMeans DEF Together, Welcomed, WelcomeMarks
  <2>2. ~BeginningHandled(b)
    BY <2>1 DEF BeginningHandled, HasBeginning, Syncs
  <2>3. \A e \in EventsOf(b) : ~StillFirst(b, e)
    BY <1>0, <2>1 DEF StillFirst, CallUnbegun
  <2> QED BY <1>0, <2>1, <2>2, <2>3 DEF BeginningComes
<1> QED BY <1>1, <1>2, <1>3, <1>4 DEF Together

(* What was never paid need only be unbegun.                                *)
LEMMA UnpaidTogether ==
  ASSUME NEW b, ~billed'[b].paid, LifeTrue(b)', UntoldUnbegun(b)'
  PROVE  Together(b)'
  BY DEF Together, Promoted, Told, Welcomed, LifeTrue

LEMMA BeginChangeTogether ==
  ASSUME NEW b \in SubIds, NEW k, NEW marks, Together(b), Blames(marks),
         Here(b), CallBegins(b, k), subRow[b] # NoRow,
         UNCHANGED <<subRow, welcomed, farewell>>,
         k.pc = "change", k.copy = subRow[b]
  PROVE  Together(b)'
<1>0. /\ billed'[b] = billed[b] /\ seen'[b] = seen[b] /\ EventsOf(b)' = EventsOf(b)
      /\ subFault \subseteq subFault' /\ CallsOf(b)' = CallsOf(b) \cup {k}
      /\ "overlap" \notin subFault' => CallsOf(b) = {}
      /\ subRow' = subRow /\ welcomed' = welcomed /\ farewell' = farewell
  BY DEF Here, CallBegins, Blames
<1>1. Promoted(b)'
  BY <1>0, FreeMeans DEF Together, Promoted, Incomplete, PromotionComes, KeepsIncomplete
<1>2. Told(b)'
  <2> SUFFICES ASSUME Free(WordMarks)', Live(b)'
               PROVE  WordIsThere(b)' /\ WordIsLast(b)'
    BY DEF Told
  <2>1. /\ CallsOf(b) = {} /\ CallsOf(b)' = {k} /\ WordIsThere(b) /\ WordIsLast(b)
    BY <1>0, FreeMeans, SameWord DEF Together, Told
  <2>2. WordComes(b)' <=> WordComes(b)
    BY <1>0, SameWord DEF WordComes
  <2>3. WordIsThere(b)'
    BY <1>0, <2>1, <2>2, SameWord DEF WordIsThere
  <2>4. Misleads(k, b) => WordComes(b)
    BY <2>1 DEF Misleads, Syncs, WordIsThere
  <2>5. WordIsLast(b)'
    BY <1>0, <2>1, <2>2, <2>4, SameWord DEF WordIsLast
  <2> QED BY <2>3, <2>5
<1>3. UntoldUnbegun(b)'
  <2>1. NotBegun(subRow[b]) => CallNotBegun(k)
    BY DEF CallNotBegun, Syncs
  <2> QED BY <1>0, <2>1 DEF Together, UntoldUnbegun, Untold, Unbegun
<1>4. Welcomed(b)'
  <2> SUFFICES ASSUME Free(WelcomeMarks)', billed'[b].paid, welcomed'[b] = 0
               PROVE  BeginningComes(b)'
    BY DEF Welcomed
  <2>1. /\ CallsOf(b) = {} /\ CallsOf(b)' = {k}
        /\ BeginningComes(b) \/ BeginningHandled(b)
    BY <1>0, FreeMeans DEF Together, Welcomed, WelcomeMarks
  <2>2. ~BeginningHandled(b) /\ CallUnbegun(k)
    BY <2>1 DEF BeginningHandled, CallUnbegun, Syncs
  <2>3. \A e \in EventsOf(b) : StillFirst(b, e) => StillFirst(b, e)'
    BY <1>0, <2>1, <2>2 DEF StillFirst, Incomplete
  <2> QED BY <1>0, <2>1, <2>2, <2>3 DEF BeginningComes
<1> QED BY <1>1, <1>2, <1>3, <1>4 DEF Together

LEMMA ReadSyncTogether ==
  ASSUME NEW b \in SubIds, NEW k, NEW m, NEW marks, Together(b), Blames(marks),
         Here(b), CallMoves(b, k, m), UNCHANGED <<subRow, welcomed, farewell>>,
         subRow[b] # NoRow, k.pc = "updated", k.sub = b, m = Reread(k)
  PROVE  Together(b)'
<1>0. /\ billed'[b] = billed[b] /\ seen'[b] = seen[b] /\ EventsOf(b)' = EventsOf(b)
      /\ subFault \subseteq subFault' /\ k \in CallsOf(b) /\ m \in CallsOf(b)'
      /\ CallsOf(b)' \subseteq CallsOf(b) \cup {m}
      /\ "overlap" \notin subFault => CallsOf(b) = {k} /\ CallsOf(b)' = {m}
      /\ subRow' = subRow /\ welcomed' = welcomed /\ farewell' = farewell
  BY DEF Here, CallMoves, Blames
<1>m. /\ m.pc = "sync" /\ m.event = k.event /\ m.copy = subRow[b] /\ Syncs(k) /\ Syncs(m)
      /\ m.was = IF k.copy = NoRow THEN "none" ELSE k.copy.status
  BY DEF Reread, Syncs
<1>1. Promoted(b)'
  BY <1>0, <1>m, FreeMeans DEF Together, Promoted, Incomplete, PromotionComes, KeepsIncomplete
<1>2. Told(b)'
  <2> SUFFICES ASSUME Free(WordMarks)', Live(b)'
               PROVE  WordIsThere(b)' /\ WordIsLast(b)'
    BY DEF Told
  <2>1. /\ CallsOf(b) = {k} /\ CallsOf(b)' = {m} /\ WordIsThere(b) /\ WordIsLast(b)
    BY <1>0, FreeMeans, SameWord DEF Together, Told
  <2>2. WordComes(b)' <=> WordComes(b)
    BY <1>0, SameWord DEF WordComes
  <2>3. WordIsThere(b)'
    BY <1>0, <1>m, <2>1, <2>2, SameWord DEF WordIsThere
  <2>4. Misleads(m, b) => WordComes(b)
    BY <1>m, <2>1 DEF Misleads, WordIsLast
  <2>5. WordIsLast(b)'
    BY <1>0, <2>1, <2>2, <2>4, SameWord DEF WordIsLast
  <2> QED BY <2>3, <2>5
<1>3. UntoldUnbegun(b)'
  <2>1. NotBegun(subRow[b]) /\ CallNotBegun(k) => CallNotBegun(m)
    BY <1>m DEF CallNotBegun
  <2> QED BY <1>0, <2>1 DEF Together, UntoldUnbegun, Untold, Unbegun
<1>4. Welcomed(b)'
  <2> SUFFICES ASSUME Free(WelcomeMarks)', billed'[b].paid, welcomed'[b] = 0
               PROVE  BeginningComes(b)' \/ BeginningHandled(b)'
    BY DEF Welcomed
  <2>1. /\ CallsOf(b) = {k} /\ CallsOf(b)' = {m}
        /\ BeginningComes(b) \/ BeginningHandled(b)
    BY <1>0, FreeMeans DEF Together, Welcomed, WelcomeMarks
  <2>2. BeginningHandled(b) => BeginningHandled(b)'
    BY <1>0, <1>m, <2>1 DEF BeginningHandled, HasBeginning, Incomplete
  <2>3. Incomplete(b) /\ CallUnbegun(k) => CallUnbegun(m)
    BY <1>m DEF Incomplete, CallUnbegun
  <2>4. \A e \in EventsOf(b) : StillFirst(b, e) => StillFirst(b, e)'
    BY <1>0, <2>1, <2>3 DEF StillFirst, Incomplete
  <2> QED BY <1>0, <2>1, <2>2, <2>4 DEF BeginningComes
<1> QED BY <1>1, <1>2, <1>3, <1>4 DEF Together

(* An event that is taken leaves the others; one of another kind than       *)
(* "updated" leaves every word.                                             *)
LEMMA Taken ==
  ASSUME LifeInv, NEW b \in SubIds, NEW e, TakesEvent(b, e)
  PROVE  /\ billed'[b] = billed[b] /\ EventsOf(b)' = EventsOf(b) \ {e}
         /\ subRow' = subRow /\ farewell' = farewell /\ e \in EventsOf(b)
         /\ \A f \in EventsOf(b) : f.n \in Nat /\ (f.n < seen[b] => f.n < seen'[b])
         /\ \A f \in EventsOf(b) : f.n < e.n => f.n < seen'[b]
<1>1. \A f \in EventsOf(b) : f.n \in Nat
  BY SubAssumption DEF EventsOf, LifeInv, SubInv, SubTypeOK, Event
<1>2. seen[b] \in Nat /\ e \in EventsOf(b)
  BY Frame DEF TakesEvent
<1>3. e.n \in Nat
  BY <1>1, <1>2
<1>4. \A f \in EventsOf(b) : /\ f.n < seen[b] => f.n < seen'[b]
                             /\ f.n < e.n => f.n < seen'[b]
  BY <1>1, <1>2, <1>3 DEF TakesEvent
<1> QED BY <1>1, <1>2, <1>4 DEF TakesEvent

LEMMA TakesAside ==
  ASSUME LifeInv, NEW b \in SubIds, NEW e, NEW marks, Together(b), Blames(marks),
         TakesEvent(b, e), e.kind # "updated", CallsOf(b)' = CallsOf(b),
         welcomed'[b] = 0 => welcomed[b] = 0
  PROVE  Together(b)'
<1>0. /\ billed'[b] = billed[b] /\ EventsOf(b)' = EventsOf(b) \ {e}
      /\ subFault \subseteq subFault'
      /\ subRow' = subRow /\ farewell' = farewell /\ CallsOf(b)' = CallsOf(b)
  BY Taken DEF Blames
<1>1. Promoted(b)'
  BY <1>0, FreeMeans DEF Together, Promoted, Incomplete, PromotionComes, Promotes
<1>2. Told(b)'
  <2> SUFFICES ASSUME Free(WordMarks)', Live(b)'
               PROVE  WordIsThere(b)' /\ WordIsLast(b)'
    BY DEF Told
  <2>1. WordIsThere(b) /\ WordIsLast(b)
    BY <1>0, FreeMeans, SameWord DEF Together, Told
  <2>2. WordComes(b)' <=> WordComes(b)
    BY <1>0, SameWord DEF WordComes, Tells
  <2>3. WordIsThere(b)'
    BY <1>0, <2>1, <2>2, SameWord DEF WordIsThere
  <2>4. ASSUME NEW f \in EventsOf(b)', Disturbs(f, b)
        PROVE  f.n < seen'[b] \/ \E g \in EventsOf(b)' : Tells(g, b) /\ f.n < g.n
    BY <1>0, <2>1, <2>4, Taken DEF WordIsLast, Tells
  <2>5. WordIsLast(b)'
    BY <1>0, <2>1, <2>2, <2>4, SameWord DEF WordIsLast
  <2> QED BY <2>3, <2>5
<1>3. UntoldUnbegun(b)'
  BY <1>0 DEF Together, UntoldUnbegun, Untold, Unbegun
<1>4. Welcomed(b)'
  <2> SUFFICES ASSUME Free(WelcomeMarks)', billed'[b].paid, welcomed'[b] = 0
               PROVE  BeginningComes(b)' \/ BeginningHandled(b)'
    BY DEF Welcomed
  <2>1. BeginningComes(b) \/ BeginningHandled(b)
    BY <1>0, FreeMeans DEF Together, Welcomed
  <2>2. BeginningHandled(b) => BeginningHandled(b)'
    BY <1>0 DEF BeginningHandled, Incomplete
  <2>3. \A f \in EventsOf(b) : StillFirst(b, f) => StillFirst(b, f)'
    BY <1>0 DEF StillFirst, Incomplete
  <2>4. BeginningComes(b) => BeginningComes(b)'
    BY <1>0, <2>3, Taken DEF BeginningComes, Begins
  <2> QED BY <2>1, <2>2, <2>4
<1> QED BY <1>1, <1>2, <1>3, <1>4 DEF Together

LEMMA BeginEventTogether ==
  ASSUME LifeInv, NEW b \in SubIds, NEW e, NEW k, NEW marks, Together(b), Blames(marks),
         TakesEvent(b, e), CallBegins(b, k), UNCHANGED welcomed,
         e.kind \in {"updated", "paid", "failed", "deleted"},
         k.pc = e.kind, k.event = e, k.copy = subRow[b],
         e.n < seen[b] => "disordered" \in subFault',
         subRow[b] # NoRow \/ "lost" \in subFault'
  PROVE  Together(b)'
<1>0. /\ billed'[b] = billed[b] /\ EventsOf(b)' = EventsOf(b) \ {e}
      /\ subFault \subseteq subFault' /\ e \in EventsOf(b)
      /\ subRow' = subRow /\ farewell' = farewell /\ welcomed' = welcomed
      /\ CallsOf(b)' = CallsOf(b) \cup {k} /\ ("overlap" \notin subFault' => CallsOf(b) = {})
  BY Taken DEF Blames, CallBegins
<1>1. Promoted(b)'
  <2> SUFFICES ASSUME Free(PromotionMarks)', billed'[b].paid
               PROVE  /\ Incomplete(b)' =>
                           \/ PromotionComes(b)'
                           \/ \E m \in CallsOf(b)' : Syncs(m) /\ Promotes(m.event)
                      /\ \A m \in CallsOf(b)' : KeepsIncomplete(m) => PromotionComes(b)'
    BY DEF Promoted
  <2>1. /\ CallsOf(b) = {} /\ CallsOf(b)' = {k}
        /\ Incomplete(b) => PromotionComes(b)
        /\ Incomplete(b)' <=> Incomplete(b) /\ subRow[b] # NoRow
    BY <1>0, FreeMeans DEF Together, Promoted, Incomplete
  <2>2. CASE e.kind = "updated"
    BY <1>0, <2>1, <2>2 DEF PromotionComes, KeepsIncomplete, Syncs
  <2>3. CASE e.kind # "updated"
    <3>1. Incomplete(b) => PromotionComes(b)'
      BY <1>0, <2>1, <2>3 DEF PromotionComes, Promotes
    <3>2. KeepsIncomplete(k) => Incomplete(b)
      BY <1>0, <2>1, FreeMeans DEF KeepsIncomplete, Incomplete
    <3> QED BY <2>1, <3>1, <3>2
  <2> QED BY <2>2, <2>3
<1>2. Told(b)'
  <2> SUFFICES ASSUME Free(WordMarks)', Live(b)'
               PROVE  WordIsThere(b)' /\ WordIsLast(b)'
    BY DEF Told
  <2>1. /\ WordIsThere(b) /\ WordIsLast(b) /\ CallsOf(b) = {} /\ CallsOf(b)' = {k}
        /\ ~(e.n < seen[b]) /\ subRow[b] # NoRow
    BY <1>0, FreeMeans, SameWord DEF Together, Told
  <2>2. WordIsThere(b)'
    <3>1. CASE RowFits(subRow[b], b)
      BY <1>0, <2>1, <3>1, SameWord DEF WordIsThere
    <3>2. ASSUME NEW f \in EventsOf(b), Tells(f, b)
          PROVE  WordIsThere(b)'
      <4>1. CASE f = e
        BY <1>0, <2>1, <3>2, <4>1, SameWord DEF WordIsThere, Syncs, Tells
      <4>2. CASE f # e
        BY <1>0, <3>2, <4>2, SameWord DEF WordIsThere, WordComes
      <4> QED BY <4>1, <4>2
    <3> QED BY <2>1, <3>1, <3>2 DEF WordIsThere, WordComes
  <2>3. ASSUME NEW f \in EventsOf(b)', Disturbs(f, b)
        PROVE  f.n < seen'[b] \/ \E g \in EventsOf(b)' : Tells(g, b) /\ f.n < g.n
    <3>1. f.n < seen[b] \/ \E g \in EventsOf(b) : Tells(g, b) /\ f.n < g.n
      BY <1>0, <2>1, <2>3 DEF WordIsLast
    <3> QED BY <1>0, <2>3, <3>1, Taken
  <2>4. Disturbs(e, b) => WordComes(b)'
    <3>1. SUFFICES ASSUME Disturbs(e, b)
                   PROVE  WordComes(b)'
      OBVIOUS
    <3>2. PICK f \in EventsOf(b) : Tells(f, b) /\ e.n < f.n
      BY <1>0, <2>1, <3>1 DEF WordIsLast
    <3>3. f # e
      BY <1>0, <3>2, Taken
    <3> QED BY <1>0, <3>2, <3>3, SameWord DEF WordComes
  <2>5. ~RowFits(subRow[b], b) /\ e.kind # "updated" => WordComes(b)'
    BY <1>0, <2>1, SameWord DEF WordIsThere, WordComes, Tells
  <2>6. Misleads(k, b) => Disturbs(e, b) \/ (~RowFits(subRow[b], b) /\ e.kind # "updated")
    BY DEF Misleads, Disturbs, Syncs, RowFits
  <2>7. WordIsLast(b)'
    BY <1>0, <2>1, <2>3, <2>4, <2>5, <2>6, SameWord DEF WordIsLast
  <2> QED BY <2>2, <2>7
<1>3. UntoldUnbegun(b)'
  <2>1. Unbegun(b) => CallNotBegun(k)
    BY <1>0 DEF Unbegun, CallNotBegun, Quietly, Syncs
  <2> QED BY <1>0, <2>1 DEF Together, UntoldUnbegun, Untold, Unbegun
<1>4. Welcomed(b)'
  <2> SUFFICES ASSUME Free(WelcomeMarks)', billed'[b].paid, welcomed'[b] = 0
               PROVE  BeginningComes(b)' \/ BeginningHandled(b)'
    BY DEF Welcomed
  <2>1. /\ CallsOf(b) = {} /\ CallsOf(b)' = {k} /\ ~(e.n < seen[b])
        /\ BeginningComes(b) \/ BeginningHandled(b)
    BY <1>0, FreeMeans DEF Together, Welcomed, WelcomeMarks
  <2>2. PICK f \in EventsOf(b) : Begins(f) /\ (f.n < seen[b] \/ StillFirst(b, f))
    BY <2>1 DEF BeginningHandled, BeginningComes
  <2>3. CASE f = e
    <3>1. StillFirst(b, e) /\ k.pc = "updated"
      BY <2>1, <2>2, <2>3 DEF Begins
    <3>2. HasBeginning(k) /\ Incomplete(b)'
      BY <1>0, <2>2, <2>3, <3>1 DEF StillFirst, Incomplete, HasBeginning, Syncs
    <3> QED BY <2>1, <3>2 DEF BeginningHandled
  <2>4. CASE f # e
    <3>1. f \in EventsOf(b)' /\ Begins(f)
      BY <1>0, <2>2, <2>4
    <3>2. CASE f.n < seen'[b]
      BY <3>1, <3>2 DEF BeginningComes
    <3>3. CASE ~(f.n < seen'[b])
      <4>1. StillFirst(b, f) /\ e.n <= f.n
        BY <1>0, <2>2, <3>3, Taken
      <4>2. Incomplete(b) /\ Quietly(e)
        BY <1>0, <2>4, <4>1 DEF StillFirst
      <4>3. CallUnbegun(k)
        BY <4>2 DEF CallUnbegun, Quietly, Syncs, Incomplete
      <4>4. StillFirst(b, f)'
        BY <1>0, <2>1, <4>1, <4>3 DEF StillFirst, Incomplete
      <4> QED BY <3>1, <4>4 DEF BeginningComes
    <3> QED BY <3>2, <3>3
  <2> QED BY <2>3, <2>4
<1> QED BY <1>1, <1>2, <1>3, <1>4 DEF Together

(* A row grows older, or is swept away.                                     *)
LEMMA AgeTogether ==
  ASSUME NEW b \in SubIds, NEW marks, Together(b), Blames(marks),
         Here(b), CallsOf(b)' = CallsOf(b), UNCHANGED <<welcomed, farewell>>,
         subRow[b] # NoRow, subRow'[b] # NoRow,
         subRow'[b].status = subRow[b].status, subRow'[b].flag = subRow[b].flag
  PROVE  Together(b)'
<1>0. /\ billed'[b] = billed[b] /\ seen'[b] = seen[b] /\ EventsOf(b)' = EventsOf(b)
      /\ subFault \subseteq subFault' /\ welcomed' = welcomed /\ farewell' = farewell
      /\ Incomplete(b)' <=> Incomplete(b)
      /\ NotBegun(subRow'[b]) <=> NotBegun(subRow[b])
      /\ RowFits(subRow'[b], b) <=> RowFits(subRow[b], b)
  BY DEF Here, Blames, Incomplete, NotBegun, RowFits
<1>1. Promoted(b)'
  BY <1>0, FreeMeans DEF Together, Promoted, PromotionComes
<1>2. Told(b)'
  <2> SUFFICES ASSUME Free(WordMarks)', Live(b)'
               PROVE  WordIsThere(b)' /\ WordIsLast(b)'
    BY DEF Told
  <2>1. WordIsThere(b) /\ WordIsLast(b)
    BY <1>0, FreeMeans, SameWord DEF Together, Told
  <2>2. WordComes(b)' <=> WordComes(b)
    BY <1>0, SameWord DEF WordComes
  <2>3. WordIsThere(b)'
    BY <1>0, <2>1, <2>2, SameWord DEF WordIsThere
  <2>4. WordIsLast(b)'
    BY <1>0, <2>1, <2>2, SameWord DEF WordIsLast
  <2> QED BY <2>3, <2>4
<1>3. UntoldUnbegun(b)'
  BY <1>0 DEF Together, UntoldUnbegun, Untold, Unbegun
<1>4. Welcomed(b)'
  <2>1. \A e : StillFirst(b, e) => StillFirst(b, e)'
    BY <1>0 DEF StillFirst
  <2> QED BY <1>0, <2>1, FreeMeans
          DEF Together, Welcomed, BeginningComes, BeginningHandled
<1> QED BY <1>1, <1>2, <1>3, <1>4 DEF Together

LEMMA SweepTogether ==
  ASSUME LifeInv, NEW b \in SubIds, NEW marks, Together(b), Blames(marks),
         Here(b), CallsOf(b)' = CallsOf(b), UNCHANGED <<welcomed, farewell>>,
         Stale(b), subRow'[b] = NoRow,
         EventsOf(b) # {} \/ CallsOf(b) # {} => "late" \in subFault'
  PROVE  Together(b)'
<1>0. /\ billed'[b] = billed[b] /\ seen'[b] = seen[b] /\ EventsOf(b)' = EventsOf(b)
      /\ subFault \subseteq subFault' /\ welcomed' = welcomed /\ farewell' = farewell
      /\ Incomplete(b) /\ ~Incomplete(b)'
  BY DEF Here, Blames, Incomplete, Stale
<1>1. Promoted(b)'
  BY <1>0, FreeMeans DEF Together, Promoted, PromotionComes
<1>2. Told(b)'
  <2> SUFFICES ASSUME Free(WordMarks)', Live(b)'
               PROVE  FALSE
    BY DEF Told
  <2>1. /\ EventsOf(b) = {} /\ CallsOf(b) = {} /\ Free(WordMarks)
    BY FreeMeans, <1>0
  <2>2. billed[b].paid
    BY <1>0, Frame DEF LifeTrue, Live
  <2>3. Free(PromotionMarks)
    BY <2>1 DEF Free, PromotionMarks, WordMarks
  <2> QED BY <1>0, <2>1, <2>2, <2>3 DEF Together, Promoted, PromotionComes
<1>3. UntoldUnbegun(b)'
  BY <1>0 DEF Together, UntoldUnbegun, Untold, Unbegun, NotBegun
<1>4. Welcomed(b)'
  <2> SUFFICES ASSUME Free(WelcomeMarks)', billed'[b].paid, welcomed'[b] = 0
               PROVE  FALSE
    BY DEF Welcomed
  <2>1. /\ EventsOf(b) = {} /\ CallsOf(b) = {}
        /\ BeginningComes(b) \/ BeginningHandled(b)
    BY <1>0, FreeMeans DEF Together, Welcomed, WelcomeMarks
  <2> QED BY <2>1 DEF BeginningComes, BeginningHandled
<1> QED BY <1>1, <1>2, <1>3, <1>4 DEF Together

-----------------------------------------------------------------------------
(* When Stripe changes a subscription, its word comes after every other;    *)
(* the calls are what they were, or the one that asked goes on.             *)
GoOn(b) ==
  \/ CallsOf(b)' = CallsOf(b)
  \/ \E k, m : /\ CallMoves(b, k, m) /\ k.pc = "change" /\ m.pc = "save"
               /\ m.copy.status = "incomplete" => k.copy.status = "incomplete"

Later(b) ==
  /\ EventsOf(b) \subseteq EventsOf(b)'
  /\ \A e \in EventsOf(b)' \ EventsOf(b), f \in EventsOf(b) : f.n < e.n /\ ~(e.n <= f.n)

LEMMA PromotedGoesOn ==
  ASSUME NEW b \in SubIds, NEW marks, Promoted(b), Blames(marks), GoOn(b),
         EventsOf(b) \subseteq EventsOf(b)', subRow'[b] = subRow[b],
         billed'[b].paid => billed[b].paid
  PROVE  Promoted(b)'
<1> SUFFICES ASSUME Free(PromotionMarks)', billed'[b].paid
             PROVE  /\ Incomplete(b)' =>
                         \/ PromotionComes(b)'
                         \/ \E m \in CallsOf(b)' : Syncs(m) /\ Promotes(m.event)
                    /\ \A m \in CallsOf(b)' : KeepsIncomplete(m) => PromotionComes(b)'
  BY DEF Promoted
<1>1. /\ Incomplete(b) =>
           \/ PromotionComes(b)
           \/ \E m \in CallsOf(b) : Syncs(m) /\ Promotes(m.event)
      /\ \A m \in CallsOf(b) : KeepsIncomplete(m) => PromotionComes(b)
      /\ "overlap" \notin subFault
  BY FreeMeans DEF Promoted, Blames
<1>2. PromotionComes(b) => PromotionComes(b)'
  BY DEF PromotionComes
<1>3. CASE CallsOf(b)' = CallsOf(b)
  BY <1>1, <1>2, <1>3 DEF Incomplete
<1>4. ASSUME NEW k, NEW m, CallMoves(b, k, m), k.pc = "change", m.pc = "save",
             m.copy.status = "incomplete" => k.copy.status = "incomplete"
      PROVE  /\ Incomplete(b)' => PromotionComes(b)'
             /\ \A x \in CallsOf(b)' : KeepsIncomplete(x) => PromotionComes(b)'
  <2>1. CallsOf(b) = {k} /\ CallsOf(b)' = {m}
    BY <1>1, <1>4 DEF CallMoves
  <2>2. ~Syncs(k) /\ (KeepsIncomplete(m) => KeepsIncomplete(k))
    BY <1>4 DEF Syncs, KeepsIncomplete
  <2> QED BY <1>1, <1>2, <2>1, <2>2 DEF Incomplete
<1> QED BY <1>3, <1>4 DEF GoOn

LEMMA WelcomedGoesOn ==
  ASSUME NEW b \in SubIds, NEW marks, Welcomed(b), Blames(marks), GoOn(b), Later(b),
         UNCHANGED <<subRow, seen, welcomed>>,
         billed'[b].paid => billed[b].paid
  PROVE  Welcomed(b)'
<1> SUFFICES ASSUME Free(WelcomeMarks)', billed'[b].paid, welcomed'[b] = 0
             PROVE  BeginningComes(b)' \/ BeginningHandled(b)'
  BY DEF Welcomed
<1>1. (BeginningComes(b) \/ BeginningHandled(b)) /\ "overlap" \notin subFault
  BY FreeMeans DEF Welcomed, Blames
<1>2. (\A x \in CallsOf(b) : CallUnbegun(x)) => (\A x \in CallsOf(b)' : CallUnbegun(x))
  <2>1. ASSUME NEW k, NEW m, CallMoves(b, k, m), m.pc = "save"
        PROVE  \A x \in CallsOf(b)' : CallUnbegun(x)
    BY <1>1, <2>1 DEF CallMoves, CallUnbegun, Syncs
  <2> QED BY <2>1 DEF GoOn
<1>3. BeginningHandled(b) => BeginningHandled(b)'
  <2>1. ASSUME NEW k, NEW m, CallMoves(b, k, m), k.pc = "change"
        PROVE  ~BeginningHandled(b)
    BY <1>1, <2>1 DEF CallMoves, BeginningHandled, HasBeginning, Syncs
  <2>2. CASE CallsOf(b)' = CallsOf(b)
    BY <2>2 DEF BeginningHandled, Incomplete
  <2> QED BY <2>1, <2>2 DEF GoOn
<1>4. \A e \in EventsOf(b) : StillFirst(b, e) => StillFirst(b, e)'
  BY <1>2 DEF StillFirst, Incomplete, Later
<1>5. BeginningComes(b) => BeginningComes(b)'
  BY <1>4 DEF BeginningComes, Later
<1> QED BY <1>1, <1>3, <1>5

LEMMA NewWord ==
  ASSUME NEW b \in SubIds, Later(b), NEW e \in EventsOf(b)', e \notin EventsOf(b),
         Tells(e, b)', \A f \in EventsOf(b)' \ EventsOf(b) : ~Disturbs(f, b)'
  PROVE  Told(b)'
<1>1. WordComes(b)'
  BY DEF WordComes
<1>2. WordIsThere(b)'
  BY <1>1 DEF WordIsThere
<1>3. WordIsLast(b)'
  BY <1>1 DEF WordIsLast, Later
<1> QED BY <1>2, <1>3 DEF Told

(* What Stripe says of a change.                                            *)
StripeNews(b, new, kinds) ==
        /\ billed'[b].status = new.status /\ billed'[b].flag = new.flag
        /\ billed'[b].paid = new.paid /\ Later(b)
        /\ \A e \in EventsOf(b)' \ EventsOf(b) :
             e.kind \in kinds /\ e.status = new.status /\ e.flag = new.flag
        /\ \A kind \in kinds : \E e \in EventsOf(b)' :
             /\ e \notin EventsOf(b)
             /\ e.kind = kind /\ e.status = new.status /\ e.flag = new.flag

LEMMA ChangeNews ==
  ASSUME LifeInv, NEW b \in SubIds, NEW new \in Billed, new.n = billed[b].n,
         NEW kinds, ChangeAtStripe(b, new, kinds)
  PROVE  StripeNews(b, new, kinds)
<1> DEFINE word(k) == [sub |-> b, kind |-> k, status |-> new.status,
                       flag |-> new.flag, n |-> new.n + 1]
           news == {word(k) : k \in kinds}
<1>1. billed'[b] = [new EXCEPT !.n = @ + 1] /\ EventsOf(b)' = EventsOf(b) \cup news
  BY ChangeSays DEF LifeInv, SubInv
<1>2. \A e \in news : /\ e.kind \in kinds /\ e.status = new.status
                      /\ e.flag = new.flag /\ e.n = new.n + 1
  OBVIOUS
<1>3. \A kind \in kinds : \E e \in news :
        e.kind = kind /\ e.status = new.status /\ e.flag = new.flag
  <2>1. SUFFICES ASSUME NEW kind \in kinds
                 PROVE  \E e \in news :
                   e.kind = kind /\ e.status = new.status /\ e.flag = new.flag
    OBVIOUS
  <2>2. word(kind) \in news
    OBVIOUS
  <2> QED BY <2>2
<1> HIDE DEF news
<1>4. billed[b].n \in Nat /\ \A f \in EventsOf(b) : f.n \in Nat /\ f.n <= billed[b].n
  <2>1. \A f \in EventsOf(b) : f.n <= billed[b].n
    BY Frame DEF LifeTrue
  <2>2. \A f \in EventsOf(b) : f.n \in Nat
    BY SubAssumption DEF EventsOf, LifeInv, SubInv, SubTypeOK, Event
  <2> QED BY <2>1, <2>2, Frame
<1>5. \A e \in news, f \in EventsOf(b) : f.n < e.n /\ ~(e.n <= f.n)
  <2>1. SUFFICES ASSUME NEW e \in news, NEW f \in EventsOf(b)
                 PROVE  f.n < e.n /\ ~(e.n <= f.n)
    OBVIOUS
  <2>2. e.n = billed[b].n + 1
    BY <1>2
  <2>3. f.n \in Nat /\ f.n <= billed[b].n /\ billed[b].n \in Nat
    BY <1>4
  <2> QED BY <2>2, <2>3
<1>6. \A e \in news : e \notin EventsOf(b)
  <2>1. SUFFICES ASSUME NEW e \in news, e \in EventsOf(b)
                 PROVE  FALSE
    OBVIOUS
  <2>2. e.n < e.n /\ e.n \in Nat
    BY <1>4, <1>5, <2>1
  <2> QED BY <2>2
<1>7. Later(b)
  BY <1>1, <1>5 DEF Later
<1>8. /\ billed'[b].status = new.status /\ billed'[b].flag = new.flag
      /\ billed'[b].paid = new.paid
  BY <1>1 DEF Billed
<1>9. /\ \A e \in EventsOf(b)' \ EventsOf(b) :
           e.kind \in kinds /\ e.status = new.status /\ e.flag = new.flag
      /\ \A kind \in kinds : \E e \in EventsOf(b)' :
           /\ e \notin EventsOf(b)
           /\ e.kind = kind /\ e.status = new.status /\ e.flag = new.flag
  BY <1>1, <1>2, <1>3, <1>6
<1> QED BY <1>7, <1>8, <1>9 DEF StripeNews

LEMMA MoveNews ==
  ASSUME LifeInv, NEW b \in SubIds, NEW from, NEW to \in StripeStatus, NEW kinds,
         StripeMoves(b, from, to, kinds)
  PROVE  /\ StripeNews(b, Moved(b, to), kinds) /\ Only(b)
         /\ billed[b].status \in from /\ billed'[b].status = to
         /\ billed'[b].flag = billed[b].flag
         /\ (billed'[b].paid <=> billed[b].paid \/ to = "active")
         /\ UNCHANGED <<subRow, seen, welcomed, farewell, customer, updates>>
         /\ CallsOf(b)' = CallsOf(b) /\ GoOn(b)
<1>1. /\ Moved(b, to) \in Billed /\ ChangeAtStripe(b, Moved(b, to), kinds)
      /\ billed[b].status \in from
      /\ UNCHANGED <<subRow, seen, welcomed, farewell, subCall, customer, updates>>
      /\ \A a \in SubIds : a # b => Rests(a)
  BY MoveSteps
<1>2. /\ Moved(b, to).n = billed[b].n /\ Moved(b, to).status = to
      /\ Moved(b, to).flag = billed[b].flag
      /\ Moved(b, to).paid = (billed[b].paid \/ to = "active")
  BY Frame DEF Billed, Moved
<1>3. StripeNews(b, Moved(b, to), kinds)
  BY <1>1, <1>2, ChangeNews
<1>4. CallsOf(b)' = CallsOf(b)
  BY <1>1, CallsKept
<1> QED BY <1>1, <1>2, <1>3, <1>4 DEF StripeNews, Only, GoOn

(* A billed subscription moves on.                                          *)
LEMMA BilledMoves ==
  ASSUME LifeInv, NEW b \in SubIds, NEW from, NEW to \in StripeStatus, NEW kinds,
         NEW marks, StripeMoves(b, from, to, kinds),
         from \subseteq {"active", "past_due", "trialing"},
         Together(b), Blames(marks),
         \/ to = "canceled"
         \/ /\ "updated" \in kinds /\ to # "trialing"
            /\ "failed" \in kinds => to = "past_due"
         \/ from = {to} /\ kinds = {"paid"}
  PROVE  Together(b)'
<1>1. /\ StripeNews(b, Moved(b, to), kinds) /\ billed[b].status \in from
      /\ billed'[b].status = to /\ billed'[b].flag = billed[b].flag
      /\ (billed'[b].paid <=> billed[b].paid \/ to = "active")
      /\ subRow' = subRow /\ seen' = seen /\ welcomed' = welcomed
      /\ CallsOf(b)' = CallsOf(b) /\ GoOn(b)
  BY MoveNews
<1>2. billed[b].paid /\ billed'[b].paid
  BY <1>1, Frame DEF LifeTrue, Live
<1>3. /\ Later(b) /\ EventsOf(b) \subseteq EventsOf(b)'
      /\ \A e \in EventsOf(b)' \ EventsOf(b) :
           e.kind \in kinds /\ e.status = to /\ e.flag = billed[b].flag
      /\ \A kind \in kinds : \E e \in EventsOf(b)' :
           /\ e \notin EventsOf(b)
           /\ e.kind = kind /\ e.status = to /\ e.flag = billed[b].flag
  BY <1>1 DEF StripeNews, Later
<1>4. Promoted(b)' /\ Welcomed(b)'
  BY <1>1, <1>2, <1>3, PromotedGoesOn, WelcomedGoesOn DEF Together
<1>5. UntoldUnbegun(b)'
  BY <1>2 DEF UntoldUnbegun, Untold
<1>6. Told(b)'
  <2>1. CASE to = "canceled"
    BY <1>1, <2>1 DEF Told, Live
  <2>2. CASE /\ "updated" \in kinds /\ to # "trialing"
             /\ "failed" \in kinds => to = "past_due"
    <3>1. PICK e \in EventsOf(b)' : /\ e \notin EventsOf(b) /\ e.kind = "updated"
                                    /\ e.status = to /\ e.flag = billed[b].flag
      BY <1>3, <2>2
    <3>2. Tells(e, b)'
      BY <1>1, <3>1 DEF Tells
    <3>3. \A f \in EventsOf(b)' \ EventsOf(b) : ~Disturbs(f, b)'
      BY <1>1, <1>3, <2>2 DEF Disturbs, Tells, StatusFits
    <3> QED BY <1>3, <3>1, <3>2, <3>3, NewWord
  <2>3. CASE from = {to} /\ kinds = {"paid"}
    <3>1. /\ \A e : Tells(e, b)' <=> Tells(e, b)
          /\ \A e : Disturbs(e, b)' <=> Disturbs(e, b)
          /\ \A k : Misleads(k, b)' <=> Misleads(k, b)
          /\ \A row : RowFits(row, b)' <=> RowFits(row, b)
          /\ Live(b)' <=> Live(b)
      BY <1>1, <2>3 DEF Tells, Disturbs, Misleads, RowFits, StatusFits, Live
    <3>2. \A e \in EventsOf(b)' \ EventsOf(b) : ~Tells(e, b) /\ ~Disturbs(e, b)
      BY <1>3, <2>3 DEF Tells, Disturbs
    <3>3. WordComes(b)' <=> WordComes(b)
      BY <1>3, <3>1, <3>2 DEF WordComes
    <3>4. WordIsThere(b) => WordIsThere(b)'
      BY <1>1, <3>1, <3>3 DEF WordIsThere
    <3>5. WordIsLast(b) => WordIsLast(b)'
      <4> SUFFICES ASSUME WordIsLast(b)
                   PROVE  WordIsLast(b)'
        OBVIOUS
      <4>1. ASSUME NEW e \in EventsOf(b)', Disturbs(e, b)
            PROVE  e.n < seen[b] \/ \E f \in EventsOf(b)' : Tells(f, b) /\ e.n < f.n
        BY <1>3, <3>2, <4>1 DEF WordIsLast
      <4> QED BY <1>1, <3>1, <3>3, <4>1 DEF WordIsLast
    <3> QED BY <3>1, <3>4, <3>5, FreeMeans DEF Told, Together, Blames
  <2> QED BY <2>1, <2>2, <2>3
<1> QED BY <1>4, <1>5, <1>6 DEF Together

LEMMA CallsAre ==
  ASSUME LifeInv, NEW b \in SubIds, NEW k \in CallsOf(b)
  PROVE  /\ k.sub = b /\ (\E s \in SubSlots : subCall[s] = k)
         /\ Changing(k) => k.copy \in Row /\ k.op \in SubChanges
         /\ Handling(k) => /\ k.event \in Event
                           /\ k.pc # "updated" => k.copy \in Row
                           /\ k.copy \in Row \cup {NoRow}
         /\ k.pc = "deleted" => billed[b].status = "canceled"
<1>1. PICK s \in SubSlots : subCall[s] = k /\ k.sub = b
  BY OnIt
<1>2. SubInv
  BY DEF LifeInv
<1>3. k.pc = "deleted" => billed[b].status = "canceled"
  <2>1. k.pc = "deleted" => Handling(k)
    BY DEF Handling
  <2>2. k.pc = "deleted" => k.event.sub \in Ended /\ k.event.sub = b
    BY <1>1, <1>2, <2>1, CallKinds DEF EventTrue
  <2> QED BY <2>2 DEF Ended
<1> QED BY <1>1, <1>2, <1>3, CallKinds

(* A subscription that was not paid is paid, declined or given up.          *)
LEMMA FirstPaymentTogether ==
  ASSUME LifeInv, NEW b \in SubIds, NEW marks, FirstPayment(b),
         Together(b), Blames(marks)
  PROVE  Together(b)'
<1> DEFINE kinds == {"updated", "paid"}
<1>1. /\ billed[b].secret /\ StripeMoves(b, {"incomplete"}, "active", kinds)
  BY DEF FirstPayment
<1>2. "active" \in StripeStatus
  BY DEF StripeStatus
<1> HIDE DEF kinds
<1>3. /\ StripeNews(b, Moved(b, "active"), kinds) /\ billed[b].status = "incomplete"
      /\ billed'[b].status = "active" /\ billed'[b].flag = billed[b].flag
      /\ billed'[b].paid
      /\ subRow' = subRow /\ seen' = seen /\ welcomed' = welcomed
      /\ CallsOf(b)' = CallsOf(b)
  <2>1. /\ StripeNews(b, Moved(b, "active"), kinds) /\ billed[b].status \in {"incomplete"}
        /\ billed'[b].status = "active" /\ billed'[b].flag = billed[b].flag
        /\ (billed'[b].paid <=> billed[b].paid \/ "active" = "active")
        /\ UNCHANGED <<subRow, seen, welcomed, farewell, customer, updates>>
        /\ CallsOf(b)' = CallsOf(b)
    BY <1>1, <1>2, MoveNews
  <2> QED BY <2>1
<1>4. /\ Later(b) /\ EventsOf(b) \subseteq EventsOf(b)'
      /\ \A e \in EventsOf(b)' \ EventsOf(b) :
           e.kind \in kinds /\ e.status = "active" /\ e.flag = billed[b].flag
  BY <1>3 DEF StripeNews, Later
<1>5. PICK e \in EventsOf(b)' : /\ e \notin EventsOf(b) /\ e.kind = "updated"
                                /\ e.status = "active" /\ e.flag = billed[b].flag
  BY <1>3, <1>4 DEF StripeNews, kinds
<1>6. Promoted(b)'
  <2>1. PromotionComes(b)'
    BY <1>5 DEF PromotionComes, Promotes
  <2> QED BY <2>1 DEF Promoted
<1>7. Told(b)'
  <2>1. Tells(e, b)'
    BY <1>3, <1>5 DEF Tells
  <2>2. \A f \in EventsOf(b)' \ EventsOf(b) : ~Disturbs(f, b)'
    BY <1>3, <1>4 DEF Disturbs, Tells, kinds
  <2> QED BY <1>4, <1>5, <2>1, <2>2, NewWord
<1>8. UntoldUnbegun(b)'
  BY <1>3 DEF UntoldUnbegun, Untold
<1>9. Welcomed(b)'
  <2> SUFFICES ASSUME Free(WelcomeMarks)'
               PROVE  BeginningComes(b)'
    BY DEF Welcomed
  <2>1. ~billed[b].paid /\ subRow[b] # NoRow
    BY <1>1, <1>3, Frame DEF LifeTrue
  <2>2. Unbegun(b)
    BY <1>3, <2>1, FreeMeans DEF Together, UntoldUnbegun, Untold, Blames, WelcomeMarks
  <2>3. Incomplete(b)'
    BY <1>3, <2>1, <2>2 DEF Unbegun, NotBegun, Incomplete
  <2>4. \A f \in EventsOf(b) : Quietly(f)
    <3>1. SUFFICES ASSUME NEW f \in EventsOf(b), f.kind = "deleted"
                   PROVE  FALSE
      BY <2>2 DEF Unbegun
    <3>2. b \in Ended
      BY <3>1 DEF EventsOf, LifeInv, SubInv, WordsTrue, EventTrue, TellsEnd
    <3> QED BY <1>3, <3>2 DEF Ended
  <2>5. \A f \in EventsOf(b)' : f # e /\ f.n <= e.n => Quietly(f)
    <3>1. SUFFICES ASSUME NEW f \in EventsOf(b)' \ EventsOf(b), f # e, f.kind = "updated"
                   PROVE  FALSE
      BY <1>4, <2>4 DEF Quietly, kinds
    <3>2. f = [sub |-> b, kind |-> "updated", status |-> "active",
               flag |-> billed[b].flag, n |-> billed[b].n + 1]
          /\ e = f
      <4>1. \A g \in EventsOf(b)' \ EventsOf(b) : \E kind \in kinds :
              g = [sub |-> b, kind |-> kind, status |-> Moved(b, "active").status,
                   flag |-> Moved(b, "active").flag, n |-> Moved(b, "active").n + 1]
        <5>1. /\ Moved(b, "active") \in Billed /\ SubTypeOK
              /\ ChangeAtStripe(b, Moved(b, "active"), kinds)
          BY <1>1, <1>2, MoveSteps DEF LifeInv, SubInv
        <5> DEFINE new == Moved(b, "active")
        <5> HIDE DEF kinds, new
        <5>2. EventsOf(b)' = EventsOf(b) \cup
                {[sub |-> b, kind |-> k, status |-> new.status, flag |-> new.flag,
                  n |-> new.n + 1] : k \in kinds}
          BY <5>1, ChangeSays DEF new
        <5> QED BY <5>2 DEF new
      <4>2. /\ Moved(b, "active").status = "active"
            /\ Moved(b, "active").flag = billed[b].flag
            /\ Moved(b, "active").n = billed[b].n
        BY Frame DEF Moved, Billed
      <4> QED BY <1>5, <3>1, <4>1, <4>2
    <3> QED BY <3>1, <3>2
  <2>6. \A k \in CallsOf(b) : CallUnbegun(k)
    <3>1. SUFFICES ASSUME NEW k \in CallsOf(b)
                   PROVE  CallUnbegun(k)
      OBVIOUS
    <3>2. CallNotBegun(k)
      BY <2>2 DEF Unbegun
    <3>3. k.pc \in {"paid", "sync"} => k.copy \in Row /\ NotBegun(k.copy)
      BY <3>2, CallsAre DEF Handling, CallNotBegun
    <3>4. k.pc # "deleted" /\ k.pc # "failed" /\ (Syncs(k) => k.event.status \notin Begun)
      BY <1>3, <3>2, CallsAre DEF CallNotBegun
    <3> QED BY <3>3, <3>4, NoRowAssumption DEF CallUnbegun, NotBegun
  <2>7. StillFirst(b, e)'
    BY <1>3, <2>3, <2>5, <2>6 DEF StillFirst
  <2> QED BY <1>5, <2>7 DEF BeginningComes, Begins
<1> QED BY <1>6, <1>7, <1>8, <1>9 DEF Together

LEMMA UnpaidMoves ==
  ASSUME LifeInv, NEW b \in SubIds, NEW to \in {"incomplete", "canceled"}, NEW kinds,
         NEW marks, StripeMoves(b, {"incomplete"}, to, kinds), LifeTrue(b)',
         Together(b), Blames(marks),
         "declined" \in marks \/ kinds = {"deleted"}
  PROVE  Together(b)'
<1>1. to \in StripeStatus
  BY DEF StripeStatus
<1>2. /\ StripeNews(b, Moved(b, to), kinds) /\ billed[b].status = "incomplete"
      /\ (billed'[b].paid <=> billed[b].paid)
      /\ subRow' = subRow /\ farewell' = farewell /\ CallsOf(b)' = CallsOf(b)
  BY <1>1, MoveNews
<1>3. ~billed[b].paid
  BY <1>2, Frame DEF LifeTrue
<1>4. UntoldUnbegun(b)'
  <2> SUFFICES ASSUME Untold(b)'
               PROVE  Unbegun(b)'
    BY DEF UntoldUnbegun
  <2>1. Unbegun(b) /\ kinds = {"deleted"}
    BY <1>2, <1>3 DEF Together, UntoldUnbegun, Untold, Blames
  <2>2. \A e \in EventsOf(b)' : e \in EventsOf(b) \/ e.kind = "deleted"
    BY <1>2, <2>1 DEF StripeNews
  <2> QED BY <1>2, <2>1, <2>2 DEF Unbegun
<1> QED BY <1>2, <1>3, <1>4, UnpaidTogether

(* What a call that asked Stripe goes on with.                              *)
LEMMA CopyAsked ==
  ASSUME NEW b \in SubIds, billed[b] \in Billed, NEW k, k.copy \in Row,
         k.op \in SubChanges, billed[b].status \notin {"none", "canceled"},
         k.op.name = "terms" /\ k.op.trial => billed[b].paid,
         NEW new, new = ChangeOf(b, k.op)
  PROVE  /\ Copied(k, new).status = "incomplete" => k.copy.status = "incomplete"
         /\ new.status = "incomplete" /\ k.copy.status = "incomplete" =>
              Copied(k, new).status = "incomplete"
         /\ new = billed[b] /\ RowFits(k.copy, b) => RowFits(Copied(k, new), b)
         /\ (new.paid <=> billed[b].paid)
         /\ \/ new.status = billed[b].status
            \/ new.status = "canceled"
            \/ new.status = "trialing" /\ billed[b].paid
<1>1. k.op.flag \in BOOLEAN /\ billed[b].status \in StripeStatus
  BY Flags DEF Billed
<1>2. CASE k.op.name = "cancel" /\ ~k.op.flag
  <2>1. new = [billed[b] EXCEPT !.status = "canceled"]
    BY <1>2 DEF ChangeOf
  <2>2. new.status = "canceled" /\ new.paid = billed[b].paid
    BY <2>1 DEF Billed
  <2>3. Copied(k, new).status = "canceled"
    BY <1>2 DEF Copied, Row
  <2> QED BY <2>2, <2>3
<1>3. CASE ~(k.op.name = "cancel" /\ ~k.op.flag) /\ k.op.name = "terms"
  <2>1. Copied(k, new) = [k.copy EXCEPT !.flag = new.flag,
                                       !.status = Mapped(new.status, k.copy.status)]
    BY <1>3 DEF Copied
  <2>2. /\ Copied(k, new).status = Mapped(new.status, k.copy.status)
        /\ Copied(k, new).flag = new.flag
    BY <2>1 DEF Row
  <2>3. CASE k.op.trial
    <3>1. new = [billed[b] EXCEPT !.status = "trialing"]
      BY <1>3, <2>3 DEF ChangeOf
    <3>2. new.status = "trialing" /\ new.paid = billed[b].paid
      BY <3>1 DEF Billed
    <3> QED BY <1>1, <1>3, <2>2, <2>3, <3>2 DEF Mapped, RowFits, StatusFits
  <2>4. CASE ~k.op.trial
    <3>1. new = [billed[b] EXCEPT !.flag = k.op.flag]
      BY <1>3, <2>4 DEF ChangeOf
    <3>2. new.status = billed[b].status /\ new.paid = billed[b].paid
      BY <3>1 DEF Billed
    <3> QED BY <1>1, <2>2, <3>2 DEF Mapped, RowFits, StatusFits, StripeStatus
  <2> QED BY <2>3, <2>4
<1>4. CASE ~(k.op.name = "cancel" /\ ~k.op.flag) /\ k.op.name # "terms"
  <2>1. new = [billed[b] EXCEPT !.flag = k.op.flag]
    BY <1>4 DEF ChangeOf
  <2>2. /\ new.status = billed[b].status /\ new.paid = billed[b].paid
        /\ new.flag = k.op.flag
    BY <2>1 DEF Billed
  <2>3. Copied(k, new) = [k.copy EXCEPT !.flag = k.op.flag]
    BY <1>4 DEF Copied
  <2>4. Copied(k, new).status = k.copy.status /\ Copied(k, new).flag = k.op.flag
    BY <2>3 DEF Row
  <2> QED BY <2>2, <2>4 DEF RowFits, StatusFits
<1> QED BY <1>2, <1>3, <1>4

LEMMA AskTogether ==
  ASSUME LifeInv, NEW s \in SubSlots, NEW k, k = subCall[s], AskStripe(s),
         NEW new, new = ChangeOf(k.sub, k.op), NEW marks, Blames(marks),
         new.status = "canceled" /\ ~new.paid => "dropped" \in marks,
         Together(k.sub)
  PROVE  Together(k.sub)'
<1> DEFINE b == k.sub
           m == GoesOn(k, new)
<1>1. /\ b \in SubIds /\ k \in CallsOf(b) /\ k.pc = "change"
      /\ k.copy \in Row /\ k.op \in SubChanges
      /\ CallMoves(b, k, m) /\ m.pc = "save" /\ m.copy = Copied(k, new)
      /\ UNCHANGED <<subRow, seen, welcomed, farewell>>
      /\ new \in Billed /\ new.n = billed[b].n
      /\ billed[b].status \notin {"none", "canceled"}
      /\ k.op.name = "terms" /\ k.op.trial => billed[b].paid
      /\ IF new = billed[b]
         THEN billed'[b] = billed[b] /\ EventsOf(b)' = EventsOf(b)
         ELSE ChangeAtStripe(b, new, AskedWord(new))
  BY AskSteps
<1>2. /\ m.copy.status = "incomplete" => k.copy.status = "incomplete"
      /\ new.status = "incomplete" /\ k.copy.status = "incomplete" =>
              m.copy.status = "incomplete"
      /\ new = billed[b] /\ RowFits(k.copy, b) => RowFits(m.copy, b)
      /\ (new.paid <=> billed[b].paid)
      /\ \/ new.status = billed[b].status
         \/ new.status = "canceled"
         \/ new.status = "trialing" /\ billed[b].paid
  BY <1>1, Frame, CopyAsked
<1> HIDE DEF b, m
<1>3. /\ GoOn(b) /\ CallsOf(b)' \subseteq CallsOf(b) \cup {m} /\ subFault \subseteq subFault'
      /\ "overlap" \notin subFault => CallsOf(b) = {k} /\ CallsOf(b)' = {m}
      /\ subRow' = subRow /\ seen' = seen /\ welcomed' = welcomed /\ farewell' = farewell
  BY <1>1, <1>2 DEF GoOn, CallMoves, Blames
<1>4. LifeTrue(b) /\ billed[b].status \in StripeStatus /\ Together(b)
  BY <1>1, Frame DEF Billed, b
<1>5. ~Syncs(k) /\ ~Syncs(m) /\ CallUnbegun(m)
      /\ (CallNotBegun(k) => k.copy.status = "incomplete")
  BY <1>1, NoRowAssumption DEF Syncs, CallUnbegun, CallNotBegun, Changing, NotBegun
<1>6. NotBegun(m.copy) => CallNotBegun(m)
  BY <1>1, <1>5 DEF CallNotBegun
<1>7. CASE new = billed[b]
  <2>1. billed'[b] = billed[b] /\ EventsOf(b)' = EventsOf(b) /\ Later(b)
    BY <1>1, <1>7 DEF Later
  <2>2. Promoted(b)' /\ Welcomed(b)'
    BY <1>1, <1>3, <1>4, <2>1, PromotedGoesOn, WelcomedGoesOn DEF Together
  <2>3. Told(b)'
    <3> SUFFICES ASSUME Free(WordMarks)', Live(b)'
                 PROVE  WordIsThere(b)' /\ WordIsLast(b)'
      BY DEF Told
    <3>1. CallsOf(b) = {k} /\ CallsOf(b)' = {m} /\ WordIsThere(b) /\ WordIsLast(b)
      BY <1>3, <1>4, <2>1, FreeMeans, SameWord DEF Together, Told
    <3>2. WordComes(b)' <=> WordComes(b)
      BY <2>1, SameWord DEF WordComes
    <3>3. WordIsThere(b)'
      BY <1>3, <1>5, <2>1, <3>1, <3>2, SameWord DEF WordIsThere
    <3>4. Misleads(m, b) => Misleads(k, b)
      BY <1>1, <1>2, <1>5, <1>7 DEF Misleads
    <3>5. WordIsLast(b)'
      BY <1>3, <2>1, <3>1, <3>2, <3>4, SameWord DEF WordIsLast
    <3> QED BY <3>3, <3>5
  <2>4. UntoldUnbegun(b)'
    <3> SUFFICES ASSUME Untold(b)'
                 PROVE  Unbegun(b)'
      BY DEF UntoldUnbegun
    <3>1. Unbegun(b) /\ ~billed[b].paid
      BY <1>3, <1>4, <2>1 DEF Together, UntoldUnbegun, Untold
    <3>2. new.status = "incomplete"
      BY <1>1, <1>4, <1>7, <3>1 DEF LifeTrue, Live, StripeStatus
    <3>3. CallNotBegun(m)
      BY <1>1, <1>2, <1>5, <1>6, <3>1, <3>2 DEF Unbegun, NotBegun
    <3> QED BY <1>3, <2>1, <3>1, <3>3 DEF Unbegun
  <2> QED BY <2>2, <2>3, <2>4 DEF Together, b
<1>8. CASE new # billed[b]
  <2> DEFINE kinds == AskedWord(new)
  <2>0. ChangeAtStripe(b, new, kinds)
    BY <1>1, <1>8
  <2> HIDE DEF kinds
  <2>1. StripeNews(b, new, kinds)
    BY <1>1, <2>0, ChangeNews DEF b
  <2>2. /\ billed'[b].status = new.status /\ billed'[b].flag = new.flag
        /\ (billed'[b].paid <=> billed[b].paid)
        /\ Later(b) /\ EventsOf(b) \subseteq EventsOf(b)'
        /\ \A e \in EventsOf(b)' \ EventsOf(b) :
             e.kind \in kinds /\ e.status = new.status /\ e.flag = new.flag
    BY <1>2, <2>1 DEF StripeNews, Later
  <2>3. Promoted(b)' /\ Welcomed(b)'
    BY <1>1, <1>3, <1>4, <2>2, PromotedGoesOn, WelcomedGoesOn DEF Together
  <2>4. CASE new.status = "canceled"
    <3>1. Told(b)'
      BY <2>2, <2>4 DEF Told, Live
    <3>2. UntoldUnbegun(b)'
      BY <1>2, <2>2, <2>4 DEF UntoldUnbegun, Untold, Blames
    <3> QED BY <2>3, <3>1, <3>2 DEF Together, b
  <2>5. CASE new.status # "canceled"
    <3>1. kinds = {"updated"}
      BY <2>5 DEF kinds, AskedWord
    <3>2. PICK e \in EventsOf(b)' : /\ e \notin EventsOf(b) /\ e.kind = "updated"
                                    /\ e.status = new.status /\ e.flag = new.flag
      BY <2>1, <3>1 DEF StripeNews
    <3>3. Told(b)'
      <4>1. Tells(e, b)'
        BY <2>2, <3>2 DEF Tells
      <4>2. \A f \in EventsOf(b)' \ EventsOf(b) : ~Disturbs(f, b)'
        BY <2>2, <3>1 DEF Disturbs, Tells
      <4> QED BY <1>1, <2>2, <3>2, <4>1, <4>2, NewWord
    <3>4. UntoldUnbegun(b)'
      <4> SUFFICES ASSUME Untold(b)'
                   PROVE  Unbegun(b)'
        BY DEF UntoldUnbegun
      <4>1. Unbegun(b) /\ ~billed[b].paid
        BY <1>1, <1>3, <1>4, <2>2 DEF Together, UntoldUnbegun, Untold
      <4>2. new.status = "incomplete"
        BY <1>1, <1>2, <1>4, <2>5, <4>1 DEF LifeTrue, Live, StripeStatus
      <4>3. CallNotBegun(m)
        BY <1>1, <1>2, <1>5, <1>6, <4>1, <4>2 DEF Unbegun, NotBegun
      <4>4. \A f \in EventsOf(b)' : f \in EventsOf(b) \/ Quietly(f)
        BY <2>2, <3>1, <4>2 DEF Quietly, Begun
      <4> QED BY <1>3, <4>1, <4>3, <4>4 DEF Unbegun
    <3> QED BY <2>3, <3>3, <3>4 DEF Together, b
  <2> QED BY <2>4, <2>5
<1> QED BY <1>7, <1>8 DEF b

-----------------------------------------------------------------------------
(* Every subscription, step by step.                                        *)
AllTogether == \A b \in SubIds : Together(b)

LEMMA SettledTogether ==
  ASSUME LifeInv', SubSettled'
  PROVE  AllTogether'
<1> SUFFICES ASSUME NEW b \in SubIds
             PROVE  Together(b)'
  BY DEF AllTogether
<1>1. CallsOf(b)' = {} /\ EventsOf(b)' = {}
  BY DEF SubSettled, SubQuiet, CallsOf, CallsOn, EventsOf
<1>2. LifeTrue(b)' /\ billed'[b].status \in StripeStatus /\ Follows(b)'
  BY DEF LifeInv, SubInv, SubTypeOK, Billed, SubSettled
<1>3. Promoted(b)'
  BY <1>1, <1>2 DEF Promoted, Follows
<1>4. Told(b)'
  BY <1>1, <1>2
     DEF Told, Follows, Agrees, WordIsThere, WordIsLast, RowFits, StatusFits
<1>5. UntoldUnbegun(b)'
  <2>1. ASSUME ~billed'[b].paid
        PROVE  NotBegun(subRow'[b]) /\ b \notin farewell'
    BY <1>2, <2>1
       DEF LifeTrue, Live, StripeStatus, Follows, Untraced, NotBegun, Incomplete
  <2> QED BY <1>1, <2>1 DEF UntoldUnbegun, Untold, Unbegun
<1>6. Welcomed(b)'
  BY <1>2 DEF Welcomed, Follows
<1> QED BY <1>3, <1>4, <1>5, <1>6 DEF Together

LEMMA OnlyTogether ==
  ASSUME AllTogether, NEW marks, Blames(marks), NEW b, Only(b),
         b \in SubIds => Together(b)'
  PROVE  AllTogether'
  BY RestsTogether DEF AllTogether, Only, Blames

LEMMA StripeTogether ==
  ASSUME LifeInv, LifeInv', AllTogether, ~SubSettled', NEW b \in SubIds,
         \/ FirstPayment(b) \/ FirstDecline(b) \/ GiveUpUnpaid(b)
         \/ Renewal(b) \/ FailedRenewal(b) \/ PeriodEnd(b)
  PROVE  AllTogether'
<1>0. /\ Together(b) /\ LifeTrue(b)'
      /\ {"active", "past_due", "canceled", "incomplete"} \subseteq StripeStatus
  BY DEF AllTogether, LifeInv, StripeStatus
<1>1. CASE FirstPayment(b)
  <2>1. StripeMoves(b, {"incomplete"}, "active", {"updated", "paid"}) /\ BlameSub({})
    BY <1>1 DEF FirstPayment
  <2>2. Blames({})
    BY <2>1, BlamedOrSettled
  <2>3. Only(b)
    BY <1>0, <2>1, MoveNews
  <2>4. Together(b)'
    BY <1>0, <1>1, <2>2, FirstPaymentTogether
  <2> QED BY <2>2, <2>3, <2>4, OnlyTogether
<1>2. CASE FirstDecline(b)
  <2>1. /\ StripeMoves(b, {"incomplete"}, "incomplete", {"failed"})
        /\ BlameSub({"declined"})
    BY <1>2 DEF FirstDecline
  <2>2. Blames({"declined"})
    BY <2>1, BlamedOrSettled
  <2>3. Only(b)
    BY <1>0, <2>1, MoveNews
  <2>4. Together(b)'
    BY <1>0, <2>1, <2>2, UnpaidMoves
  <2> QED BY <2>2, <2>3, <2>4, OnlyTogether
<1>3. CASE GiveUpUnpaid(b)
  <2>1. StripeMoves(b, {"incomplete"}, "canceled", {"deleted"}) /\ BlameSub({})
    BY <1>3 DEF GiveUpUnpaid
  <2>2. Blames({})
    BY <2>1, BlamedOrSettled
  <2>3. Only(b)
    BY <1>0, <2>1, MoveNews
  <2>4. Together(b)'
    BY <1>0, <2>1, <2>2, UnpaidMoves
  <2> QED BY <2>2, <2>3, <2>4, OnlyTogether
<1>4. ASSUME NEW from, NEW to \in StripeStatus, NEW kinds,
             StripeMoves(b, from, to, kinds), BlameSub({}),
             from \subseteq {"active", "past_due", "trialing"},
             \/ to = "canceled"
             \/ /\ "updated" \in kinds /\ to # "trialing"
                /\ "failed" \in kinds => to = "past_due"
             \/ from = {to} /\ kinds = {"paid"}
      PROVE  AllTogether'
  <2>1. Blames({})
    BY <1>4, BlamedOrSettled
  <2>2. Only(b)
    BY <1>4, MoveNews
  <2>3. Together(b)'
    BY <1>0, <1>4, <2>1, BilledMoves
  <2> QED BY <2>1, <2>2, <2>3, OnlyTogether
<1>5. CASE Renewal(b)
  <2>1. CASE StripeMoves(b, {"active"}, "active", {"paid"})
    BY <1>0, <1>4, <1>5, <2>1 DEF Renewal
  <2>2. CASE StripeMoves(b, {"past_due"}, "active", {"updated", "paid"})
    BY <1>0, <1>4, <1>5, <2>2 DEF Renewal
  <2> QED BY <1>5, <2>1, <2>2 DEF Renewal
<1>6. CASE FailedRenewal(b)
  BY <1>0, <1>4, <1>6 DEF FailedRenewal
<1>7. CASE PeriodEnd(b)
  <2>1. CASE StripeMoves(b, {"active", "past_due", "trialing"}, "canceled", {"deleted"})
    BY <1>0, <1>4, <1>7, <2>1 DEF PeriodEnd
  <2>2. CASE StripeMoves(b, {"trialing"}, "active", {"updated"})
    BY <1>0, <1>4, <1>7, <2>2 DEF PeriodEnd
  <2> QED BY <1>7, <2>1, <2>2 DEF PeriodEnd
<1> QED BY <1>1, <1>2, <1>3, <1>5, <1>6, <1>7

LEMMA NobodyTogether ==
  ASSUME AllTogether, NEW marks, Blames(marks), \A a \in SubIds : Rests(a)
  PROVE  AllTogether'
  BY RestsTogether DEF AllTogether, Blames

LEMMA CreationTogether ==
  ASSUME LifeInv, LifeInv', AllTogether, ~SubSettled', NEW s \in SubSlots,
         \/ \E b \in SubIds : CreateSubscription(s, b)
         \/ InsertRow(s) \/ AnswerSecret(s)
  PROVE  AllTogether'
<1>0. BlameSub({}) /\ Blames({})
  BY BlamedOrSettled DEF CreateSubscription, InsertRow, AnswerSecret
<1>1. ASSUME NEW b \in SubIds, CreateSubscription(s, b)
      PROVE  AllTogether'
  <2>1. /\ Only(b) /\ LifeTrue(b)' /\ CallsOf(b)' = {[pc |-> "insert", sub |-> b]}
        /\ ~billed'[b].paid /\ subRow'[b] = NoRow /\ b \notin farewell'
        /\ \A e \in EventsOf(b)' : e.kind = "created"
    BY <1>1, CreateSteps DEF LifeInv
  <2>2. Unbegun(b)'
    BY <2>1 DEF Unbegun, NotBegun, Quietly, CallNotBegun, Changing, Handling, Syncs
  <2>3. Together(b)'
    BY <2>1, <2>2, UnpaidTogether DEF UntoldUnbegun
  <2> QED BY <1>0, <2>1, <2>3, OnlyTogether
<1>2. CASE InsertRow(s)
  <2>0. PICK k : k = subCall[s]
    OBVIOUS
  <2> DEFINE b == k.sub
             m == [k EXCEPT !.pc = "answer"]
  <2>1. /\ b \in SubIds /\ k \in CallsOf(b) /\ Only(b) /\ Here(b) /\ k.pc = "insert"
        /\ UNCHANGED <<welcomed, farewell>> /\ CallMoves(b, k, m)
        /\ subRow'[b] \in Row /\ subRow'[b].status = "incomplete"
    BY <2>0, <1>2, InsertSteps
  <2>2. k \in [pc : {"insert", "answer"}, sub : SubIds]
    BY <2>0, <2>1, CallKinds DEF LifeInv
  <2>3. m.pc = "answer"
    BY <2>2
  <2> HIDE DEF b, m
  <2>4. /\ CallsOf(b)' \subseteq CallsOf(b) \cup {m} /\ EventsOf(b)' = EventsOf(b)
        /\ billed'[b] = billed[b] /\ farewell' = farewell
        /\ subFault \subseteq subFault'
    BY <1>0, <2>1 DEF CallMoves, Here, Blames
  <2>5. ~billed[b].paid /\ Together(b)
    BY <2>1, Frame DEF LifeTrue, Created, Creates, AllTogether
  <2>6. CallNotBegun(m)
    BY <2>3 DEF CallNotBegun, Changing, Handling, Syncs
  <2>7. UntoldUnbegun(b)'
    BY <2>1, <2>4, <2>5, <2>6
       DEF Together, UntoldUnbegun, Untold, Unbegun, NotBegun
  <2>8. Together(b)'
    BY <2>1, <2>4, <2>5, <2>7, UnpaidTogether DEF LifeInv
  <2> QED BY <1>0, <2>1, <2>8, OnlyTogether
<1>3. CASE AnswerSecret(s)
  <2>0. PICK k : k = subCall[s]
    OBVIOUS
  <2> DEFINE b == k.sub
  <2>1. /\ b \in SubIds /\ k \in CallsOf(b) /\ Only(b) /\ k.pc = "answer"
        /\ \E told \in BOOLEAN : billed'[b] = [billed[b] EXCEPT !.secret = told]
        /\ EventsOf(b)' = EventsOf(b) /\ CallEnds(b, k)
        /\ UNCHANGED <<subRow, seen, welcomed, farewell>>
    BY <2>0, <1>3, AnswerSteps
  <2> HIDE DEF b
  <2>2. billed'[b].paid = billed[b].paid /\ billed'[b].status = billed[b].status
    BY <2>1, Frame DEF Billed
  <2>3. ~billed[b].paid /\ Together(b)
    BY <2>1, Frame DEF LifeTrue, Created, Creates, AllTogether
  <2>4. CallsOf(b)' \subseteq CallsOf(b) /\ subFault \subseteq subFault'
    BY <1>0, <2>1 DEF CallEnds, Blames
  <2>5. UntoldUnbegun(b)'
    BY <2>1, <2>2, <2>3, <2>4 DEF Together, UntoldUnbegun, Untold, Unbegun
  <2>6. Together(b)'
    BY <2>1, <2>2, <2>3, <2>5, UnpaidTogether DEF LifeInv
  <2> QED BY <1>0, <2>1, <2>6, OnlyTogether
<1> QED BY <1>1, <1>2, <1>3

LEMMA ChangeTogether ==
  ASSUME LifeInv, LifeInv', AllTogether, ~SubSettled', NEW s \in SubSlots,
         \/ \E b \in SubIds, op \in SubChanges : BeginChange(s, b, op)
         \/ AskStripe(s) \/ SaveChange(s)
  PROVE  AllTogether'
<1>1. ASSUME NEW b \in SubIds, NEW op \in SubChanges, BeginChange(s, b, op)
      PROVE  AllTogether'
  <2> DEFINE k == [pc |-> "change", sub |-> b, op |-> op, copy |-> subRow[b]]
  <2>1. Blames({})
    BY <1>1, BlamedOrSettled DEF BeginChange
  <2>2. /\ Only(b) /\ Here(b) /\ CallBegins(b, k) /\ subRow[b] # NoRow
        /\ UNCHANGED <<subRow, welcomed, farewell>>
    BY <1>1, BeginChangeSteps DEF LifeInv
  <2>3. k.pc = "change" /\ k.copy = subRow[b] /\ Together(b)
    BY DEF AllTogether
  <2> HIDE DEF k
  <2>4. Together(b)'
    BY <2>1, <2>2, <2>3, BeginChangeTogether
  <2> QED BY <2>1, <2>2, <2>4, OnlyTogether
<1>2. CASE AskStripe(s)
  <2>0. PICK k : k = subCall[s]
    OBVIOUS
  <2> DEFINE new == ChangeOf(k.sub, k.op)
             marks == IF new.status = "canceled" /\ ~new.paid THEN {"dropped"} ELSE {}
  <2>1. BlameSub(marks)
    BY <2>0, <1>2 DEF AskStripe
  <2>2. Blames(marks)
    BY <2>1, BlamedOrSettled
  <2>3. k.sub \in SubIds /\ Only(k.sub)
    BY <2>0, <1>2, AskSteps
  <2>4. new.status = "canceled" /\ ~new.paid => "dropped" \in marks
    OBVIOUS
  <2>5. Together(k.sub)
    BY <2>3 DEF AllTogether
  <2>6. Together(k.sub)'
    <3> HIDE DEF marks
    <3> QED BY <2>0, <1>2, <2>2, <2>4, <2>5, AskTogether
  <2> HIDE DEF marks
  <2> QED BY <2>2, <2>3, <2>6, OnlyTogether
<1>3. CASE SaveChange(s)
  <2>0. PICK k : k = subCall[s]
    OBVIOUS
  <2> DEFINE b == k.sub
             r == k.copy
             marks == IF Pending(b) THEN {"overtaken"} ELSE {}
  <2>1. /\ k.pc = "save" /\ subRow' = Saved(b, r) /\ EndSub(s)
        /\ UNCHANGED <<billed, notices, seen, farewell, welcomed>> /\ BlameSub(marks)
    BY <2>0, <1>3 DEF SaveChange, SubAt, KeepStripe, KeepMails
  <2>2. r \in Row
    BY <2>0, <2>1, CallKinds DEF LifeInv, Changing
  <2>3. /\ b \in SubIds /\ k \in CallsOf(b) /\ Only(b) /\ Saves(b, k, r)
    BY <2>0, <2>1, <2>2, SaveSteps
  <2>4. Blames(marks)
    BY <2>1, BlamedOrSettled
  <2>5. EventsOf(b) = {} \/ "overtaken" \in subFault'
    <3>1. EventsOf(b) # {} => Pending(b)
      BY DEF EventsOf, Pending
    <3> QED BY <2>4, <3>1 DEF Blames
  <2> HIDE DEF marks, b
  <2>6. /\ r.status = "incomplete" => KeepsIncomplete(k)
        /\ Misleads(k, b) \/ RowFits(r, b)
        /\ CallNotBegun(k) => r.status = "incomplete"
        /\ ~HasBeginning(k)
    BY <2>1, <2>2, NoRowAssumption
       DEF KeepsIncomplete, Misleads, CallNotBegun, Changing, NotBegun,
           HasBeginning, Syncs
  <2>7. Together(b)'
    <3>1. Together(b) /\ welcomed' = welcomed
      BY <2>1, <2>3 DEF AllTogether
    <3> HIDE DEF r
    <3> QED BY <2>2, <2>3, <2>4, <2>5, <2>6, <3>1, SavesTogether
  <2> QED BY <2>3, <2>4, <2>7, OnlyTogether
<1> QED BY <1>1, <1>2, <1>3

LEMMA EventTogether ==
  ASSUME LifeInv, LifeInv', AllTogether, ~SubSettled', NEW s \in SubSlots,
         NEW e \in notices, BeginEvent(s, e) \/ HandleCreated(s, e)
  PROVE  AllTogether'
<1> DEFINE b == e.sub
<1>1. CASE BeginEvent(s, e)
  <2> DEFINE k == [pc |-> e.kind, sub |-> e.sub, event |-> e, copy |-> subRow[e.sub]]
             marks == (IF e.n < seen[b] THEN {"disordered"} ELSE {}) \cup
                      (IF subRow[b] = NoRow /\ e.kind # "deleted" THEN {"lost"} ELSE {})
  <2>1. BlameSub(marks)
    BY <1>1 DEF BeginEvent
  <2>2. Blames(marks)
    BY <2>1, BlamedOrSettled
  <2>3. /\ b \in SubIds /\ TakesEvent(b, e) /\ Only(b)
        /\ e.kind \in {"updated", "paid", "failed", "deleted"} /\ UNCHANGED welcomed
        /\ IF subRow[b] = NoRow /\ e.kind # "updated"
           THEN CallsOf(b)' = CallsOf(b) ELSE CallBegins(b, k)
    BY <1>1, BeginEventSteps DEF LifeInv
  <2>4. /\ k.pc = e.kind /\ k.event = e /\ k.copy = subRow[b] /\ Together(b)
        /\ e.n < seen[b] => "disordered" \in marks
        /\ subRow[b] = NoRow /\ e.kind # "deleted" => "lost" \in marks
    BY <2>3 DEF AllTogether
  <2> HIDE DEF k, marks, b
  <2>5. CASE subRow[b] = NoRow /\ e.kind # "updated"
    <3>1. CallsOf(b)' = CallsOf(b)
      BY <2>3, <2>5
    <3>2. Together(b)'
      BY <2>2, <2>3, <2>4, <2>5, <3>1, TakesAside
    <3> QED BY <2>2, <2>3, <3>2, OnlyTogether
  <2>6. CASE ~(subRow[b] = NoRow /\ e.kind # "updated")
    <3>1. CallBegins(b, k)
      BY <2>3, <2>6
    <3>2. /\ e.n < seen[b] => "disordered" \in subFault'
          /\ subRow[b] # NoRow \/ "lost" \in subFault'
      BY <2>2, <2>4, <2>6 DEF Blames
    <3>3. Together(b)'
      BY <2>2, <2>3, <2>4, <3>1, <3>2, BeginEventTogether
    <3> QED BY <2>2, <2>3, <3>3, OnlyTogether
  <2> QED BY <2>5, <2>6
<1>2. CASE HandleCreated(s, e)
  <2>1. BlameSub(IF e.n < seen[b] THEN {"disordered"} ELSE {})
    BY <1>2 DEF HandleCreated
  <2>2. PICK marks : Blames(marks)
    BY <2>1, BlamedOrSettled
  <2>3. /\ b \in SubIds /\ TakesEvent(b, e) /\ Only(b) /\ e.kind = "created"
        /\ CallsOf(b)' = CallsOf(b) /\ welcomed[b] <= welcomed'[b]
    BY <1>2, HandleCreatedSteps
  <2>4. welcomed[b] \in Nat /\ Together(b)
    BY <2>3 DEF LifeInv, SubInv, SubTypeOK, AllTogether
  <2>5. welcomed'[b] = 0 => welcomed[b] = 0
    BY <2>3, <2>4
  <2> HIDE DEF b
  <2>6. Together(b)'
    BY <2>2, <2>3, <2>4, <2>5, TakesAside
  <2> QED BY <2>2, <2>3, <2>6, OnlyTogether
<1> QED BY <1>1, <1>2

(* A handler of an event ends in a row.                                     *)
LEMMA HandlerTogether ==
  ASSUME LifeInv, LifeInv', AllTogether, ~SubSettled', NEW s \in SubSlots,
         SaveSync(s) \/ SavePaid(s) \/ SavePastDue(s) \/ EndRow(s)
  PROVE  AllTogether'
<1>0. PICK k : k = subCall[s]
  OBVIOUS
<1> DEFINE b == k.sub
<1>m. Blames({})
  BY BlamedOrSettled DEF SaveSync, SavePaid, SavePastDue, EndRow
<1>r. Handling(k) => /\ b \in SubIds /\ k.event \in Event
                     /\ k.copy \in Row \cup {NoRow}
                     /\ k.pc # "updated" => k.copy \in Row
  BY <1>0, CallKinds DEF LifeInv
<1>1. CASE SaveSync(s)
  <2> DEFINE r == [k.copy EXCEPT !.status = Mapped(k.event.status, @),
                                 !.flag = k.event.flag]
  <2>1. /\ k.pc = "sync" /\ subRow' = Saved(b, r) /\ EndSub(s)
        /\ UNCHANGED <<billed, notices, seen, farewell>>
        /\ IF k.was = "incomplete" /\ r.status = "active"
           THEN Welcome(b) ELSE UNCHANGED welcomed
    BY <1>0, <1>1 DEF SaveSync, SubAt, KeepStripe
  <2>2. k.copy \in Row /\ k.event \in Event /\ b \in SubIds
    BY <1>r, <2>1 DEF Handling
  <2>3. /\ r \in Row /\ r.status = Mapped(k.event.status, k.copy.status)
        /\ r.flag = k.event.flag
    BY <2>2 DEF Row, Event, Mapped, RowStatus
  <2>4. k.was = "incomplete" /\ r.status = "active" => welcomed'[b] # 0
    BY <2>1, <2>2 DEF Welcome, LifeInv, SubInv, SubTypeOK
  <2>5. welcomed'[b] = 0 => welcomed[b] = 0
    BY <2>1, <2>2 DEF Welcome, LifeInv, SubInv, SubTypeOK
  <2> HIDE DEF r
  <2>6. /\ k \in CallsOf(b) /\ Only(b) /\ Saves(b, k, r)
    BY <1>0, <2>1, <2>3, SaveSteps
  <2>7. r.status = "incomplete" => KeepsIncomplete(k)
    BY <2>1, <2>3 DEF KeepsIncomplete, Promotes, Mapped
  <2>8. Live(b) => Misleads(k, b) \/ RowFits(r, b)
    BY <2>1, <2>3 DEF Misleads, Syncs, Tells, RowFits, StatusFits, Mapped, Live
  <2>9. /\ CallNotBegun(k) => r.status = "incomplete"
        /\ CallUnbegun(k) => r.status = "incomplete"
        /\ HasBeginning(k) => welcomed'[b] # 0
    BY <2>1, <2>2, <2>3, <2>4, NoRowAssumption
       DEF CallNotBegun, CallUnbegun, HasBeginning, Handling, NotBegun, Syncs,
           Begun, Mapped, Begins
  <2>10. Together(b)
    BY <2>2 DEF AllTogether
  <2> HIDE DEF b
  <2>11. Together(b)'
    BY <1>m, <2>2, <2>3, <2>5, <2>6, <2>7, <2>8, <2>9, <2>10, SavesTogether
  <2> QED BY <1>m, <2>6, <2>11, OnlyTogether
<1>2. CASE SavePaid(s)
  <2>1. /\ k.pc = "paid" /\ subRow' = Saved(b, k.copy) /\ EndSub(s)
        /\ UNCHANGED <<billed, notices, seen, farewell, welcomed>>
    BY <1>0, <1>2 DEF SavePaid, SubAt, KeepStripe, KeepMails
  <2>2. k.copy \in Row /\ b \in SubIds
    BY <1>r, <2>1 DEF Handling
  <2>3. k \in CallsOf(b) /\ Only(b) /\ Saves(b, k, k.copy)
    BY <1>0, <2>1, <2>2, SaveSteps
  <2>4. /\ k.copy.status = "incomplete" => KeepsIncomplete(k)
        /\ Misleads(k, b) \/ RowFits(k.copy, b)
        /\ CallNotBegun(k) => k.copy.status = "incomplete"
        /\ CallUnbegun(k) => k.copy.status = "incomplete"
        /\ ~HasBeginning(k)
    BY <2>1, <2>2, NoRowAssumption
       DEF KeepsIncomplete, Misleads, CallNotBegun, CallUnbegun, HasBeginning,
           Handling, NotBegun, Syncs
  <2>5. Together(b) /\ welcomed' = welcomed
    BY <2>1, <2>2 DEF AllTogether
  <2> HIDE DEF b
  <2>6. Together(b)'
    BY <1>m, <2>2, <2>3, <2>4, <2>5, SavesTogether
  <2> QED BY <1>m, <2>3, <2>6, OnlyTogether
<1>3. CASE SavePastDue(s)
  <2> DEFINE r == [k.copy EXCEPT !.status = "past_due"]
  <2>1. /\ k.pc = "failed" /\ subRow' = Saved(b, r) /\ EndSub(s)
        /\ UNCHANGED <<billed, notices, seen, farewell, welcomed>>
    BY <1>0, <1>3 DEF SavePastDue, SubAt, KeepStripe, KeepMails
  <2>2. k.copy \in Row /\ b \in SubIds
    BY <1>r, <2>1 DEF Handling
  <2>3. r \in Row /\ r.status = "past_due" /\ r.flag = k.copy.flag
    BY <2>2 DEF Row, RowStatus
  <2> HIDE DEF r
  <2>4. k \in CallsOf(b) /\ Only(b) /\ Saves(b, k, r)
    BY <1>0, <2>1, <2>3, SaveSteps
  <2>5. /\ r.status # "incomplete"
        /\ Misleads(k, b) \/ RowFits(r, b)
        /\ ~CallNotBegun(k) /\ ~CallUnbegun(k) /\ ~HasBeginning(k)
    BY <2>1, <2>3 DEF Misleads, RowFits, CallNotBegun, CallUnbegun, HasBeginning, Syncs
  <2>6. Together(b) /\ welcomed' = welcomed
    BY <2>1, <2>2 DEF AllTogether
  <2> HIDE DEF b
  <2>7. Together(b)'
    BY <1>m, <2>2, <2>3, <2>4, <2>5, <2>6, SavesTogether
  <2> QED BY <1>m, <2>4, <2>7, OnlyTogether
<1>4. CASE EndRow(s)
  <2>1. /\ b \in SubIds /\ k \in CallsOf(b) /\ Only(b) /\ k.pc = "deleted"
        /\ Closes(b, k)
    BY <1>0, <1>4, EndRowSteps
  <2>2. k.copy # NoRow /\ Together(b)
    BY <1>r, <2>1, NoRowAssumption DEF Handling, AllTogether
  <2> HIDE DEF b
  <2>3. Together(b)'
    BY <1>m, <2>1, <2>2, ClosesTogether
  <2> QED BY <1>m, <2>1, <2>3, OnlyTogether
<1> QED BY <1>1, <1>2, <1>3, <1>4

(* A call reads again, or stops where it is.                                *)
LEMMA StopTogether ==
  ASSUME LifeInv, LifeInv', AllTogether, ~SubSettled', NEW s \in SubSlots,
         ReadSync(s) \/ SubDies(s)
  PROVE  AllTogether'
<1>0. PICK k : k = subCall[s]
  OBVIOUS
<1> DEFINE b == k.sub
<1>1. ASSUME NEW marks, BlameSub(marks), k # NoSubCall, b \in SubIds, EndSub(s),
             UNCHANGED <<billed, subRow, notices, seen, welcomed, farewell>>,
             Syncs(k) => "lost" \in marks
      PROVE  AllTogether'
  <2>1. Blames(marks)
    BY <1>1, BlamedOrSettled
  <2>2. Only(b) /\ Drops(b, k)
    BY <1>0, <1>1, DropSteps
  <2>3. Together(b) /\ (Syncs(k) => "lost" \in subFault')
    BY <1>1, <2>1 DEF AllTogether, Blames
  <2> HIDE DEF b
  <2>4. Together(b)'
    BY <1>1, <2>1, <2>2, <2>3, DropsTogether
  <2> QED BY <2>1, <2>2, <2>4, OnlyTogether
<1>2. CASE ReadSync(s)
  <2>1. /\ k.pc = "updated" /\ b \in SubIds /\ k # NoSubCall
    BY <1>0, <1>2, CallKinds DEF ReadSync, SubAt, Handling, LifeInv, NoSubCall
  <2>2. BlameSub(IF subRow[b] = NoRow THEN {"lost"} ELSE {})
    BY <1>0, <1>2 DEF ReadSync
  <2>3. CASE subRow[b] = NoRow
    <3>1. /\ EndSub(s)
          /\ UNCHANGED <<billed, subRow, notices, seen, welcomed, farewell>>
      BY <1>0, <1>2, <2>3 DEF ReadSync, KeepStripe, KeepMails
    <3>2. "lost" \in (IF subRow[b] = NoRow THEN {"lost"} ELSE {})
      BY <2>3
    <3> QED BY <1>1, <2>1, <2>2, <3>1, <3>2
  <2>4. CASE subRow[b] # NoRow
    <3> DEFINE m == Reread(k)
    <3>1. /\ Only(b) /\ Here(b) /\ CallMoves(b, k, m)
          /\ UNCHANGED <<subRow, welcomed, farewell>>
      BY <1>0, <1>2, <2>4, ReadSyncSteps
    <3>2. PICK marks : Blames(marks)
      BY <2>2, BlamedOrSettled
    <3>3. PICK n : n = m
      OBVIOUS
    <3>4. CallMoves(b, k, n)
      BY <3>1, <3>3
    <3>5. Together(b) /\ k.sub = b
      BY <2>1 DEF AllTogether
    <3> HIDE DEF b
    <3>6. Together(b)'
      BY <2>1, <2>4, <3>1, <3>2, <3>3, <3>4, <3>5, ReadSyncTogether
    <3> QED BY <3>1, <3>2, <3>6, OnlyTogether
  <2> QED BY <2>3, <2>4
<1>3. CASE SubDies(s)
  <2>1. /\ EndSub(s) /\ k # NoSubCall
        /\ UNCHANGED <<billed, subRow, notices, seen, welcomed, farewell>>
        /\ BlameSub(IF "event" \in DOMAIN k THEN {"lost"} ELSE {})
    BY <1>0, <1>3 DEF SubDies, KeepStripe, KeepMails
  <2>2. CASE k.sub \in SubIds
    <3>1. k \in SubCalls
      BY <1>0 DEF LifeInv, SubInv, CallsOK
    <3>2. Syncs(k) => "event" \in DOMAIN k
      BY <3>1 DEF SubCalls, Syncs
    <3> QED BY <1>1, <2>1, <2>2, <3>2
  <2>3. CASE k.sub \notin SubIds
    <3>1. k.sub = NoRow
      <4>1. k \in SubCalls
        BY <1>0 DEF LifeInv, SubInv, CallsOK
      <4>2. k \notin [pc : {"idle"}]
        BY <2>1 DEF NoSubCall
      <4> QED BY <2>3, <4>1, <4>2 DEF SubCalls
    <3>2. \A a \in SubIds : Rests(a)
      BY <1>0, <2>1, <3>1, NobodysSteps DEF EndSub
    <3>3. PICK marks : Blames(marks)
      BY <2>1, BlamedOrSettled
    <3> QED BY <3>2, <3>3, NobodyTogether
  <2> QED BY <2>2, <2>3
<1> QED BY <1>2, <1>3

(* The user's customer, the clock and the sweep.                            *)
LEMMA UserTogether ==
  ASSUME LifeInv, LifeInv', AllTogether, ~SubSettled', NEW s \in SubSlots,
         ReadUser(s) \/ \E c \in CustomerIds : CreateCustomer(s, c)
  PROVE  AllTogether'
<1>1. \E marks : BlameSub(marks)
  BY DEF ReadUser, CreateCustomer
<1>2. PICK marks : Blames(marks)
  BY <1>1, BlamedOrSettled
<1>3. CASE ReadUser(s)
  <2> DEFINE record == [pc |-> IF customer = NoCustomer THEN "customer" ELSE "stripe",
                        sub |-> NoRow, owner |-> customer]
  <2>1. /\ subCall[s] = NoSubCall /\ subCall' = [subCall EXCEPT ![s] = record]
        /\ UNCHANGED <<billed, subRow, notices, seen, welcomed, farewell>>
    BY <1>3 DEF ReadUser, BeginSub, KeepStripe, KeepMails
  <2>2. record.sub = NoRow
    OBVIOUS
  <2> HIDE DEF record
  <2>3. \A a \in SubIds : Rests(a)
    BY <2>1, <2>2, NobodysSteps
  <2> QED BY <1>2, <2>3, NobodyTogether
<1>4. ASSUME NEW c \in CustomerIds, CreateCustomer(s, c)
      PROVE  AllTogether'
  <2> DEFINE record == [subCall[s] EXCEPT !.pc = "stripe", !.owner = c]
  <2>1. /\ subCall[s].pc = "customer" /\ subCall' = [subCall EXCEPT ![s] = record]
        /\ UNCHANGED <<billed, subRow, notices, seen, welcomed, farewell>>
    BY <1>4 DEF CreateCustomer, SubAt, StepSub, KeepStripe, KeepMails
  <2>2. subCall[s] \in [pc : {"customer", "stripe"}, sub : {NoRow},
                        owner : CustomerIds \cup {NoCustomer}]
    BY <2>1, CallKinds DEF LifeInv
  <2>3. subCall[s].sub = NoRow /\ record.sub = NoRow
    BY <2>2
  <2> HIDE DEF record
  <2>4. \A a \in SubIds : Rests(a)
    BY <2>1, <2>3, NobodysSteps
  <2> QED BY <1>2, <2>4, NobodyTogether
<1> QED BY <1>3, <1>4

LEMMA NewsTogether ==
  ASSUME LifeInv, LifeInv', AllTogether, ~SubSettled', NEW c \in CustomerIds,
         ReceiveCustomer(c) \/ LoseCustomer(c)
  PROVE  AllTogether'
<1>1. \E marks : BlameSub(marks)
  BY DEF ReceiveCustomer, LoseCustomer
<1>2. PICK marks : Blames(marks)
  BY <1>1, BlamedOrSettled
<1>3. UNCHANGED <<billed, subRow, notices, seen, welcomed, farewell, subCall>>
  BY DEF ReceiveCustomer, LoseCustomer, KeepStripe, KeepMails
<1>4. \A a \in SubIds : Rests(a)
  BY <1>3, EventsKept, CallsKept DEF Rests
<1> QED BY <1>2, <1>4, NobodyTogether

LEMMA ClockTogether ==
  ASSUME LifeInv, LifeInv', AllTogether, ~SubSettled',
         SweepIncomplete \/ \E b \in SubIds : Age(b)
  PROVE  AllTogether'
<1>1. ASSUME NEW b \in SubIds, Age(b)
      PROVE  AllTogether'
  <2>1. /\ Here(b) /\ CallsOf(b)' = CallsOf(b) /\ UNCHANGED <<welcomed, farewell>>
        /\ Only(b) /\ Incomplete(b) /\ subRow'[b] = [subRow[b] EXCEPT !.old = TRUE]
    BY <1>1, AgeSteps
  <2>2. Blames({})
    BY <1>1, BlamedOrSettled DEF Age
  <2>3. subRow[b] \in Row
    BY <2>1, Frame DEF Incomplete
  <2>4. /\ subRow'[b] \in Row /\ subRow[b] # NoRow /\ subRow'[b] # NoRow
        /\ subRow'[b].status = subRow[b].status /\ subRow'[b].flag = subRow[b].flag
    <3>1. subRow'[b] \in Row
      BY <2>1, <2>3 DEF Row
    <3> QED BY <2>1, <2>3, <3>1, NoRowAssumption DEF Row
  <2>5. Together(b)'
    BY <2>1, <2>2, <2>4, AgeTogether DEF AllTogether
  <2> QED BY <2>1, <2>2, <2>5, OnlyTogether
<1>2. CASE SweepIncomplete
  <2> DEFINE marks == IF \E b \in SubIds : Stale(b) /\ (Pending(b) \/ CallsOn(b) # {})
                      THEN {"late"} ELSE {}
  <2>1. Blames(marks)
    BY <1>2, BlamedOrSettled DEF SweepIncomplete
  <2> SUFFICES ASSUME NEW b \in SubIds
               PROVE  Together(b)'
    BY DEF AllTogether
  <2>2. /\ Here(b) /\ CallsOf(b)' = CallsOf(b) /\ UNCHANGED <<welcomed, farewell>>
        /\ subRow'[b] = IF Stale(b) THEN NoRow ELSE subRow[b]
    BY <1>2, SweepSteps
  <2>3. Together(b)
    BY DEF AllTogether
  <2>4. CASE Stale(b)
    <3>1. /\ EventsOf(b) # {} => Pending(b)
          /\ CallsOf(b) # {} => CallsOn(b) # {}
      BY DEF EventsOf, Pending, CallsOf
    <3>2. EventsOf(b) # {} \/ CallsOf(b) # {} => "late" \in subFault'
      BY <2>1, <2>4, <3>1 DEF Blames
    <3> HIDE DEF marks
    <3> QED BY <2>1, <2>2, <2>3, <2>4, <3>2, SweepTogether
  <2>5. CASE ~Stale(b)
    <3>1. Rests(b) /\ subFault \subseteq subFault'
      BY <2>1, <2>2, <2>5 DEF Rests, Here, Blames
    <3> QED BY <2>3, <3>1, RestsTogether
  <2> QED BY <2>4, <2>5
<1> QED BY <1>1, <1>2

LEMMA TogetherNext ==
  ASSUME LifeInv, LifeInv', AllTogether, SubNext
  PROVE  AllTogether'
<1>0. CASE SubSettled'
  BY <1>0, SettledTogether
<1> SUFFICES ASSUME ~SubSettled'
             PROVE  AllTogether'
  BY <1>0
<1>1. ASSUME NEW b \in SubIds, StripeStep(b)
      PROVE  AllTogether'
  BY <1>1, StripeTogether DEF StripeStep
<1>2. ASSUME NEW b \in SubIds, Age(b)
      PROVE  AllTogether'
  BY <1>2, ClockTogether
<1>3. ASSUME NEW s \in SubSlots, SubStep(s)
      PROVE  AllTogether'
  <2>1. CASE ReadUser(s) \/ \E c \in CustomerIds : CreateCustomer(s, c)
    BY <2>1, UserTogether
  <2>2. CASE \/ \E b \in SubIds : CreateSubscription(s, b)
             \/ InsertRow(s) \/ AnswerSecret(s)
    BY <2>2, CreationTogether
  <2>3. CASE \/ \E b \in SubIds, op \in SubChanges : BeginChange(s, b, op)
             \/ AskStripe(s) \/ SaveChange(s)
    BY <2>3, ChangeTogether
  <2>4. CASE \E e \in notices : BeginEvent(s, e) \/ HandleCreated(s, e)
    BY <2>4, EventTogether
  <2>5. CASE SaveSync(s) \/ SavePaid(s) \/ SavePastDue(s) \/ EndRow(s)
    BY <2>5, HandlerTogether
  <2>6. CASE ReadSync(s) \/ SubDies(s)
    BY <2>6, StopTogether
  <2> QED BY <1>3, <2>1, <2>2, <2>3, <2>4, <2>5, <2>6 DEF SubStep
<1>4. ASSUME NEW c \in CustomerIds, ReceiveCustomer(c) \/ LoseCustomer(c)
      PROVE  AllTogether'
  BY <1>4, NewsTogether
<1>5. CASE SweepIncomplete
  BY <1>5, ClockTogether
<1> QED BY <1>1, <1>2, <1>3, <1>4, <1>5, SubNextIs

-----------------------------------------------------------------------------
(* What a subscription has been through stays true.                         *)
LEMMA StripeLife ==
  ASSUME LifeInv, NEW b \in SubIds, StripeStep(b)
  PROVE  UNCHANGED subCall /\ \A a \in SubIds : LifeTrue(a)'
<1>0. {"active", "past_due", "canceled", "incomplete"} \subseteq StripeStatus
  BY DEF StripeStatus
<1>1. CASE FirstPayment(b)
  <2>1. /\ StripeMoves(b, {"incomplete"}, "active", {"updated", "paid"})
        /\ billed[b].secret
    BY <1>1 DEF FirstPayment
  <2> QED BY <1>0, <2>1, MoveLife DEF StripeMoves
<1>2. CASE FirstDecline(b)
  <2>1. StripeMoves(b, {"incomplete"}, "incomplete", {"failed"})
    BY <1>2 DEF FirstDecline
  <2> QED BY <1>0, <2>1, MoveLife DEF StripeMoves
<1>3. CASE GiveUpUnpaid(b)
  <2>1. StripeMoves(b, {"incomplete"}, "canceled", {"deleted"})
    BY <1>3 DEF GiveUpUnpaid
  <2> QED BY <1>0, <2>1, MoveLife DEF StripeMoves
<1>4. CASE StripeMoves(b, {"active"}, "active", {"paid"})
  BY <1>0, <1>4, MoveLife DEF StripeMoves
<1>5. CASE StripeMoves(b, {"past_due"}, "active", {"updated", "paid"})
  BY <1>0, <1>5, MoveLife DEF StripeMoves
<1>6. CASE StripeMoves(b, {"active"}, "past_due", {"updated", "failed"})
  BY <1>0, <1>6, MoveLife DEF StripeMoves
<1>7. CASE StripeMoves(b, {"active", "past_due", "trialing"}, "canceled", {"deleted"})
  BY <1>0, <1>7, MoveLife DEF StripeMoves
<1>8. CASE StripeMoves(b, {"trialing"}, "active", {"updated"})
  BY <1>0, <1>8, MoveLife DEF StripeMoves
<1> QED BY <1>1, <1>2, <1>3, <1>4, <1>5, <1>6, <1>7, <1>8
        DEF StripeStep, Renewal, FailedRenewal, PeriodEnd

LEMMA CallLife ==
  ASSUME LifeInv, Alone', NEW s \in SubSlots, SubStep(s)
  PROVE  OneCreation' /\ \A a \in SubIds : LifeTrue(a)'
<1>0. PICK k : k = subCall[s]
  OBVIOUS
<1>n. ~Creates(NoSubCall)
  BY DEF Creates, NoSubCall
<1>e. EndSub(s) => OneCreation'
  BY <1>n, CreationKept DEF EndSub
<1>1. CASE ReadUser(s)
  <2> DEFINE record == [pc |-> IF customer = NoCustomer THEN "customer" ELSE "stripe",
                        sub |-> NoRow, owner |-> customer]
  <2>1. /\ subCall[s] = NoSubCall /\ subCall' = [subCall EXCEPT ![s] = record]
        /\ UNCHANGED <<billed, subRow, notices, seen, welcomed, farewell>>
    BY <1>1 DEF ReadUser, BeginSub, KeepStripe, KeepMails
  <2>2. record.sub = NoRow /\ ~Creates(record)
    BY DEF Creates
  <2> HIDE DEF record
  <2> QED BY <2>1, <2>2, NobodysSteps, CreationKept
<1>2. ASSUME NEW c \in CustomerIds, CreateCustomer(s, c)
      PROVE  OneCreation' /\ \A a \in SubIds : LifeTrue(a)'
  <2> DEFINE record == [subCall[s] EXCEPT !.pc = "stripe", !.owner = c]
  <2>1. /\ subCall[s].pc = "customer" /\ subCall' = [subCall EXCEPT ![s] = record]
        /\ UNCHANGED <<billed, subRow, notices, seen, welcomed, farewell>>
    BY <1>2 DEF CreateCustomer, SubAt, StepSub, KeepStripe, KeepMails
  <2>2. subCall[s] \in [pc : {"customer", "stripe"}, sub : {NoRow},
                        owner : CustomerIds \cup {NoCustomer}]
    BY <2>1, CallKinds DEF LifeInv
  <2>3. subCall[s].sub = NoRow /\ record.sub = NoRow /\ ~Creates(record)
    BY <2>2 DEF Creates
  <2> HIDE DEF record
  <2> QED BY <2>1, <2>3, NobodysSteps, CreationKept
<1>3. ASSUME NEW b \in SubIds, CreateSubscription(s, b)
      PROVE  OneCreation' /\ \A a \in SubIds : LifeTrue(a)'
  BY <1>3, CreateSteps
<1>4. CASE InsertRow(s)
  BY <1>4, InsertSteps
<1>5. CASE AnswerSecret(s)
  BY <1>5, <1>e, AnswerSteps DEF AnswerSecret
<1>6. ASSUME NEW b \in SubIds, NEW op \in SubChanges, BeginChange(s, b, op)
      PROVE  OneCreation' /\ \A a \in SubIds : LifeTrue(a)'
  <2> DEFINE record == [pc |-> "change", sub |-> b, op |-> op, copy |-> subRow[b]]
  <2>1. subCall' = [subCall EXCEPT ![s] = record] /\ ~Creates(record)
    BY <1>6 DEF BeginChange, BeginSub, Creates
  <2>2. \A a \in SubIds : LifeTrue(a)'
    BY <1>6, BeginChangeSteps
  <2> HIDE DEF record
  <2> QED BY <2>1, <2>2, CreationKept
<1>7. CASE AskStripe(s)
  <2> DEFINE m == GoesOn(k, ChangeOf(k.sub, k.op))
  <2>1. subCall' = [subCall EXCEPT ![s] = m]
    BY <1>0, <1>7 DEF AskStripe, StepSub, GoesOn, Copied
  <2>2. k \in [pc : {"change", "save"}, sub : SubIds, op : SubChanges, copy : Row]
    BY <1>0, <1>7, CallKinds DEF AskStripe, SubAt, Changing, LifeInv
  <2>3. ~Creates(m)
    <3>1. m.pc = "save"
      BY <2>2 DEF GoesOn
    <3> QED BY <3>1 DEF Creates
  <2>4. \A a \in SubIds : LifeTrue(a)'
    BY <1>0, <1>7, AskSteps
  <2> HIDE DEF m
  <2> QED BY <2>1, <2>3, <2>4, CreationKept
<1>8. CASE SaveChange(s)
  <2>1. /\ k.pc = "save" /\ subRow' = Saved(k.sub, k.copy) /\ EndSub(s)
        /\ UNCHANGED <<billed, notices, seen, farewell, welcomed>>
    BY <1>0, <1>8 DEF SaveChange, SubAt, KeepStripe, KeepMails
  <2>2. k.copy \in Row
    BY <1>0, <2>1, CallKinds DEF LifeInv, Changing
  <2> QED BY <1>0, <1>e, <2>1, <2>2, SaveSteps
<1>9. ASSUME NEW e \in notices, BeginEvent(s, e)
      PROVE  OneCreation' /\ \A a \in SubIds : LifeTrue(a)'
  <2> DEFINE record == [pc |-> e.kind, sub |-> e.sub, event |-> e,
                        copy |-> subRow[e.sub]]
  <2>1. /\ UNCHANGED subCall \/ subCall' = [subCall EXCEPT ![s] = record]
        /\ ~Creates(record)
    BY <1>9 DEF BeginEvent, BeginSub, Creates
  <2>2. \A a \in SubIds : LifeTrue(a)'
    BY <1>9, BeginEventSteps
  <2> HIDE DEF record
  <2>3. UNCHANGED subCall => OneCreation'
    BY DEF OneCreation, LifeInv
  <2> QED BY <2>1, <2>2, <2>3, CreationKept
<1>10. ASSUME NEW e \in notices, HandleCreated(s, e)
       PROVE  OneCreation' /\ \A a \in SubIds : LifeTrue(a)'
  BY <1>10, HandleCreatedSteps DEF OneCreation, LifeInv
<1>11. CASE ReadSync(s)
  <2>1. k.pc = "updated" /\ k.sub \in SubIds /\ k # NoSubCall
    BY <1>0, <1>11, CallKinds DEF ReadSync, SubAt, Handling, LifeInv, NoSubCall
  <2>2. CASE subRow[k.sub] = NoRow
    <3>1. /\ EndSub(s)
          /\ UNCHANGED <<billed, subRow, notices, seen, welcomed, farewell>>
      BY <1>0, <1>11, <2>2 DEF ReadSync, KeepStripe, KeepMails
    <3> QED BY <1>0, <1>e, <2>1, <3>1, DropSteps
  <2>3. CASE subRow[k.sub] # NoRow
    <3> DEFINE m == Reread(k)
    <3>1. subCall' = [subCall EXCEPT ![s] = m] /\ ~Creates(m)
      BY <1>0, <1>11, <2>3 DEF ReadSync, StepSub, Reread, Creates
    <3>2. \A a \in SubIds : LifeTrue(a)'
      BY <1>0, <1>11, <2>3, ReadSyncSteps
    <3> HIDE DEF m
    <3> QED BY <3>1, <3>2, CreationKept
  <2> QED BY <2>2, <2>3
<1>12. ASSUME NEW r \in Row, k.pc \in {"sync", "paid", "failed"},
              subRow' = Saved(k.sub, r), EndSub(s),
              UNCHANGED <<billed, notices, seen, farewell>>,
              welcomed' = welcomed \/ Welcome(k.sub)
       PROVE  OneCreation' /\ \A a \in SubIds : LifeTrue(a)'
  BY <1>0, <1>e, <1>12, SaveSteps
<1>13. k.pc \in {"sync", "paid", "failed"} => k.copy \in Row /\ k.event \in Event
  BY <1>0, CallKinds DEF Handling, LifeInv
<1>14. CASE SaveSync(s)
  <2> DEFINE r == [k.copy EXCEPT !.status = Mapped(k.event.status, @),
                                 !.flag = k.event.flag]
  <2>1. /\ k.pc = "sync" /\ subRow' = Saved(k.sub, r) /\ EndSub(s)
        /\ UNCHANGED <<billed, notices, seen, farewell>>
        /\ welcomed' = welcomed \/ Welcome(k.sub)
    BY <1>0, <1>14 DEF SaveSync, SubAt, KeepStripe
  <2>2. r \in Row
    BY <1>13, <2>1 DEF Row, Event, Mapped, RowStatus
  <2> HIDE DEF r
  <2> QED BY <1>12, <2>1, <2>2
<1>15. CASE SavePaid(s)
  <2>1. /\ k.pc = "paid" /\ subRow' = Saved(k.sub, k.copy) /\ EndSub(s)
        /\ UNCHANGED <<billed, notices, seen, farewell>> /\ welcomed' = welcomed
    BY <1>0, <1>15 DEF SavePaid, SubAt, KeepStripe, KeepMails
  <2> QED BY <1>12, <1>13, <2>1
<1>16. CASE SavePastDue(s)
  <2> DEFINE r == [k.copy EXCEPT !.status = "past_due"]
  <2>1. /\ k.pc = "failed" /\ subRow' = Saved(k.sub, r) /\ EndSub(s)
        /\ UNCHANGED <<billed, notices, seen, farewell>> /\ welcomed' = welcomed
    BY <1>0, <1>16 DEF SavePastDue, SubAt, KeepStripe, KeepMails
  <2>2. r \in Row
    BY <1>13, <2>1 DEF Row, RowStatus
  <2> HIDE DEF r
  <2> QED BY <1>12, <2>1, <2>2
<1>17. CASE EndRow(s)
  BY <1>0, <1>17, <1>e, EndRowSteps DEF EndRow
<1>18. CASE SubDies(s)
  <2>1. /\ EndSub(s) /\ k # NoSubCall
        /\ UNCHANGED <<billed, subRow, notices, seen, welcomed, farewell>>
    BY <1>0, <1>18 DEF SubDies, KeepStripe, KeepMails
  <2>2. CASE k.sub \in SubIds
    BY <1>0, <1>e, <2>1, <2>2, DropSteps
  <2>3. CASE k.sub \notin SubIds
    <3>1. k.sub = NoRow
      <4>1. k \in SubCalls
        BY <1>0 DEF LifeInv, SubInv, CallsOK
      <4>2. k \notin [pc : {"idle"}]
        BY <2>1 DEF NoSubCall
      <4> QED BY <2>3, <4>1, <4>2 DEF SubCalls
    <3> QED BY <1>0, <1>e, <2>1, <3>1, NobodysSteps DEF EndSub
  <2> QED BY <2>2, <2>3
<1> QED BY <1>1, <1>2, <1>3, <1>4, <1>5, <1>6, <1>7, <1>8, <1>9, <1>10, <1>11,
           <1>14, <1>15, <1>16, <1>17, <1>18 DEF SubStep

LEMMA LifeNext ==
  ASSUME LifeInv, SubNext
  PROVE  LifeInv'
<1>1. SubInv'
  BY SubNextKeeps DEF LifeInv
<1>2. Alone'
  BY AloneNext
<1>n. UNCHANGED subCall => OneCreation'
  BY DEF OneCreation, LifeInv
<1>3. ASSUME NEW b \in SubIds, StripeStep(b)
      PROVE  OneCreation' /\ \A a \in SubIds : LifeTrue(a)'
  BY <1>n, <1>3, StripeLife
<1>4. ASSUME NEW b \in SubIds, Age(b)
      PROVE  OneCreation' /\ \A a \in SubIds : LifeTrue(a)'
  BY <1>n, <1>4, AgeSteps
<1>5. ASSUME NEW s \in SubSlots, SubStep(s)
      PROVE  OneCreation' /\ \A a \in SubIds : LifeTrue(a)'
  BY <1>2, <1>5, CallLife
<1>6. ASSUME NEW c \in CustomerIds, ReceiveCustomer(c) \/ LoseCustomer(c)
      PROVE  OneCreation' /\ \A a \in SubIds : LifeTrue(a)'
  <2>1. UNCHANGED <<billed, subRow, notices, seen, welcomed, farewell, subCall>>
    BY <1>6 DEF ReceiveCustomer, LoseCustomer, KeepStripe, KeepMails
  <2>2. \A a \in SubIds : Rests(a)
    BY <2>1, EventsKept, CallsKept DEF Rests
  <2> QED BY <1>n, <2>1, <2>2, RestsLife, Frame
<1>7. ASSUME SweepIncomplete
      PROVE  OneCreation' /\ \A a \in SubIds : LifeTrue(a)'
  BY <1>n, <1>7, SweepSteps
<1> QED BY <1>1, <1>2, <1>3, <1>4, <1>5, <1>6, <1>7, SubNextIs DEF LifeInv

-----------------------------------------------------------------------------
(* The customer of a user: only one creation is under way at a time.        *)
Creating(k) == k.pc \in {"customer", "stripe"}
OwnerKnown(c) == c \in {NoCustomer, customer} \cup updates
OwnersKnown ==
  /\ \A b \in SubIds : OwnerKnown(billed[b].owner)
  /\ \A s \in SubSlots : Creating(subCall[s]) => OwnerKnown(subCall[s].owner)
OneCustomerComes ==
  /\ \A s, z \in SubSlots : Creating(subCall[s]) /\ Creating(subCall[z]) => s = z
  /\ \A s \in SubSlots :
       subCall[s].pc = "customer" => customer = NoCustomer /\ updates = {}
  /\ \A c, d \in updates : c = d
  /\ updates # {} => customer = NoCustomer
CustomerTrue == Free(PromotionMarks) => OwnersKnown /\ OneCustomerComes

LEMMA SettledCustomer ==
  ASSUME SubSettled', CallsOK'
  PROVE  CustomerTrue'
<1>1. updates' = {} /\ \A s \in SubSlots : ~Creating(subCall'[s])
                                           /\ subCall'[s].pc # "customer"
  BY DEF SubSettled, SubQuiet, SubBusy, Creating, NoSubCall
<1>2. \A b \in SubIds : billed'[b].owner \in {NoCustomer, customer'}
  BY DEF SubSettled, Follows
<1>3. OwnersKnown'
  BY <1>1, <1>2 DEF OwnersKnown, OwnerKnown
<1>4. OneCustomerComes'
  BY <1>1 DEF OneCustomerComes
<1> QED BY <1>3, <1>4 DEF CustomerTrue

(* A call that is no creation, or ends one, says nothing of the customer.   *)
LEMMA CustomerRests ==
  ASSUME LifeInv, CustomerTrue, subFault \subseteq subFault',
         UNCHANGED <<customer, updates>>,
         \A b \in SubIds : OwnerKnown(billed[b].owner) => OwnerKnown(billed'[b].owner),
         \A s \in SubSlots : Creating(subCall'[s]) => subCall'[s] = subCall[s]
  PROVE  CustomerTrue'
<1> SUFFICES ASSUME Free(PromotionMarks)'
             PROVE  OwnersKnown' /\ OneCustomerComes'
  BY DEF CustomerTrue
<1>1. OwnersKnown /\ OneCustomerComes
  BY FreeBefore DEF CustomerTrue, Free
<1>2. \A c : OwnerKnown(c)' <=> OwnerKnown(c)
  BY DEF OwnerKnown
<1>3. \A s \in SubSlots : subCall'[s].pc = "customer" => Creating(subCall'[s])
  BY DEF Creating
<1>4. OwnersKnown'
  BY <1>1, <1>2 DEF OwnersKnown, OwnerKnown
<1>5. OneCustomerComes'
  BY <1>1, <1>3 DEF OneCustomerComes
<1> QED BY <1>4, <1>5

(* Stripe and its changes never give a subscription to another customer.    *)
LEMMA MoveOwners ==
  ASSUME LifeInv, NEW b \in SubIds, NEW new \in Billed, NEW kinds,
         ChangeAtStripe(b, new, kinds), new.owner = billed[b].owner
  PROVE  \A a \in SubIds : billed'[a].owner = billed[a].owner
<1>1. /\ billed'[b] = [new EXCEPT !.n = @ + 1]
      /\ \A a \in SubIds : a # b => billed'[a] = billed[a]
  BY ChangeSays DEF LifeInv, SubInv
<1>2. billed'[b].owner = new.owner
  BY <1>1 DEF Billed
<1> QED BY <1>1, <1>2

LEMMA StripeOwners ==
  ASSUME LifeInv, NEW b \in SubIds, StripeStep(b)
  PROVE  /\ \A a \in SubIds : billed'[a].owner = billed[a].owner
         /\ UNCHANGED <<customer, updates>>
<1>0. {"active", "past_due", "canceled", "incomplete"} \subseteq StripeStatus
  BY DEF StripeStatus
<1>1. ASSUME NEW from, NEW to \in StripeStatus, NEW kinds,
             StripeMoves(b, from, to, kinds)
      PROVE  /\ \A a \in SubIds : billed'[a].owner = billed[a].owner
             /\ UNCHANGED <<customer, updates>>
  <2>1. /\ Moved(b, to) \in Billed /\ ChangeAtStripe(b, Moved(b, to), kinds)
        /\ UNCHANGED <<customer, updates>>
    BY <1>1, MoveSteps
  <2>2. Moved(b, to).owner = billed[b].owner
    BY Frame DEF Moved, Billed
  <2> QED BY <2>1, <2>2, MoveOwners
<1>2. CASE FirstPayment(b)
  BY <1>0, <1>1, <1>2 DEF FirstPayment
<1>3. CASE FirstDecline(b)
  BY <1>0, <1>1, <1>3 DEF FirstDecline
<1>4. CASE GiveUpUnpaid(b)
  BY <1>0, <1>1, <1>4 DEF GiveUpUnpaid
<1>5. CASE Renewal(b)
  BY <1>0, <1>1, <1>5 DEF Renewal
<1>6. CASE FailedRenewal(b)
  BY <1>0, <1>1, <1>6 DEF FailedRenewal
<1>7. CASE PeriodEnd(b)
  BY <1>0, <1>1, <1>7 DEF PeriodEnd
<1> QED BY <1>2, <1>3, <1>4, <1>5, <1>6, <1>7 DEF StripeStep

(* What a call leaves of the customer when it is not about one.             *)
AsideSteps(s) ==
  \/ InsertRow(s) \/ AnswerSecret(s)
  \/ \E b \in SubIds, op \in SubChanges : BeginChange(s, b, op)
  \/ AskStripe(s) \/ SaveChange(s)
  \/ \E e \in notices : BeginEvent(s, e) \/ HandleCreated(s, e)
  \/ ReadSync(s) \/ SaveSync(s) \/ SavePaid(s) \/ SavePastDue(s)
  \/ EndRow(s) \/ SubDies(s)

LEMMA AsideSlot ==
  ASSUME LifeInv, NEW s \in SubSlots, AsideSteps(s)
  PROVE  /\ UNCHANGED <<customer, updates>>
         /\ \A z \in SubSlots : Creating(subCall'[z]) => subCall'[z] = subCall[z]
<1>1. ASSUME NEW record, subCall' = [subCall EXCEPT ![s] = record], ~Creating(record)
      PROVE  \A z \in SubSlots : Creating(subCall'[z]) => subCall'[z] = subCall[z]
  BY <1>1 DEF LifeInv, SubInv, CallsOK
<1>2. ~Creating(NoSubCall)
  BY DEF Creating, NoSubCall
<1>3. EndSub(s) => \A z \in SubSlots : Creating(subCall'[z]) => subCall'[z] = subCall[z]
  BY <1>1, <1>2 DEF EndSub
<1>4. CASE InsertRow(s)
  <2>1. subCall[s] \in [pc : {"insert", "answer"}, sub : SubIds]
    BY <1>4, CallKinds DEF InsertRow, SubAt, LifeInv
  <2>2. ~Creating([subCall[s] EXCEPT !.pc = "answer"])
    BY <2>1 DEF Creating
  <2> QED BY <1>1, <1>4, <2>2 DEF InsertRow, StepSub, KeepCustomer
<1>5. CASE AnswerSecret(s)
  BY <1>3, <1>5 DEF AnswerSecret, KeepCustomer
<1>6. ASSUME NEW b, NEW op, BeginChange(s, b, op)
      PROVE  /\ UNCHANGED <<customer, updates>>
             /\ \A z \in SubSlots : Creating(subCall'[z]) => subCall'[z] = subCall[z]
  <2> DEFINE record == [pc |-> "change", sub |-> b, op |-> op, copy |-> subRow[b]]
  <2>1. ~Creating(record) /\ subCall' = [subCall EXCEPT ![s] = record]
        /\ UNCHANGED <<customer, updates>>
    BY <1>6 DEF Creating, BeginChange, BeginSub, KeepCustomer
  <2> HIDE DEF record
  <2> QED BY <1>1, <2>1
<1>7. CASE AskStripe(s)
  <2>0. PICK k : k = subCall[s]
    OBVIOUS
  <2> DEFINE m == GoesOn(k, ChangeOf(k.sub, k.op))
  <2>1. subCall' = [subCall EXCEPT ![s] = m] /\ UNCHANGED <<customer, updates>>
    BY <1>7, <2>0 DEF AskStripe, StepSub, GoesOn, Copied, KeepCustomer
  <2>2. m.pc = "save"
    BY <1>7, <2>0, AskSteps
  <2>3. ~Creating(m)
    BY <2>2 DEF Creating
  <2> HIDE DEF m
  <2> QED BY <1>1, <2>1, <2>3
<1>8. CASE SaveChange(s)
  BY <1>3, <1>8 DEF SaveChange, KeepCustomer
<1>9. ASSUME NEW e \in notices, BeginEvent(s, e)
      PROVE  /\ UNCHANGED <<customer, updates>>
             /\ \A z \in SubSlots : Creating(subCall'[z]) => subCall'[z] = subCall[z]
  <2> DEFINE record == [pc |-> e.kind, sub |-> e.sub, event |-> e,
                        copy |-> subRow[e.sub]]
  <2>1. /\ UNCHANGED subCall \/ subCall' = [subCall EXCEPT ![s] = record]
        /\ ~Creating(record) /\ UNCHANGED <<customer, updates>>
    BY <1>9 DEF BeginEvent, BeginSub, Creating, KeepCustomer
  <2> HIDE DEF record
  <2> QED BY <1>1, <2>1
<1>10. ASSUME NEW e \in notices, HandleCreated(s, e)
       PROVE  UNCHANGED <<customer, updates, subCall>>
  BY <1>10 DEF HandleCreated, KeepCustomer
<1>11. CASE ReadSync(s)
  <2>0. PICK k : k = subCall[s]
    OBVIOUS
  <2>1. ~Creating(Reread(k))
    BY DEF Creating, Reread
  <2>2. EndSub(s) \/ subCall' = [subCall EXCEPT ![s] = Reread(k)]
    BY <1>11, <2>0 DEF ReadSync, StepSub, Reread
  <2> QED BY <1>1, <1>3, <1>11, <2>1, <2>2 DEF ReadSync, KeepCustomer
<1>12. CASE SaveSync(s) \/ SavePaid(s) \/ SavePastDue(s) \/ EndRow(s) \/ SubDies(s)
  <2>1. EndSub(s) /\ UNCHANGED <<customer, updates>>
    BY <1>12 DEF SaveSync, SavePaid, SavePastDue, EndRow, SubDies, KeepCustomer
  <2> QED BY <1>3, <2>1
<1> QED BY <1>4, <1>5, <1>6, <1>7, <1>8, <1>9, <1>10, <1>11, <1>12 DEF AsideSteps

LEMMA AsideOwners ==
  ASSUME LifeInv, NEW s \in SubSlots, AsideSteps(s)
  PROVE  \A a \in SubIds : billed'[a].owner = billed[a].owner
<1>1. CASE AnswerSecret(s)
  <2>0. PICK k : k = subCall[s]
    OBVIOUS
  <2> DEFINE b == k.sub
  <2>1. /\ b \in SubIds /\ Only(b)
        /\ \E told \in BOOLEAN : billed'[b] = [billed[b] EXCEPT !.secret = told]
    BY <1>1, <2>0, AnswerSteps
  <2> HIDE DEF b
  <2>2. billed'[b].owner = billed[b].owner
    BY <2>1, Frame DEF Billed
  <2> QED BY <2>1, <2>2 DEF Only, Rests
<1>2. CASE AskStripe(s)
  <2>0. PICK k : k = subCall[s]
    OBVIOUS
  <2> DEFINE b == k.sub
  <2>1. PICK new : new = ChangeOf(b, k.op)
    OBVIOUS
  <2>2. /\ b \in SubIds /\ Only(b) /\ new \in Billed /\ k.op \in SubChanges
        /\ IF new = billed[b] THEN billed'[b] = billed[b]
           ELSE ChangeAtStripe(b, new, AskedWord(new))
    BY <1>2, <2>0, <2>1, AskSteps
  <2> HIDE DEF b
  <2>3. new.owner = billed[b].owner
    BY <2>1, <2>2, Frame, Flags DEF ChangeOf, Billed
  <2>4. CASE new = billed[b]
    BY <2>2, <2>4 DEF Only, Rests
  <2>5. CASE new # billed[b]
    BY <2>2, <2>3, <2>5, MoveOwners
  <2> QED BY <2>4, <2>5
<1>3. CASE UNCHANGED billed
  BY <1>3
<1>4. InsertRow(s) \/ SaveChange(s) => UNCHANGED billed
  BY DEF InsertRow, SaveChange, KeepStripe
<1>5. \A b, op : BeginChange(s, b, op) => UNCHANGED billed
  BY DEF BeginChange, KeepStripe
<1>6. \A e : BeginEvent(s, e) \/ HandleCreated(s, e) => UNCHANGED billed
  BY DEF BeginEvent, HandleCreated
<1>7. ReadSync(s) \/ SaveSync(s) \/ SavePaid(s) \/ SavePastDue(s) => UNCHANGED billed
  BY DEF ReadSync, SaveSync, SavePaid, SavePastDue, KeepStripe
<1>8. EndRow(s) \/ SubDies(s) => UNCHANGED billed
  BY DEF EndRow, SubDies, KeepStripe
<1> QED BY <1>1, <1>2, <1>3, <1>4, <1>5, <1>6, <1>7, <1>8 DEF AsideSteps

(* createSubscription, and the news it sends to user-service.               *)
LEMMA ReadUserCustomer ==
  ASSUME LifeInv, CustomerTrue, ~SubSettled', NEW s \in SubSlots, ReadUser(s)
  PROVE  CustomerTrue'
<1> DEFINE record == [pc |-> IF customer = NoCustomer THEN "customer" ELSE "stripe",
                      sub |-> NoRow, owner |-> customer]
           marks == IF SubBusy = {} /\ updates = {} THEN {} ELSE {"overlap"}
<1>1. /\ subCall' = [subCall EXCEPT ![s] = record]
      /\ UNCHANGED <<billed, customer, updates>> /\ BlameSub(marks)
  BY DEF ReadUser, BeginSub, KeepStripe, KeepCustomer
<1>2. Blames(marks)
  BY <1>1, BlamedOrSettled
<1> SUFFICES ASSUME Free(PromotionMarks)'
             PROVE  OwnersKnown' /\ OneCustomerComes'
  BY DEF CustomerTrue
<1>3. SubBusy = {} /\ updates = {}
  BY <1>2 DEF Blames, Free, PromotionMarks
<1>4. OwnersKnown /\ OneCustomerComes
  BY <1>2, FreeBefore DEF CustomerTrue, Free, Blames
<1>5. record.owner = customer /\ record.pc = "customer" => customer = NoCustomer
  OBVIOUS
<1>6. record.owner = customer
  OBVIOUS
<1> HIDE DEF record
<1>7. \A z \in SubSlots : subCall'[z] = IF z = s THEN record ELSE NoSubCall
  BY <1>1, <1>3 DEF SubBusy, LifeInv, SubInv, CallsOK
<1>8. ~Creating(NoSubCall) /\ NoSubCall.pc # "customer"
  BY DEF Creating, NoSubCall
<1>9. OwnersKnown'
  BY <1>1, <1>4, <1>6, <1>7, <1>8 DEF OwnersKnown, OwnerKnown
<1>10. OneCustomerComes'
  BY <1>1, <1>3, <1>5, <1>6, <1>7, <1>8 DEF OneCustomerComes
<1> QED BY <1>9, <1>10

LEMMA CreateCustomerTrue ==
  ASSUME LifeInv, CustomerTrue, ~SubSettled', NEW s \in SubSlots,
         NEW c \in CustomerIds, CreateCustomer(s, c)
  PROVE  CustomerTrue'
<1> DEFINE record == [subCall[s] EXCEPT !.pc = "stripe", !.owner = c]
<1>1. /\ subCall[s].pc = "customer" /\ subCall' = [subCall EXCEPT ![s] = record]
      /\ updates' = updates \cup {c} /\ UNCHANGED <<billed, customer>> /\ BlameSub({})
  BY DEF CreateCustomer, SubAt, StepSub, KeepStripe
<1>2. Blames({})
  BY <1>1, BlamedOrSettled
<1>3. subCall[s] \in [pc : {"customer", "stripe"}, sub : {NoRow},
                      owner : CustomerIds \cup {NoCustomer}]
  BY <1>1, CallKinds DEF LifeInv
<1>4. record.pc = "stripe" /\ record.owner = c
  BY <1>3
<1> HIDE DEF record
<1> SUFFICES ASSUME Free(PromotionMarks)'
             PROVE  OwnersKnown' /\ OneCustomerComes'
  BY DEF CustomerTrue
<1>5. OwnersKnown /\ OneCustomerComes
  BY <1>2, FreeBefore DEF CustomerTrue, Free, Blames
<1>6. customer = NoCustomer /\ updates = {} /\ Creating(subCall[s])
  BY <1>1, <1>5 DEF OneCustomerComes, Creating
<1>7. \A z \in SubSlots : z # s => ~Creating(subCall[z])
  BY <1>5, <1>6 DEF OneCustomerComes
<1>8. \A z \in SubSlots : subCall'[z] = IF z = s THEN record ELSE subCall[z]
  BY <1>1 DEF LifeInv, SubInv, CallsOK
<1>9. \A z \in SubSlots : Creating(subCall'[z]) => z = s
  BY <1>7, <1>8
<1>10. \A z \in SubSlots : subCall'[z].pc # "customer"
  BY <1>4, <1>7, <1>8 DEF Creating
<1>11. OwnersKnown'
  BY <1>1, <1>4, <1>5, <1>8, <1>9 DEF OwnersKnown, OwnerKnown
<1>12. OneCustomerComes'
  BY <1>1, <1>6, <1>9, <1>10 DEF OneCustomerComes
<1> QED BY <1>11, <1>12

LEMMA CreateSubscriptionCustomer ==
  ASSUME LifeInv, LifeInv', CustomerTrue, ~SubSettled', NEW s \in SubSlots,
         NEW b \in SubIds, CreateSubscription(s, b)
  PROVE  CustomerTrue'
<1> DEFINE record == [pc |-> "insert", sub |-> b]
<1>1. /\ subCall' = [subCall EXCEPT ![s] = record] /\ ~Creating(record)
      /\ UNCHANGED <<customer, updates>> /\ BlameSub({})
  BY DEF CreateSubscription, StepSub, KeepCustomer, Creating
<1> HIDE DEF record
<1>2. /\ Only(b) /\ billed'[b].owner = subCall[s].owner
      /\ Creating(subCall[s])
  BY CreateSteps DEF LifeInv, Creating
<1>3. Blames({})
  BY <1>1, BlamedOrSettled
<1>4. \A z \in SubSlots : subCall'[z] = IF z = s THEN record ELSE subCall[z]
  BY <1>1 DEF LifeInv, SubInv, CallsOK
<1> SUFFICES ASSUME Free(PromotionMarks)'
             PROVE  CustomerTrue'
  BY DEF CustomerTrue
<1>5. OwnersKnown
  BY <1>3, FreeBefore DEF CustomerTrue, Free, Blames
<1>6. \A a \in SubIds : OwnerKnown(billed[a].owner) => OwnerKnown(billed'[a].owner)
  BY <1>2, <1>5 DEF OwnersKnown, Only, Rests
<1>7. \A z \in SubSlots : Creating(subCall'[z]) => subCall'[z] = subCall[z]
  BY <1>1, <1>4
<1> QED BY <1>1, <1>3, <1>6, <1>7, CustomerRests DEF Blames

LEMMA NewsCustomer ==
  ASSUME LifeInv, CustomerTrue, ~SubSettled', NEW c \in CustomerIds,
         ReceiveCustomer(c) \/ LoseCustomer(c)
  PROVE  CustomerTrue'
<1> SUFFICES ASSUME Free(PromotionMarks)'
             PROVE  OwnersKnown' /\ OneCustomerComes'
  BY DEF CustomerTrue
<1>1. CASE LoseCustomer(c)
  <2>1. "lost" \in subFault'
    BY <1>1, BlamedOrSettled DEF LoseCustomer, Blames
  <2> QED BY <2>1 DEF Free, PromotionMarks
<1>2. CASE ReceiveCustomer(c)
  <2>1. /\ c \in updates /\ updates' = updates \ {c} /\ customer' = c
        /\ UNCHANGED <<billed, subCall>> /\ BlameSub({})
    BY <1>2 DEF ReceiveCustomer, KeepStripe
  <2>2. Blames({})
    BY <2>1, BlamedOrSettled
  <2>3. OwnersKnown /\ OneCustomerComes
    BY <2>2, FreeBefore DEF CustomerTrue, Free, Blames
  <2>4. updates = {c} /\ customer = NoCustomer
    BY <2>1, <2>3 DEF OneCustomerComes
  <2>5. \A o : OwnerKnown(o) => OwnerKnown(o)'
    BY <2>1, <2>4 DEF OwnerKnown
  <2>6. OwnersKnown'
    BY <2>1, <2>3, <2>5 DEF OwnersKnown, OwnerKnown
  <2>7. OneCustomerComes'
    BY <2>1, <2>3, <2>4 DEF OneCustomerComes
  <2> QED BY <2>6, <2>7
<1> QED BY <1>1, <1>2

LEMMA SubCustomerNext ==
  ASSUME LifeInv, LifeInv', CustomerTrue, SubNext
  PROVE  CustomerTrue'
<1>0. CASE SubSettled'
  BY <1>0, SettledCustomer DEF LifeInv, SubInv
<1> SUFFICES ASSUME ~SubSettled'
             PROVE  CustomerTrue'
  BY <1>0
<1>b. ASSUME \E marks : BlameSub(marks)
      PROVE  subFault \subseteq subFault'
  BY <1>b, BlamedOrSettled DEF Blames
<1>1. ASSUME NEW b \in SubIds, StripeStep(b)
      PROVE  CustomerTrue'
  <2>1. UNCHANGED subCall /\ subFault \subseteq subFault'
    BY <1>1, <1>b, StripeBlames DEF StripeStep
  <2>2. /\ \A a \in SubIds : billed'[a].owner = billed[a].owner
        /\ UNCHANGED <<customer, updates>>
    BY <1>1, StripeOwners
  <2> QED BY <2>1, <2>2, CustomerRests
<1>2. ASSUME NEW b \in SubIds, Age(b)
      PROVE  CustomerTrue'
  <2>1. UNCHANGED <<billed, subCall, customer, updates>> /\ \E marks : BlameSub(marks)
    BY <1>2 DEF Age, KeepStripe, KeepCustomer
  <2> QED BY <1>b, <2>1, CustomerRests
<1>3. ASSUME NEW s \in SubSlots, SubStep(s)
      PROVE  CustomerTrue'
  <2>1. CASE ReadUser(s)
    BY <2>1, ReadUserCustomer
  <2>2. CASE \E c \in CustomerIds : CreateCustomer(s, c)
    BY <2>2, CreateCustomerTrue
  <2>3. CASE \E b \in SubIds : CreateSubscription(s, b)
    BY <2>3, CreateSubscriptionCustomer
  <2>4. CASE AsideSteps(s)
    BY <1>3, <1>b, <2>4, SlotOfStep, AsideSlot, AsideOwners, CustomerRests
  <2> QED BY <1>3, <2>1, <2>2, <2>3, <2>4 DEF SubStep, AsideSteps
<1>4. ASSUME NEW c \in CustomerIds, ReceiveCustomer(c) \/ LoseCustomer(c)
      PROVE  CustomerTrue'
  BY <1>4, NewsCustomer
<1>5. CASE SweepIncomplete
  <2>1. UNCHANGED <<billed, subCall, customer, updates>> /\ \E marks : BlameSub(marks)
    BY <1>5 DEF SweepIncomplete, KeepStripe, KeepCustomer
  <2> QED BY <1>b, <2>1, CustomerRests
<1> QED BY <1>1, <1>2, <1>3, <1>4, <1>5, SubNextIs

-----------------------------------------------------------------------------
FollowInv == LifeInv /\ AllTogether /\ CustomerTrue

LEMMA FollowInit ==
  ASSUME SubInit
  PROVE  FollowInv
<1>1. SubInv
  BY SubInitHolds
<1>2. /\ \A b \in SubIds : /\ EventsOf(b) = {} /\ CallsOf(b) = {} /\ CallsOn(b) = {}
                           /\ subRow[b] = NoRow /\ seen[b] = 0
                           /\ billed[b].status = "none" /\ ~billed[b].paid
                           /\ ~billed[b].secret /\ billed[b].owner = NoCustomer
                           /\ billed[b].n = 0
      /\ farewell = {} /\ updates = {}
      /\ \A s \in SubSlots : subCall[s] = NoSubCall
  BY DEF SubInit, EventsOf, CallsOf, CallsOn, SubBusy
<1>3. Alone /\ OneCreation
  BY <1>2 DEF Alone, OneCreation, Creates, NoSubCall
<1>4. \A b \in SubIds : LifeTrue(b)
  BY <1>2 DEF LifeTrue, Live
<1>5. ASSUME NEW b \in SubIds
      PROVE  Together(b)
  <2>1. Promoted(b) /\ Welcomed(b)
    BY <1>2 DEF Promoted, Welcomed
  <2>2. Told(b)
    BY <1>2 DEF Told, Live
  <2>3. UntoldUnbegun(b)
    BY <1>2 DEF UntoldUnbegun, Unbegun, NotBegun
  <2> QED BY <2>1, <2>2, <2>3 DEF Together
<1>6. CustomerTrue
  BY <1>2 DEF CustomerTrue, OwnersKnown, OwnerKnown, OneCustomerComes, Creating,
              NoSubCall
<1> QED BY <1>1, <1>3, <1>4, <1>5, <1>6 DEF FollowInv, LifeInv, AllTogether

LEMMA FollowStutters ==
  ASSUME FollowInv, UNCHANGED subVars
  PROVE  FollowInv'
<1>1. /\ UNCHANGED <<billed, subRow, notices, seen, welcomed, farewell, customer>>
      /\ UNCHANGED <<updates, subCall, subFault>>
  BY DEF subVars
<1>2. SubInv'
  BY SubNextKeeps DEF FollowInv, LifeInv
<1>3. \A b \in SubIds : CallsOn(b)' = CallsOn(b) /\ Rests(b)
  BY <1>1, CallsKept, EventsKept DEF Rests
<1>4. Alone' /\ OneCreation'
  BY <1>1, <1>3 DEF Alone, OneCreation, FollowInv, LifeInv
<1>5. \A b \in SubIds : LifeTrue(b)' /\ Together(b)'
  BY <1>1, <1>3, RestsLife, RestsTogether DEF FollowInv, LifeInv, AllTogether
<1>6. CustomerTrue'
  BY <1>1, CustomerRests DEF FollowInv
<1> QED BY <1>2, <1>4, <1>5, <1>6 DEF FollowInv, LifeInv, AllTogether

LEMMA FollowShows ==
  ASSUME FollowInv
  PROVE  SubscriptionsConsistent
<1>0. SubInv /\ CustomerTrue /\ \A b \in SubIds : Together(b)
  BY DEF FollowInv, LifeInv, AllTogether
<1>1. CancelledIsOver
  BY <1>0 DEF SubInv, SubTypeOK, WordsTrue, RowTrue, Over, Ended, CancelledIsOver
<1>2. SubQuiet => \A b \in SubIds : EventsOf(b) = {} /\ CallsOf(b) = {}
  BY DEF SubQuiet, EventsOf, CallsOf, CallsOn
<1>3. IncompleteIsUnpaid
  BY <1>0, <1>2
     DEF Together, Promoted, PromotionComes, PromotionMarks, Free, IncompleteIsUnpaid
<1>4. RowFollowsStripe
  BY <1>0, <1>2
     DEF Together, Told, WordIsThere, WordComes, RowFits, StatusFits, WordMarks, Free,
         Agrees, RowFollowsStripe
<1>5. UnpaidLeavesNoTrace
  BY <1>0
     DEF Together, UntoldUnbegun, Untold, Unbegun, NotBegun, Untraced, Incomplete,
         UnpaidLeavesNoTrace
<1>6. OneCustomer
  BY <1>0 DEF CustomerTrue, OwnersKnown, OwnerKnown, PromotionMarks, Free, SubQuiet,
              OneCustomer
<1>7. PaidIsWelcomed
  BY <1>0, <1>2 DEF Together, Welcomed, BeginningComes, BeginningHandled, WelcomeMarks,
                    Free, PaidIsWelcomed
<1> QED BY <1>1, <1>3, <1>4, <1>5, <1>6, <1>7 DEF SubscriptionsConsistent

(* A subscription's row and Stripe's record of it agree once nothing is on  *)
(* its way: a row that ended is billed no more (in every state), a row left *)
(* incomplete was never paid, the row of a billed subscription has Stripe's *)
(* status and schedule, an unpaid one leaves no trace, the user has one     *)
(* Stripe customer and a paid subscription was welcomed; each but for the   *)
(* faults its definition names.                                             *)
THEOREM SubscriptionsStayConsistent == SubSpec => []SubscriptionsConsistent
<1>1. SubInit => FollowInv
  BY FollowInit
<1>2. FollowInv /\ [SubNext]_subVars => FollowInv'
  <2>1. ASSUME FollowInv, SubNext
        PROVE  FollowInv'
    BY <2>1, LifeNext, TogetherNext, SubCustomerNext DEF FollowInv
  <2> QED BY <2>1, FollowStutters
<1>3. FollowInv => SubscriptionsConsistent
  BY FollowShows
<1> QED BY <1>1, <1>2, <1>3, PTL DEF SubSpec

-----------------------------------------------------------------------------
(* A welcome mail goes to the paid, and once.                               *)
HoldsIncomplete(k) ==
  \/ /\ Changing(k) \/ Handling(k)
     /\ k.copy # NoRow /\ k.copy.status = "incomplete"
  \/ k.pc = "sync" /\ k.was = "incomplete"

(* The creation is the first change; a mail needs a subscription.           *)
CountsFit(b) ==
  IF billed[b].status = "none" THEN billed[b].n = 0 /\ welcomed[b] = 0
  ELSE billed[b].n > 0

(* Its event is the first and alone; a mail that was sent comes before it   *)
(* only when it comes out of order.                                         *)
WordsInOrder(b) ==
  /\ \A e \in EventsOf(b) : e.kind = "created" => e.n = 1
  /\ \A e, f \in EventsOf(b) : e.kind = "created" /\ f.kind = "created" => e = f
  /\ \A e \in EventsOf(b) : e.kind = "updated" => e.n > 1
  /\ \A k \in CallsOf(b) : Syncs(k) => k.event.n > 1
  /\ welcomed[b] > 0 =>
       \A e \in EventsOf(b) : e.kind = "created" => e.n < seen[b]

(* Nothing takes a row back to incomplete while calls are alone: a call     *)
(* that holds an incomplete copy, or means to welcome, is the one that will *)
(* take the row on.                                                         *)
FirstWelcome(b) ==
  "overlap" \notin subFault =>
    /\ \A k \in CallsOf(b) :
         k.pc = "insert" => subRow[b] = NoRow /\ welcomed[b] = 0
    /\ \A k \in CallsOf(b) : HoldsIncomplete(k) => NotBegun(subRow[b])
    /\ welcomed[b] > 0 => /\ ~Incomplete(b)
                          /\ \A k \in CallsOf(b) : ~HoldsIncomplete(k)

OnceTrue == \A b \in SubIds : CountsFit(b) /\ WordsInOrder(b) /\ FirstWelcome(b)

OnceKept(b) ==
  /\ CountsFit(b)' /\ WordsInOrder(b)'
  /\ subFault \subseteq subFault' => FirstWelcome(b)'

LEMMA RestsOnce ==
  ASSUME OnceTrue, NEW b \in SubIds, Rests(b)
  PROVE  OnceKept(b)
<1>1. CountsFit(b) /\ WordsInOrder(b) /\ FirstWelcome(b)
  BY DEF OnceTrue
<1>2. CountsFit(b)' /\ WordsInOrder(b)'
  BY <1>1 DEF Rests, CountsFit, WordsInOrder
<1>3. subFault \subseteq subFault' => FirstWelcome(b)'
  BY <1>1 DEF Rests, FirstWelcome, Incomplete
<1> QED BY <1>2, <1>3 DEF OnceKept

LEMMA OnlyOnce ==
  ASSUME OnceTrue, NEW b, Only(b), b \in SubIds => OnceKept(b)
  PROVE  \A a \in SubIds : OnceKept(a)
  BY RestsOnce DEF Only

(* What a step without a mail leaves.                                       *)
FromIncomplete(b) == Incomplete(b) \/ \E k \in CallsOf(b) : HoldsIncomplete(k)

ChangesSince(b) ==
  \/ billed'[b].status = billed[b].status /\ billed'[b].n = billed[b].n
  \/ billed'[b].status # "none" /\ billed'[b].n > 0

EventsSince(b) ==
  \A e \in EventsOf(b)' :
    \/ e \in EventsOf(b)
    \/ e.kind # "created" /\ (e.kind = "updated" => e.n > 1)

CallsSince(b) ==
  \A k \in CallsOf(b)' :
    \/ k \in CallsOf(b)
    \/ /\ k.pc # "insert"
       /\ Syncs(k) => k.event.n > 1
       /\ HoldsIncomplete(k) => FromIncomplete(b)

RowSince(b) ==
  "overlap" \notin subFault =>
    /\ \/ CallsOf(b)' = {}
       \/ /\ NotBegun(subRow[b]) => NotBegun(subRow'[b])
          /\ subRow[b] = NoRow => subRow'[b] = NoRow
    /\ Incomplete(b)' => FromIncomplete(b)

LEMMA OnceStays ==
  ASSUME LifeInv, LifeInv', OnceTrue, NEW b \in SubIds,
         welcomed'[b] = welcomed[b], seen[b] <= seen'[b],
         ChangesSince(b), EventsSince(b), CallsSince(b), RowSince(b)
  PROVE  OnceKept(b)
<1>1. CountsFit(b) /\ WordsInOrder(b) /\ FirstWelcome(b)
  BY DEF OnceTrue
<1>2. CountsFit(b)'
  BY <1>1 DEF CountsFit, ChangesSince
<1>3. WordsInOrder(b)'
  <2>1. seen[b] \in Nat /\ seen'[b] \in Nat
    BY SubAssumption DEF LifeInv, SubInv, SubTypeOK
  <2>2. \A e \in EventsOf(b)' : e.kind = "created" => e \in EventsOf(b)
    BY DEF EventsSince
  <2>3. \A e \in EventsOf(b)' : e.kind = "updated" => e.n > 1
    BY <1>1 DEF EventsSince, WordsInOrder
  <2>4. \A k \in CallsOf(b)' : Syncs(k) => k.event.n > 1
    BY <1>1 DEF CallsSince, WordsInOrder
  <2>5. ASSUME welcomed'[b] > 0, NEW e \in EventsOf(b)', e.kind = "created"
        PROVE  e.n < seen'[b]
    <3>1. e.n = 1 /\ e.n < seen[b]
      BY <1>1, <2>2, <2>5 DEF WordsInOrder
    <3> QED BY <2>1, <3>1
  <2> QED BY <1>1, <2>2, <2>3, <2>4, <2>5 DEF WordsInOrder
<1>4. ASSUME subFault \subseteq subFault', "overlap" \notin subFault'
      PROVE  /\ \A k \in CallsOf(b)' :
                  k.pc = "insert" => subRow'[b] = NoRow /\ welcomed'[b] = 0
             /\ \A k \in CallsOf(b)' : HoldsIncomplete(k) => NotBegun(subRow'[b])
             /\ welcomed'[b] > 0 => /\ ~Incomplete(b)'
                                    /\ \A k \in CallsOf(b)' : ~HoldsIncomplete(k)
  <2>1. "overlap" \notin subFault
    BY <1>4
  <2>2. FromIncomplete(b) => NotBegun(subRow[b])
    BY <1>1, <2>1 DEF FirstWelcome, FromIncomplete, NotBegun, Incomplete
  <2>3. welcomed[b] > 0 => ~FromIncomplete(b)
    BY <1>1, <2>1 DEF FirstWelcome, FromIncomplete
  <2>4. ASSUME NEW k \in CallsOf(b)', k.pc = "insert"
        PROVE  subRow'[b] = NoRow /\ welcomed'[b] = 0
    BY <1>1, <2>1, <2>4 DEF FirstWelcome, CallsSince, RowSince
  <2>5. \A k \in CallsOf(b)' : HoldsIncomplete(k) => FromIncomplete(b)
    BY DEF CallsSince, FromIncomplete
  <2>6. ASSUME NEW k \in CallsOf(b)', HoldsIncomplete(k)
        PROVE  NotBegun(subRow'[b])
    BY <2>1, <2>2, <2>5, <2>6 DEF RowSince
  <2>7. Incomplete(b)' => FromIncomplete(b)
    BY <2>1 DEF RowSince
  <2> QED BY <2>3, <2>4, <2>5, <2>6, <2>7
<1>5. subFault \subseteq subFault' => FirstWelcome(b)'
  BY <1>4 DEF FirstWelcome
<1> QED BY <1>2, <1>3, <1>5 DEF OnceKept

(* A mail goes.                                                             *)
LEMMA OnceWelcomes ==
  ASSUME LifeInv, OnceTrue, NEW b \in SubIds, billed[b].status # "none",
         billed'[b] = billed[b], EventsOf(b)' \subseteq EventsOf(b),
         CallsOf(b)' \subseteq CallsOf(b),
         \A e \in EventsOf(b)' : e.kind = "created" => e.n < seen'[b],
         "overlap" \notin subFault =>
           /\ ~NotBegun(subRow'[b])
           /\ CallsOf(b)' = {} \/ subRow'[b] = subRow[b]
  PROVE  OnceKept(b)
<1>1. CountsFit(b) /\ WordsInOrder(b) /\ FirstWelcome(b)
  BY DEF OnceTrue
<1>2. CountsFit(b)'
  BY <1>1 DEF CountsFit
<1>3. WordsInOrder(b)'
  BY <1>1 DEF WordsInOrder
<1>4. ASSUME subFault \subseteq subFault', "overlap" \notin subFault'
      PROVE  /\ ~Incomplete(b)'
             /\ \A k \in CallsOf(b)' : k.pc # "insert" /\ ~HoldsIncomplete(k)
  BY <1>1, <1>4 DEF FirstWelcome, NotBegun, Incomplete
<1>5. subFault \subseteq subFault' => FirstWelcome(b)'
  BY <1>4 DEF FirstWelcome
<1> QED BY <1>2, <1>3, <1>5 DEF OnceKept

-----------------------------------------------------------------------------
(* Step by step.  What Stripe changes.                                      *)
LEMMA ChangeOnce ==
  ASSUME LifeInv, OnceTrue, NEW b \in SubIds, NEW new \in Billed, NEW kinds,
         ChangeAtStripe(b, new, kinds), new.n = billed[b].n,
         new.status # "none", billed[b].status # "none", "created" \notin kinds
  PROVE  ChangesSince(b) /\ EventsSince(b)
<1>1. /\ billed'[b] = [new EXCEPT !.n = @ + 1]
      /\ EventsOf(b)' = EventsOf(b) \cup
           {[sub |-> b, kind |-> k, status |-> new.status, flag |-> new.flag,
             n |-> new.n + 1] : k \in kinds}
  BY ChangeSays DEF LifeInv, SubInv
<1>2. new.n \in Nat /\ new.n > 0
  BY SubAssumption DEF Billed, OnceTrue, CountsFit
<1>3. billed'[b].status = new.status /\ billed'[b].n = new.n + 1
  BY <1>1 DEF Billed
<1>4. \A e \in EventsOf(b)' : e \in EventsOf(b) \/ (e.kind \in kinds /\ e.n = new.n + 1)
  BY <1>1
<1>5. ChangesSince(b)
  BY <1>2, <1>3 DEF ChangesSince
<1>6. EventsSince(b)
  BY <1>2, <1>4 DEF EventsSince
<1> QED BY <1>5, <1>6

(* A subscription that is as it was, with its events.                       *)
LEMMA HereOnce ==
  ASSUME LifeInv, NEW b \in SubIds,
         billed'[b] = billed[b], EventsOf(b)' \subseteq EventsOf(b)
  PROVE  ChangesSince(b) /\ EventsSince(b)
  BY DEF ChangesSince, EventsSince

LEMMA RowKeptOnce ==
  ASSUME NEW b \in SubIds, subRow'[b] = subRow[b]
  PROVE  RowSince(b)
  BY DEF RowSince, Incomplete, FromIncomplete

LEMMA SeenStays ==
  ASSUME LifeInv, NEW b \in SubIds, seen'[b] = seen[b]
  PROVE  seen[b] <= seen'[b]
  BY Frame

LEMMA StripeOnce ==
  ASSUME LifeInv, LifeInv', OnceTrue, NEW b \in SubIds, StripeStep(b)
  PROVE  \A a \in SubIds : OnceKept(a)
<1>0. {"active", "past_due", "canceled", "incomplete"} \subseteq StripeStatus
  BY DEF StripeStatus
<1>1. ASSUME NEW from, NEW to \in StripeStatus, NEW kinds,
             StripeMoves(b, from, to, kinds), "none" \notin from, to # "none",
             "created" \notin kinds
      PROVE  \A a \in SubIds : OnceKept(a)
  <2>1. /\ Moved(b, to) \in Billed /\ ChangeAtStripe(b, Moved(b, to), kinds)
        /\ billed[b].status \in from
        /\ UNCHANGED <<subRow, seen, welcomed, subCall>>
        /\ \A a \in SubIds : a # b => Rests(a)
    BY <1>1, MoveSteps
  <2>2. Moved(b, to).n = billed[b].n /\ Moved(b, to).status = to
    BY Frame DEF Moved, Billed
  <2>3. ChangesSince(b) /\ EventsSince(b)
    BY <1>1, <2>1, <2>2, ChangeOnce
  <2>4. CallsSince(b) /\ RowSince(b) /\ seen[b] <= seen'[b] /\ Only(b)
    BY <2>1, CallsKept, RowKeptOnce, SeenStays DEF CallsSince, Only
  <2>5. OnceKept(b)
    BY <2>1, <2>3, <2>4, OnceStays
  <2> QED BY <2>4, <2>5, OnlyOnce
<1>2. CASE FirstPayment(b)
  BY <1>0, <1>1, <1>2 DEF FirstPayment
<1>3. CASE FirstDecline(b)
  BY <1>0, <1>1, <1>3 DEF FirstDecline
<1>4. CASE GiveUpUnpaid(b)
  BY <1>0, <1>1, <1>4 DEF GiveUpUnpaid
<1>5. CASE Renewal(b)
  BY <1>0, <1>1, <1>5 DEF Renewal
<1>6. CASE FailedRenewal(b)
  BY <1>0, <1>1, <1>6 DEF FailedRenewal
<1>7. CASE PeriodEnd(b)
  BY <1>0, <1>1, <1>7 DEF PeriodEnd
<1> QED BY <1>2, <1>3, <1>4, <1>5, <1>6, <1>7 DEF StripeStep

(* A subscription is created, saved and answered.                           *)
LEMMA CreateOnce ==
  ASSUME LifeInv, LifeInv', OnceTrue, NEW s \in SubSlots, NEW b \in SubIds,
         CreateSubscription(s, b)
  PROVE  \A a \in SubIds : OnceKept(a)
<1> DEFINE new == [billed[b] EXCEPT !.status = "incomplete",
                                    !.owner = subCall[s].owner]
           first == [sub |-> b, kind |-> "created", status |-> new.status,
                     flag |-> new.flag, n |-> new.n + 1]
<1>1. /\ Only(b) /\ billed[b].status = "none"
      /\ CallsOf(b)' = {[pc |-> "insert", sub |-> b]} /\ subRow'[b] = NoRow
      /\ subCall[s].pc = "stripe"
  BY CreateSteps DEF LifeInv
<1>2. ChangeAtStripe(b, new, {"created"}) /\ UNCHANGED welcomed
  BY DEF CreateSubscription, KeepMails
<1>3. subCall[s].owner \in CustomerIds \cup {NoCustomer}
  BY <1>1, CallKinds DEF LifeInv
<1>4. new \in Billed /\ new.n = billed[b].n /\ new.status = "incomplete"
  BY <1>3, Frame DEF Billed, StripeStatus
<1>5. billed[b].n = 0 /\ welcomed[b] = 0 /\ EventsOf(b) = {}
  BY <1>1, Frame DEF OnceTrue, CountsFit, LifeTrue
<1>6. billed'[b] = [new EXCEPT !.n = @ + 1] /\ EventsOf(b)' = {first}
  <2> HIDE DEF new
  <2>1. SubTypeOK
    BY DEF LifeInv, SubInv
  <2>2. /\ billed'[b] = [new EXCEPT !.n = @ + 1]
        /\ EventsOf(b)' = EventsOf(b) \cup
             {[sub |-> b, kind |-> k, status |-> new.status, flag |-> new.flag,
               n |-> new.n + 1] : k \in {"created"}}
    BY <1>2, <1>4, <2>1, ChangeSays
  <2> QED BY <1>5, <2>2
<1>7. first.n = 1 /\ first.kind = "created"
  BY <1>4, <1>5
<1>8. billed'[b].status = "incomplete" /\ billed'[b].n = 1
  BY <1>4, <1>5, <1>6 DEF Billed
<1> HIDE DEF first, new
<1>9. CountsFit(b)' /\ welcomed'[b] = 0
  BY <1>2, <1>5, <1>8 DEF CountsFit
<1>10. WordsInOrder(b)'
  BY <1>1, <1>6, <1>7, <1>9 DEF WordsInOrder, Syncs
<1>11. FirstWelcome(b)'
  BY <1>1, <1>9 DEF FirstWelcome, HoldsIncomplete, Changing, Handling
<1>12. OnceKept(b)
  BY <1>9, <1>10, <1>11 DEF OnceKept
<1> QED BY <1>1, <1>12, OnlyOnce

LEMMA InsertOnce ==
  ASSUME LifeInv, LifeInv', OnceTrue, NEW s \in SubSlots, InsertRow(s)
  PROVE  \A a \in SubIds : OnceKept(a)
<1>0. PICK k : k = subCall[s]
  OBVIOUS
<1> DEFINE b == k.sub
           m == [k EXCEPT !.pc = "answer"]
<1>1. /\ b \in SubIds /\ k \in CallsOf(b) /\ Only(b) /\ Here(b) /\ k.pc = "insert"
      /\ UNCHANGED welcomed /\ CallMoves(b, k, m)
  BY <1>0, InsertSteps
<1>2. k \in [pc : {"insert", "answer"}, sub : SubIds]
  BY <1>0, <1>1, CallKinds DEF LifeInv
<1>3. m.pc = "answer"
  BY <1>2
<1> HIDE DEF b, m
<1>4. ~Syncs(m) /\ ~HoldsIncomplete(m) /\ m.pc # "insert"
  BY <1>3 DEF Syncs, HoldsIncomplete, Changing, Handling
<1>5. /\ CountsFit(b) /\ WordsInOrder(b) /\ FirstWelcome(b)
      /\ billed'[b] = billed[b] /\ seen'[b] = seen[b] /\ EventsOf(b)' = EventsOf(b)
  BY <1>1 DEF OnceTrue, Here
<1>6. CallsOf(b)' \subseteq CallsOf(b) \cup {m}
  BY <1>1 DEF CallMoves
<1>7. CountsFit(b)' /\ WordsInOrder(b)'
  BY <1>1, <1>4, <1>5, <1>6 DEF CountsFit, WordsInOrder
<1>8. ASSUME "overlap" \notin subFault
      PROVE  FirstWelcome(b)'
  <2>1. CallsOf(b)' = {m} /\ welcomed[b] = 0
    BY <1>1, <1>5, <1>8 DEF CallMoves, FirstWelcome
  <2> QED BY <1>1, <1>4, <2>1 DEF FirstWelcome
<1>9. subFault \subseteq subFault' => FirstWelcome(b)'
  BY <1>8 DEF FirstWelcome
<1>10. OnceKept(b)
  BY <1>7, <1>9 DEF OnceKept
<1> QED BY <1>1, <1>10, OnlyOnce

LEMMA AnswerOnce ==
  ASSUME LifeInv, LifeInv', OnceTrue, NEW s \in SubSlots, AnswerSecret(s)
  PROVE  \A a \in SubIds : OnceKept(a)
<1>0. PICK k : k = subCall[s]
  OBVIOUS
<1> DEFINE b == k.sub
<1>1. /\ b \in SubIds /\ Only(b)
      /\ \E told \in BOOLEAN : billed'[b] = [billed[b] EXCEPT !.secret = told]
      /\ EventsOf(b)' = EventsOf(b) /\ CallEnds(b, k)
      /\ UNCHANGED <<subRow, seen, welcomed>>
  BY <1>0, AnswerSteps
<1> HIDE DEF b
<1>2. ChangesSince(b) /\ EventsSince(b)
  BY <1>1, Frame DEF Billed, ChangesSince, EventsSince
<1>3. CallsSince(b) /\ RowSince(b) /\ seen[b] <= seen'[b]
  BY <1>1, RowKeptOnce, SeenStays DEF CallEnds, CallsSince
<1>4. OnceKept(b)
  BY <1>1, <1>2, <1>3, OnceStays
<1> QED BY <1>1, <1>4, OnlyOnce

(* Somebody asks for a change.                                              *)
LEMMA BeginChangeOnce ==
  ASSUME LifeInv, LifeInv', OnceTrue, NEW s \in SubSlots, NEW b \in SubIds,
         NEW op \in SubChanges, BeginChange(s, b, op)
  PROVE  \A a \in SubIds : OnceKept(a)
<1>1. PICK k : k = [pc |-> "change", sub |-> b, op |-> op, copy |-> subRow[b]]
  OBVIOUS
<1>2. /\ Only(b) /\ Here(b) /\ CallBegins(b, k) /\ subRow[b] # NoRow
      /\ UNCHANGED <<subRow, welcomed>>
  BY <1>1, BeginChangeSteps DEF LifeInv
<1>3. k.pc = "change" /\ k.copy = subRow[b]
  BY <1>1
<1>4. /\ k.pc # "insert" /\ ~Syncs(k)
      /\ HoldsIncomplete(k) => FromIncomplete(b)
  BY <1>3 DEF Syncs, HoldsIncomplete, FromIncomplete, Incomplete
<1>5. CallsSince(b)
  BY <1>2, <1>4 DEF CallBegins, CallsSince
<1>6. ChangesSince(b) /\ EventsSince(b) /\ RowSince(b) /\ seen[b] <= seen'[b]
  BY <1>2, HereOnce, RowKeptOnce, SeenStays DEF Here
<1>7. OnceKept(b)
  BY <1>2, <1>5, <1>6, OnceStays
<1> QED BY <1>2, <1>7, OnlyOnce

LEMMA AskOnce ==
  ASSUME LifeInv, LifeInv', OnceTrue, NEW s \in SubSlots, AskStripe(s)
  PROVE  \A a \in SubIds : OnceKept(a)
<1>0. PICK k : k = subCall[s]
  OBVIOUS
<1> DEFINE b == k.sub
<1>1. PICK new : new = ChangeOf(b, k.op)
  OBVIOUS
<1>2. PICK m : m = GoesOn(k, new)
  OBVIOUS
<1>3. /\ b \in SubIds /\ k \in CallsOf(b) /\ Only(b) /\ k.pc = "change"
      /\ k.copy \in Row /\ k.op \in SubChanges
      /\ CallMoves(b, k, m) /\ m.pc = "save" /\ m.copy = Copied(k, new)
      /\ UNCHANGED <<subRow, seen, welcomed>>
      /\ new \in Billed /\ new.n = billed[b].n
      /\ billed[b].status \notin {"none", "canceled"}
      /\ IF new = billed[b]
         THEN billed'[b] = billed[b] /\ EventsOf(b)' = EventsOf(b)
         ELSE ChangeAtStripe(b, new, AskedWord(new))
  BY <1>0, <1>1, <1>2, AskSteps
<1>4. new.status \in {billed[b].status, "canceled", "trialing"}
  BY <1>1, <1>3, Frame DEF ChangeOf, Billed
<1>5. "created" \notin AskedWord(new)
  BY DEF AskedWord
<1> HIDE DEF b
<1>6. ChangesSince(b) /\ EventsSince(b)
  <2>1. CASE new = billed[b]
    BY <1>3, <2>1, HereOnce
  <2>2. CASE new # billed[b]
    <3>1. new.status # "none" /\ billed[b].status # "none"
      BY <1>3, <1>4
    <3> QED BY <1>3, <1>5, <2>2, <3>1, ChangeOnce
  <2> QED BY <2>1, <2>2
<1>7. m.copy.status = "incomplete" => k.copy.status = "incomplete"
  BY <1>3, Flags DEF Copied, Mapped, Row
<1>8. /\ m.pc # "insert" /\ ~Syncs(m)
      /\ HoldsIncomplete(m) => HoldsIncomplete(k)
  BY <1>3, <1>7, NoRowAssumption DEF Syncs, HoldsIncomplete, Changing
<1>9. CallsSince(b)
  BY <1>3, <1>8 DEF CallMoves, CallsSince, FromIncomplete
<1>10. RowSince(b) /\ seen[b] <= seen'[b]
  BY <1>3, RowKeptOnce, SeenStays
<1>11. OnceKept(b)
  BY <1>3, <1>6, <1>9, <1>10, OnceStays
<1> QED BY <1>3, <1>11, OnlyOnce

(* A call saves the row it holds.                                           *)
LEMMA SavesOnce ==
  ASSUME LifeInv, LifeInv', OnceTrue, NEW b \in SubIds, NEW k, NEW r \in Row,
         Only(b), Saves(b, k, r), welcomed'[b] = welcomed[b],
         r.status = "incomplete" => HoldsIncomplete(k)
  PROVE  \A a \in SubIds : OnceKept(a)
<1>1. subRow'[b].status = r.status
  BY DEF Saves, Row
<1>2. /\ k \in CallsOf(b) /\ CallsOf(b)' \subseteq CallsOf(b)
      /\ "overlap" \notin subFault => CallsOf(b)' = {}
  BY DEF Saves, CallEnds
<1>3. RowSince(b)
  BY <1>1, <1>2 DEF RowSince, FromIncomplete, Incomplete
<1>4. CallsSince(b)
  BY <1>2 DEF CallsSince
<1>5. ChangesSince(b) /\ EventsSince(b) /\ seen[b] <= seen'[b]
  BY HereOnce, SeenStays DEF Saves, Here
<1>6. OnceKept(b)
  BY <1>3, <1>4, <1>5, OnceStays
<1> QED BY <1>6, OnlyOnce

LEMMA SaveChangeOnce ==
  ASSUME LifeInv, LifeInv', OnceTrue, NEW s \in SubSlots, SaveChange(s)
  PROVE  \A a \in SubIds : OnceKept(a)
<1>0. PICK k : k = subCall[s]
  OBVIOUS
<1>1. /\ k.pc = "save" /\ subRow' = Saved(k.sub, k.copy) /\ EndSub(s)
      /\ UNCHANGED <<billed, notices, seen, farewell, welcomed>>
  BY <1>0 DEF SaveChange, SubAt, KeepStripe, KeepMails
<1>2. k.copy \in Row
  BY <1>0, <1>1, CallKinds DEF LifeInv, Changing
<1>3. k.sub \in SubIds /\ Only(k.sub) /\ Saves(k.sub, k, k.copy)
  BY <1>0, <1>1, <1>2, SaveSteps
<1>4. k.copy.status = "incomplete" => HoldsIncomplete(k)
  BY <1>1, <1>2, NoRowAssumption DEF HoldsIncomplete, Changing
<1> QED BY <1>1, <1>2, <1>3, <1>4, SavesOnce

LEMMA SavePaidOnce ==
  ASSUME LifeInv, LifeInv', OnceTrue, NEW s \in SubSlots,
         SavePaid(s) \/ SavePastDue(s)
  PROVE  \A a \in SubIds : OnceKept(a)
<1>0. PICK k : k = subCall[s]
  OBVIOUS
<1>1. k.pc \in {"paid", "failed"} => k.copy \in Row
  BY <1>0, CallKinds DEF LifeInv, Handling
<1>2. CASE SavePaid(s)
  <2>1. /\ k.pc = "paid" /\ subRow' = Saved(k.sub, k.copy) /\ EndSub(s)
        /\ UNCHANGED <<billed, notices, seen, farewell, welcomed>>
    BY <1>0, <1>2 DEF SavePaid, SubAt, KeepStripe, KeepMails
  <2>2. k.sub \in SubIds /\ Only(k.sub) /\ Saves(k.sub, k, k.copy)
    BY <1>0, <1>1, <2>1, SaveSteps
  <2>3. k.copy.status = "incomplete" => HoldsIncomplete(k)
    BY <1>1, <2>1, NoRowAssumption DEF HoldsIncomplete, Handling
  <2> QED BY <1>1, <2>1, <2>2, <2>3, SavesOnce
<1>3. CASE SavePastDue(s)
  <2>0. PICK r : r = [k.copy EXCEPT !.status = "past_due"]
    OBVIOUS
  <2>1. /\ k.pc = "failed" /\ subRow' = Saved(k.sub, r) /\ EndSub(s)
        /\ UNCHANGED <<billed, notices, seen, farewell, welcomed>>
    BY <1>0, <1>3, <2>0 DEF SavePastDue, SubAt, KeepStripe, KeepMails
  <2>2. r \in Row /\ r.status # "incomplete"
    BY <1>1, <2>0, <2>1 DEF Row, RowStatus
  <2>3. k.sub \in SubIds /\ Only(k.sub) /\ Saves(k.sub, k, r)
    BY <1>0, <2>1, <2>2, SaveSteps
  <2> QED BY <2>1, <2>2, <2>3, SavesOnce
<1> QED BY <1>2, <1>3

(* The sync that finds the row incomplete and leaves it active welcomes.    *)
LEMMA SaveSyncOnce ==
  ASSUME LifeInv, LifeInv', OnceTrue, NEW s \in SubSlots, SaveSync(s)
  PROVE  \A a \in SubIds : OnceKept(a)
<1>0. PICK k : k = subCall[s]
  OBVIOUS
<1> DEFINE b == k.sub
<1>1. PICK r : r = [k.copy EXCEPT !.status = Mapped(k.event.status, @),
                                  !.flag = k.event.flag]
  OBVIOUS
<1>2. /\ k.pc = "sync" /\ subRow' = Saved(b, r) /\ EndSub(s)
      /\ UNCHANGED <<billed, notices, seen, farewell>>
      /\ IF k.was = "incomplete" /\ r.status = "active"
         THEN Welcome(b) ELSE UNCHANGED welcomed
  BY <1>0, <1>1 DEF SaveSync, SubAt, KeepStripe
<1>3. k.copy \in Row /\ k.event \in Event
  BY <1>0, <1>2, CallKinds DEF LifeInv, Handling
<1>4. r \in Row /\ r.status = Mapped(k.event.status, k.copy.status)
  BY <1>1, <1>3 DEF Row, Event, Mapped, RowStatus
<1>5. b \in SubIds /\ k \in CallsOf(b) /\ Only(b) /\ Saves(b, k, r)
  BY <1>0, <1>2, <1>4, SaveSteps
<1>6. r.status = "incomplete" => HoldsIncomplete(k)
  BY <1>2, <1>3, <1>4, NoRowAssumption DEF HoldsIncomplete, Handling, Mapped
<1> HIDE DEF b
<1>7. CASE welcomed' = welcomed
  BY <1>4, <1>5, <1>6, <1>7, SavesOnce
<1>8. CASE welcomed' # welcomed
  <2>1. r.status = "active"
    BY <1>2, <1>8
  <2>2. /\ subRow'[b].status = r.status /\ subRow'[b] # NoRow /\ Here(b)
        /\ CallsOf(b)' \subseteq CallsOf(b)
        /\ "overlap" \notin subFault => CallsOf(b)' = {}
    BY <1>4, <1>5 DEF Saves, CallEnds, Row
  <2>3. ~NotBegun(subRow'[b])
    BY <2>1, <2>2 DEF NotBegun
  <2>4. billed[b].status # "none"
    BY <1>5, Frame
  <2>5. ASSUME NEW e \in EventsOf(b)', e.kind = "created"
        PROVE  e.n < seen'[b]
    <3>1. e.n = 1 /\ k.event.n > 1
      BY <1>2, <1>5, <2>2, <2>5 DEF OnceTrue, WordsInOrder, Here, Syncs
    <3>2. k.event.n <= seen[b] /\ seen'[b] = seen[b]
      BY <1>2, <1>5, <2>2, Frame DEF LifeTrue, Handling, Here
    <3>3. k.event.n \in Nat /\ seen[b] \in Nat
      BY <1>3, <1>5, Frame DEF Event
    <3> QED BY <3>1, <3>2, <3>3
  <2>6. OnceKept(b)
    BY <1>5, <2>2, <2>3, <2>4, <2>5, OnceWelcomes DEF Here
  <2> QED BY <1>5, <2>6, OnlyOnce
<1> QED BY <1>7, <1>8

(* An event comes: to a handler, or without a row to nobody.                *)
LEMMA BeginEventOnce ==
  ASSUME LifeInv, LifeInv', OnceTrue, NEW s \in SubSlots, NEW e \in notices,
         BeginEvent(s, e)
  PROVE  \A a \in SubIds : OnceKept(a)
<1> DEFINE b == e.sub
<1>1. PICK k : k = [pc |-> e.kind, sub |-> b, event |-> e, copy |-> subRow[b]]
  OBVIOUS
<1>2. /\ e \in Event /\ b \in SubIds /\ TakesEvent(b, e) /\ Only(b)
      /\ e.kind \in {"updated", "paid", "failed", "deleted"}
      /\ UNCHANGED welcomed
      /\ IF subRow[b] = NoRow /\ e.kind # "updated"
         THEN CallsOf(b)' = CallsOf(b) ELSE CallBegins(b, k)
  BY <1>1, BeginEventSteps DEF LifeInv
<1>3. k.pc = e.kind /\ k.event = e /\ k.copy = subRow[b]
  BY <1>1
<1> HIDE DEF b
<1>4. seen[b] <= seen'[b]
  <2>1. seen[b] \in Nat /\ e.n \in Nat
    BY <1>2, Frame DEF Event
  <2> QED BY <1>2, <2>1 DEF TakesEvent
<1>5. Syncs(k) => k.event.n > 1
  BY <1>2, <1>3 DEF Syncs, TakesEvent, OnceTrue, WordsInOrder
<1>6. HoldsIncomplete(k) => FromIncomplete(b)
  BY <1>2, <1>3 DEF HoldsIncomplete, FromIncomplete, Incomplete
<1>7. CallsSince(b)
  BY <1>2, <1>3, <1>5, <1>6 DEF CallBegins, CallsSince
<1>8. ChangesSince(b) /\ EventsSince(b) /\ RowSince(b)
  BY <1>2, HereOnce, RowKeptOnce DEF TakesEvent
<1>9. OnceKept(b)
  BY <1>2, <1>4, <1>7, <1>8, OnceStays
<1> QED BY <1>2, <1>9, OnlyOnce

(* The creation is notified.                                                *)
LEMMA HandleCreatedOnce ==
  ASSUME LifeInv, LifeInv', OnceTrue, NEW s \in SubSlots, NEW e \in notices,
         HandleCreated(s, e)
  PROVE  \A a \in SubIds : OnceKept(a)
<1> DEFINE b == e.sub
<1>1. /\ e \in Event /\ b \in SubIds /\ TakesEvent(b, e) /\ Only(b)
      /\ e.kind = "created" /\ CallsOf(b)' = CallsOf(b)
  BY HandleCreatedSteps
<1>2. IF subRow[b] # NoRow /\ subRow[b].status # "incomplete"
      THEN Welcome(b) ELSE UNCHANGED welcomed
  BY DEF HandleCreated
<1> HIDE DEF b
<1>3. /\ billed'[b] = billed[b] /\ EventsOf(b)' = EventsOf(b) \ {e}
      /\ subRow'[b] = subRow[b] /\ e \in EventsOf(b)
  BY <1>1 DEF TakesEvent
<1>4. CASE UNCHANGED welcomed
  <2>1. seen[b] <= seen'[b]
    <3>1. seen[b] \in Nat /\ e.n \in Nat
      BY <1>1, Frame DEF Event
    <3> QED BY <1>1, <3>1 DEF TakesEvent
  <2>2. ChangesSince(b) /\ EventsSince(b) /\ RowSince(b) /\ CallsSince(b)
    BY <1>1, <1>3, HereOnce, RowKeptOnce DEF CallsSince
  <2>3. OnceKept(b)
    BY <1>1, <1>4, <2>1, <2>2, OnceStays
  <2> QED BY <1>1, <2>3, OnlyOnce
<1>5. CASE ~UNCHANGED welcomed
  <2>1. ~NotBegun(subRow'[b])
    BY <1>2, <1>3, <1>5 DEF NotBegun
  <2>2. \A f \in EventsOf(b)' : f.kind # "created"
    BY <1>1, <1>3 DEF OnceTrue, WordsInOrder
  <2>3. billed[b].status # "none"
    BY <1>1, <1>3, Frame DEF LifeTrue
  <2>4. OnceKept(b)
    BY <1>1, <1>3, <2>1, <2>2, <2>3, OnceWelcomes
  <2> QED BY <1>1, <2>4, OnlyOnce
<1> QED BY <1>4, <1>5

(* A call ends without a word.                                              *)
LEMMA DropsOnce ==
  ASSUME LifeInv, LifeInv', OnceTrue, NEW s \in SubSlots, NEW k, k = subCall[s],
         k # NoSubCall, k.sub \in SubIds, EndSub(s),
         UNCHANGED <<billed, subRow, notices, seen, welcomed, farewell>>
  PROVE  \A a \in SubIds : OnceKept(a)
<1> DEFINE b == k.sub
<1>1. b \in SubIds /\ Only(b) /\ Drops(b, k)
  BY DropSteps
<1> HIDE DEF b
<1>2. CallsSince(b)
  BY <1>1 DEF Drops, CallEnds, CallsSince
<1>3. ChangesSince(b) /\ EventsSince(b) /\ RowSince(b) /\ seen[b] <= seen'[b]
  BY <1>1, HereOnce, RowKeptOnce, SeenStays DEF Drops, Here
<1>4. OnceKept(b)
  BY <1>1, <1>2, <1>3, OnceStays
<1> QED BY <1>1, <1>4, OnlyOnce

LEMMA ReadSyncOnce ==
  ASSUME LifeInv, LifeInv', OnceTrue, NEW s \in SubSlots, ReadSync(s)
  PROVE  \A a \in SubIds : OnceKept(a)
<1>0. PICK k : k = subCall[s]
  OBVIOUS
<1> DEFINE b == k.sub
<1>1. k.pc = "updated" /\ b \in SubIds /\ k # NoSubCall
  BY <1>0, CallKinds DEF ReadSync, SubAt, Handling, LifeInv, NoSubCall
<1>2. CASE subRow[b] = NoRow
  <2>1. EndSub(s) /\ UNCHANGED <<billed, subRow, notices, seen, welcomed, farewell>>
    BY <1>0, <1>2 DEF ReadSync, KeepStripe, KeepMails
  <2> QED BY <1>0, <1>1, <2>1, DropsOnce
<1>3. CASE subRow[b] # NoRow
  <2>1. PICK m : m = Reread(k)
    OBVIOUS
  <2>2. /\ k \in CallsOf(b) /\ Only(b) /\ Here(b) /\ CallMoves(b, k, m)
        /\ UNCHANGED <<subRow, welcomed>>
    BY <1>0, <1>3, <2>1, ReadSyncSteps
  <2>3. /\ m.pc = "sync" /\ m.event = k.event /\ m.copy = subRow[b]
        /\ m.was = IF k.copy = NoRow THEN "none" ELSE k.copy.status
    BY <2>1 DEF Reread
  <2> HIDE DEF b
  <2>4. m.pc # "insert" /\ m.event.n > 1
    BY <1>1, <2>2, <2>3 DEF OnceTrue, WordsInOrder, Syncs
  <2>5. HoldsIncomplete(m) => Incomplete(b) \/ HoldsIncomplete(k)
    BY <1>1, <1>3, <2>3 DEF HoldsIncomplete, Handling, Incomplete
  <2>6. CallsSince(b)
    BY <2>2, <2>4, <2>5 DEF CallMoves, CallsSince, FromIncomplete
  <2>7. ChangesSince(b) /\ EventsSince(b) /\ RowSince(b) /\ seen[b] <= seen'[b]
    BY <1>1, <2>2, HereOnce, RowKeptOnce, SeenStays DEF Here
  <2>8. OnceKept(b)
    BY <1>1, <2>2, <2>6, <2>7, OnceStays
  <2> QED BY <2>2, <2>8, OnlyOnce
<1> QED BY <1>2, <1>3

LEMMA EndRowOnce ==
  ASSUME LifeInv, LifeInv', OnceTrue, NEW s \in SubSlots, EndRow(s)
  PROVE  \A a \in SubIds : OnceKept(a)
<1>0. PICK k : k = subCall[s]
  OBVIOUS
<1> DEFINE b == k.sub
<1>1. b \in SubIds /\ Only(b) /\ Closes(b, k)
  BY <1>0, EndRowSteps
<1> HIDE DEF b
<1>2. /\ CallsOf(b)' \subseteq CallsOf(b) /\ UNCHANGED welcomed /\ Here(b)
      /\ "overlap" \notin subFault => CallsOf(b)' = {}
      /\ ~Incomplete(b)'
  BY <1>1 DEF Closes, CallEnds, Incomplete
<1>3. CallsSince(b) /\ RowSince(b)
  BY <1>2 DEF CallsSince, RowSince
<1>4. ChangesSince(b) /\ EventsSince(b) /\ seen[b] <= seen'[b]
  BY <1>1, <1>2, HereOnce, SeenStays DEF Here
<1>5. OnceKept(b)
  BY <1>1, <1>2, <1>3, <1>4, OnceStays
<1> QED BY <1>1, <1>5, OnlyOnce

LEMMA NobodyOnce ==
  ASSUME LifeInv, OnceTrue, NEW s \in SubSlots, NEW record,
         \/ subCall' = [subCall EXCEPT ![s] = record]
         \/ UNCHANGED subCall,
         subCall[s] = NoSubCall \/ subCall[s].sub = NoRow,
         record = NoSubCall \/ record.sub = NoRow,
         UNCHANGED <<billed, subRow, notices, seen, welcomed, farewell>>
  PROVE  \A a \in SubIds : OnceKept(a)
  BY NobodysSteps, RestsOnce

LEMMA StopOnce ==
  ASSUME LifeInv, LifeInv', OnceTrue, NEW s \in SubSlots, SubDies(s)
  PROVE  \A a \in SubIds : OnceKept(a)
<1>0. PICK k : k = subCall[s]
  OBVIOUS
<1>1. /\ EndSub(s) /\ k # NoSubCall
      /\ UNCHANGED <<billed, subRow, notices, seen, welcomed, farewell>>
  BY <1>0 DEF SubDies, KeepStripe, KeepMails
<1>2. CASE k.sub \in SubIds
  BY <1>0, <1>1, <1>2, DropsOnce
<1>3. CASE k.sub \notin SubIds
  <2>1. k.sub = NoRow
    <3>1. k \in SubCalls
      BY <1>0 DEF LifeInv, SubInv, CallsOK
    <3>2. k \notin [pc : {"idle"}]
      BY <1>1 DEF NoSubCall
    <3> QED BY <1>3, <3>1, <3>2 DEF SubCalls
  <2> QED BY <1>0, <1>1, <2>1, NobodyOnce DEF EndSub
<1> QED BY <1>2, <1>3

(* createSubscription begins; the clock.                                    *)
LEMMA UserOnce ==
  ASSUME LifeInv, OnceTrue, NEW s \in SubSlots,
         ReadUser(s) \/ \E c \in CustomerIds : CreateCustomer(s, c)
  PROVE  \A a \in SubIds : OnceKept(a)
<1>1. CASE ReadUser(s)
  <2> DEFINE record == [pc |-> IF customer = NoCustomer THEN "customer" ELSE "stripe",
                        sub |-> NoRow, owner |-> customer]
  <2>1. /\ subCall[s] = NoSubCall /\ subCall' = [subCall EXCEPT ![s] = record]
        /\ UNCHANGED <<billed, subRow, notices, seen, welcomed, farewell>>
    BY <1>1 DEF ReadUser, BeginSub, KeepStripe, KeepMails
  <2>2. record.sub = NoRow
    OBVIOUS
  <2> HIDE DEF record
  <2> QED BY <2>1, <2>2, NobodyOnce
<1>2. ASSUME NEW c \in CustomerIds, CreateCustomer(s, c)
      PROVE  \A a \in SubIds : OnceKept(a)
  <2> DEFINE record == [subCall[s] EXCEPT !.pc = "stripe", !.owner = c]
  <2>1. /\ subCall[s].pc = "customer" /\ subCall' = [subCall EXCEPT ![s] = record]
        /\ UNCHANGED <<billed, subRow, notices, seen, welcomed, farewell>>
    BY <1>2 DEF CreateCustomer, SubAt, StepSub, KeepStripe, KeepMails
  <2>2. subCall[s] \in [pc : {"customer", "stripe"}, sub : {NoRow},
                        owner : CustomerIds \cup {NoCustomer}]
    BY <2>1, CallKinds DEF LifeInv
  <2>3. subCall[s].sub = NoRow /\ record.sub = NoRow
    BY <2>2
  <2> HIDE DEF record
  <2> QED BY <2>1, <2>3, NobodyOnce
<1> QED BY <1>1, <1>2

LEMMA ClockOnce ==
  ASSUME LifeInv, LifeInv', OnceTrue,
         SweepIncomplete \/ \E b \in SubIds : Age(b)
  PROVE  \A a \in SubIds : OnceKept(a)
<1>1. ASSUME NEW b \in SubIds, Age(b)
      PROVE  \A a \in SubIds : OnceKept(a)
  <2>1. /\ Here(b) /\ CallsOf(b)' = CallsOf(b) /\ UNCHANGED welcomed
        /\ Only(b) /\ Incomplete(b) /\ subRow'[b] = [subRow[b] EXCEPT !.old = TRUE]
    BY <1>1, AgeSteps
  <2>2. subRow[b] \in Row
    BY <2>1, Frame DEF Incomplete
  <2>3. subRow'[b].status = "incomplete"
    BY <2>1, <2>2 DEF Row, Incomplete
  <2>4. RowSince(b)
    BY <2>1, <2>3 DEF RowSince, NotBegun, Incomplete, FromIncomplete
  <2>5. ChangesSince(b) /\ EventsSince(b) /\ CallsSince(b) /\ seen[b] <= seen'[b]
    BY <2>1, HereOnce, SeenStays DEF Here, CallsSince
  <2>6. OnceKept(b)
    BY <2>1, <2>4, <2>5, OnceStays
  <2> QED BY <2>1, <2>6, OnlyOnce
<1>2. ASSUME SweepIncomplete, NEW b \in SubIds
      PROVE  OnceKept(b)
  <2>1. /\ Here(b) /\ CallsOf(b)' = CallsOf(b) /\ UNCHANGED welcomed
        /\ subRow'[b] = IF Stale(b) THEN NoRow ELSE subRow[b]
    BY <1>2, SweepSteps
  <2>2. RowSince(b)
    BY <2>1 DEF RowSince, NotBegun, Incomplete, FromIncomplete
  <2>3. ChangesSince(b) /\ EventsSince(b) /\ CallsSince(b) /\ seen[b] <= seen'[b]
    BY <2>1, HereOnce, SeenStays DEF Here, CallsSince
  <2> QED BY <2>1, <2>2, <2>3, OnceStays
<1> QED BY <1>1, <1>2

-----------------------------------------------------------------------------
(* Every subscription, step by step.                                        *)
LEMMA SettledOnce ==
  ASSUME LifeInv', SubSettled', NEW b \in SubIds
  PROVE  FirstWelcome(b)'
<1>1. CallsOf(b)' = {} /\ Follows(b)'
  BY DEF SubSettled, SubQuiet, CallsOf, CallsOn
<1>2. welcomed'[b] > 0 => ~Incomplete(b)'
  BY <1>1 DEF Follows
<1> QED BY <1>1, <1>2 DEF FirstWelcome

LEMMA OnceNext ==
  ASSUME LifeInv, LifeInv', OnceTrue, SubNext
  PROVE  OnceTrue'
<1>1. ASSUME NEW b \in SubIds, StripeStep(b)
      PROVE  /\ \A a \in SubIds : OnceKept(a)
             /\ \E marks : BlameSub(marks)
  BY <1>1, StripeOnce, StripeBlames DEF StripeStep
<1>2. ASSUME NEW b \in SubIds, Age(b)
      PROVE  /\ \A a \in SubIds : OnceKept(a)
             /\ \E marks : BlameSub(marks)
  BY <1>2, ClockOnce, StripeBlames
<1>3. ASSUME NEW s \in SubSlots, SubStep(s)
      PROVE  /\ \A a \in SubIds : OnceKept(a)
             /\ \E marks : BlameSub(marks)
  <2>1. CASE ReadUser(s) \/ \E c \in CustomerIds : CreateCustomer(s, c)
    BY <1>3, <2>1, UserOnce, SlotOfStep
  <2>2. CASE \E b \in SubIds : CreateSubscription(s, b)
    BY <1>3, <2>2, CreateOnce, SlotOfStep
  <2>3. CASE InsertRow(s) \/ AnswerSecret(s)
    BY <1>3, <2>3, InsertOnce, AnswerOnce, SlotOfStep
  <2>4. CASE \E b \in SubIds, op \in SubChanges : BeginChange(s, b, op)
    BY <1>3, <2>4, BeginChangeOnce, SlotOfStep
  <2>5. CASE AskStripe(s) \/ SaveChange(s)
    BY <1>3, <2>5, AskOnce, SaveChangeOnce, SlotOfStep
  <2>6. CASE \E e \in notices : BeginEvent(s, e) \/ HandleCreated(s, e)
    BY <1>3, <2>6, BeginEventOnce, HandleCreatedOnce, SlotOfStep
  <2>7. CASE ReadSync(s) \/ SaveSync(s) \/ SavePaid(s) \/ SavePastDue(s)
    BY <1>3, <2>7, ReadSyncOnce, SaveSyncOnce, SavePaidOnce, SlotOfStep
  <2>8. CASE EndRow(s) \/ SubDies(s)
    BY <1>3, <2>8, EndRowOnce, StopOnce, SlotOfStep
  <2> QED BY <1>3, <2>1, <2>2, <2>3, <2>4, <2>5, <2>6, <2>7, <2>8 DEF SubStep
<1>4. ASSUME NEW c \in CustomerIds, ReceiveCustomer(c) \/ LoseCustomer(c)
      PROVE  /\ \A a \in SubIds : OnceKept(a)
             /\ \E marks : BlameSub(marks)
  <2>1. /\ UNCHANGED <<billed, subRow, notices, seen, welcomed, farewell, subCall>>
        /\ \E marks : BlameSub(marks)
    BY <1>4 DEF ReceiveCustomer, LoseCustomer, KeepStripe, KeepMails
  <2>2. \A a \in SubIds : Rests(a)
    BY <2>1, EventsKept, CallsKept DEF Rests
  <2> QED BY <2>1, <2>2, RestsOnce
<1>5. ASSUME SweepIncomplete
      PROVE  /\ \A a \in SubIds : OnceKept(a)
             /\ \E marks : BlameSub(marks)
  BY <1>5, ClockOnce DEF SweepIncomplete
<1>6. /\ \A a \in SubIds : OnceKept(a)
      /\ \E marks : BlameSub(marks)
  BY <1>1, <1>2, <1>3, <1>4, <1>5, SubNextIs
<1>7. SubSettled' \/ subFault \subseteq subFault'
  BY <1>6, BlamedOrSettled DEF Blames
<1>8. \A b \in SubIds : FirstWelcome(b)'
  BY <1>6, <1>7, SettledOnce DEF OnceKept
<1> QED BY <1>6, <1>8 DEF OnceKept, OnceTrue

(* A step that sends a welcome mail.                                        *)
WelcomeOwes(b) ==
  /\ billed[b].paid \/ subFault \cap {"declined", "dropped"} # {}
  /\ \/ welcomed[b] = 0
     \/ "overlap" \in subFault
     \/ \E e \in notices \ notices' : e.sub = b /\ e.n < seen[b]

LEMMA BegunIsPaid ==
  ASSUME FollowInv, NEW b \in SubIds, ~Unbegun(b)
  PROVE  billed[b].paid \/ subFault \cap {"declined", "dropped"} # {}
  BY DEF FollowInv, AllTogether, Together, UntoldUnbegun, Untold

LEMMA WelcomeOfSync ==
  ASSUME FollowInv, OnceTrue, NEW s \in SubSlots, SaveSync(s),
         NEW b \in SubIds, welcomed'[b] # welcomed[b]
  PROVE  WelcomeOwes(b)
<1>0. PICK k : k = subCall[s]
  OBVIOUS
<1>1. PICK r : r = [k.copy EXCEPT !.status = Mapped(k.event.status, @),
                                  !.flag = k.event.flag]
  OBVIOUS
<1>2. /\ k.pc = "sync"
      /\ IF k.was = "incomplete" /\ r.status = "active"
         THEN Welcome(k.sub) ELSE UNCHANGED welcomed
  BY <1>0, <1>1 DEF SaveSync, SubAt
<1>3. k.copy \in Row /\ k.event \in Event /\ k.sub \in SubIds /\ k # NoSubCall
  BY <1>0, <1>2, CallKinds DEF FollowInv, LifeInv, Handling, NoSubCall
<1>4. k.was = "incomplete" /\ r.status = "active" /\ k.sub = b
  BY <1>2, <1>3 DEF Welcome, FollowInv, LifeInv, SubInv, SubTypeOK
<1>5. k \in CallsOf(b)
  BY <1>0, <1>3, <1>4, OnIt
<1>6. ~CallNotBegun(k)
  <2>1. r.status = Mapped(k.event.status, k.copy.status)
    BY <1>1, <1>3 DEF Row, Event, Mapped, RowStatus
  <2> QED BY <1>2, <1>3, <1>4, <2>1, NoRowAssumption
          DEF CallNotBegun, Handling, NotBegun, Syncs, Begun, Mapped
<1>7. ~Unbegun(b)
  BY <1>5, <1>6 DEF Unbegun
<1>8. welcomed[b] = 0 \/ "overlap" \in subFault
  <2>1. welcomed[b] \in Nat /\ HoldsIncomplete(k)
    BY <1>2, <1>4 DEF HoldsIncomplete, FollowInv, LifeInv, SubInv, SubTypeOK
  <2> QED BY <1>5, <2>1 DEF OnceTrue, FirstWelcome
<1> QED BY <1>7, <1>8, BegunIsPaid DEF WelcomeOwes

LEMMA WelcomeOfCreation ==
  ASSUME FollowInv, OnceTrue, NEW s \in SubSlots, NEW e \in notices,
         HandleCreated(s, e), NEW b \in SubIds, welcomed'[b] # welcomed[b]
  PROVE  WelcomeOwes(b)
<1>1. /\ e.kind = "created" /\ notices' = notices \ {e}
      /\ IF subRow[e.sub] # NoRow /\ subRow[e.sub].status # "incomplete"
         THEN Welcome(e.sub) ELSE UNCHANGED welcomed
  BY DEF HandleCreated
<1>2. e.sub \in SubIds
  BY HandleCreatedSteps DEF FollowInv
<1>3. e.sub = b /\ ~NotBegun(subRow[b])
  BY <1>1, <1>2 DEF Welcome, NotBegun, FollowInv, LifeInv, SubInv, SubTypeOK
<1>4. ~Unbegun(b)
  BY <1>3 DEF Unbegun
<1>5. welcomed[b] > 0 => e.n < seen[b]
  BY <1>1, <1>3 DEF OnceTrue, WordsInOrder, EventsOf
<1>6. welcomed[b] \in Nat /\ e \in notices \ notices'
  BY <1>1 DEF FollowInv, LifeInv, SubInv, SubTypeOK
<1> QED BY <1>3, <1>4, <1>5, <1>6, BegunIsPaid DEF WelcomeOwes

LEMMA WelcomeStep ==
  ASSUME FollowInv, OnceTrue, SubNext, NEW b \in SubIds,
         welcomed'[b] # welcomed[b]
  PROVE  WelcomeOwes(b)
<1>1. \A a \in SubIds : StripeStep(a) => UNCHANGED welcomed
  BY DEF StripeStep, FirstPayment, FirstDecline, GiveUpUnpaid, Renewal,
         FailedRenewal, PeriodEnd, StripeMoves, KeepMails
<1>2. \A a \in SubIds : Age(a) => UNCHANGED welcomed
  BY DEF Age, KeepMails
<1>3. \A c : ReceiveCustomer(c) \/ LoseCustomer(c) => UNCHANGED welcomed
  BY DEF ReceiveCustomer, LoseCustomer, KeepMails
<1>4. SweepIncomplete => UNCHANGED welcomed
  BY DEF SweepIncomplete, KeepMails
<1>5. ASSUME NEW s \in SubSlots, SubStep(s)
      PROVE  \/ UNCHANGED welcomed
             \/ SaveSync(s) \/ \E e \in notices : HandleCreated(s, e)
  <2>1. /\ ReadUser(s) => UNCHANGED welcomed
        /\ \A c : CreateCustomer(s, c) => UNCHANGED welcomed
        /\ \A a : CreateSubscription(s, a) => UNCHANGED welcomed
        /\ InsertRow(s) \/ AnswerSecret(s) => UNCHANGED welcomed
    BY DEF ReadUser, CreateCustomer, CreateSubscription, InsertRow, AnswerSecret,
           KeepMails
  <2>2. /\ \A a, op : BeginChange(s, a, op) => UNCHANGED welcomed
        /\ AskStripe(s) \/ SaveChange(s) => UNCHANGED welcomed
        /\ \A e : BeginEvent(s, e) => UNCHANGED welcomed
    BY DEF BeginChange, AskStripe, SaveChange, BeginEvent, KeepMails
  <2>3. /\ ReadSync(s) \/ SavePaid(s) \/ SavePastDue(s) => UNCHANGED welcomed
        /\ EndRow(s) \/ SubDies(s) => UNCHANGED welcomed
    BY DEF ReadSync, SavePaid, SavePastDue, EndRow, SubDies, KeepMails
  <2> QED BY <1>5, <2>1, <2>2, <2>3 DEF SubStep
<1>6. \E s \in SubSlots : SaveSync(s) \/ \E e \in notices : HandleCreated(s, e)
  BY <1>1, <1>2, <1>3, <1>4, <1>5, SubNextIs DEF FollowInv
<1> QED BY <1>6, WelcomeOfSync, WelcomeOfCreation

(* A welcome mail goes to a subscription that was paid, or whose first      *)
(* payment was declined or that was cancelled unpaid; and a second one goes *)
(* only when two calls on the subscription overlapped or its creation is    *)
(* notified after a later event.                                            *)
THEOREM WelcomesGoOnce == SubSpec => WelcomedOnce
<1>1. SubInit => FollowInv /\ OnceTrue
  <2>1. SubInit => OnceTrue
    BY DEF SubInit, OnceTrue, CountsFit, WordsInOrder, FirstWelcome, EventsOf,
           CallsOf, CallsOn, SubBusy
  <2> QED BY <2>1, FollowInit
<1>2. FollowInv /\ [SubNext]_subVars => FollowInv'
  <2>1. ASSUME FollowInv, SubNext
        PROVE  FollowInv'
    BY <2>1, LifeNext, TogetherNext, SubCustomerNext DEF FollowInv
  <2> QED BY <2>1, FollowStutters
<1>3. FollowInv /\ OnceTrue /\ [SubNext]_subVars => OnceTrue'
  <2>1. ASSUME FollowInv, OnceTrue, SubNext
        PROVE  OnceTrue'
    BY <1>2, <2>1, OnceNext DEF FollowInv
  <2>2. ASSUME FollowInv, OnceTrue, UNCHANGED subVars
        PROVE  OnceTrue'
    <3>1. \A b \in SubIds : Rests(b)
      BY <2>2, EventsKept, CallsKept DEF subVars, Rests
    <3> QED BY <2>2, <3>1, RestsOnce DEF OnceKept, OnceTrue, subVars
  <2> QED BY <2>1, <2>2
<1>4. FollowInv /\ OnceTrue /\ [SubNext]_subVars =>
        [\A b \in SubIds : welcomed'[b] # welcomed[b]
           => /\ billed[b].paid \/ subFault \cap {"declined", "dropped"} # {}
              /\ \/ welcomed[b] = 0
                 \/ "overlap" \in subFault
                 \/ \E e \in notices \ notices' : e.sub = b /\ e.n < seen[b]
        ]_subVars
  BY WelcomeStep DEF WelcomeOwes
<1> QED BY <1>1, <1>2, <1>3, <1>4, PTL DEF SubSpec, WelcomedOnce

-----------------------------------------------------------------------------
(* The webhook.                                                             *)
(* The inductive invariant.                                                 *)

HookRecord == [pc : HookPC, answer : Answers \cup {NoAnswer},
               issued : SUBSET Products, mails : SUBSET Mails]

(* Past the fetch the order is known, and only the handled types get here.  *)
Fetched == {"fetched", "generate", "issued", "invoiced"}

HookOK(d) ==
  /\ hook[d].pc \in Fetched =>
       EventOf[d].type = "succeeded" /\ hook[d].answer \in Answers
  /\ hook[d].pc = "emitted" => EventOf[d].type # "other"
  /\ hook[d].pc = "emitted" /\ EventOf[d].type = "succeeded" =>
       hook[d].answer \in Answers
  /\ hook[d].answer \in Answers => hook[d].answer.order = OrderOf[EventOf[d]]

HooksOK == \A d \in Deliveries : HookOK(d)

(* An event is in the hands of one activation at most.                      *)
SoleHolder ==
  \A d1, d2 \in Deliveries :
    EventOf[d1] = EventOf[d2] /\ hook[d1].pc \in Holding /\ hook[d2].pc \in Holding => d1 = d2

(* Licenses were issued by the activation they name, for its order, and an  *)
(* activation past the generation finds its order licensed.                 *)
Issued == {"issued", "invoiced", "emitted", "done"}

LicensesOK ==
  /\ \A l \in licenses :
       /\ hook[l[3]].pc \in Issued \cup {"dead"}
       /\ EventOf[l[3]].type = "succeeded" /\ l[1] = OrderOf[EventOf[l[3]]]
  /\ \A d \in Deliveries :
       hook[d].pc \in Issued /\ EventOf[d].type = "succeeded" /\ LicenseItems(d) # {}
         => LicensesOf(hook[d].answer.order) # {}

HookInv == WebhookTypeOK /\ HooksOK /\ ClaimsAreHeld /\ SoleHolder /\ LicensesOK

-----------------------------------------------------------------------------
(* What a step does to the claim of an event.                               *)

Others(d) == \A x \in Deliveries : x # d => hook'[x] = hook[x]

Keeps(d) ==
  /\ Others(d) /\ claims' = claims
  /\ hook'[d].pc \in Holding <=> hook[d].pc \in Holding
  /\ hook'[d].pc = "done" <=> hook[d].pc = "done"

TakesClaim(d) ==
  /\ Others(d) /\ EventOf[d] \notin claims /\ claims' = claims \cup {EventOf[d]}
  /\ hook[d].pc = "sent" /\ hook'[d].pc = "claimed"

Returns(d) ==
  /\ Others(d) /\ claims' = claims \ {EventOf[d]}
  /\ hook[d].pc = "releasing" /\ hook'[d].pc = "released"

Settles(d) ==
  /\ Others(d) /\ claims' = claims
  /\ hook[d].pc \in {"claimed", "emitted"} /\ hook'[d].pc = "done"

ClaimMove(d) == Keeps(d) \/ TakesClaim(d) \/ Returns(d) \/ Settles(d)

(* One part of the type invariant per variable.                             *)
LEMMA HookTypeParts ==
  WebhookTypeOK <=> /\ claims \subseteq Events
                    /\ licenses \subseteq Orders \X Products \X Deliveries
                    /\ invoices \subseteq Orders \X Deliveries
                    /\ hook \in [Deliveries -> HookRecord]
BY DEF WebhookTypeOK, HookRecord

LEMMA HookMoves ==
  ASSUME WebhookTypeOK, NEW d \in Deliveries, SendHook(d) \/ HookStep(d)
  PROVE  ClaimMove(d)
<1> USE DEF Holding, Processing
<1>t. hook \in [Deliveries -> HookRecord] /\ hook[d] \in HookRecord
  BY HookTypeParts
<1>o. Others(d)
  BY <1>t DEF Others, HookStep, LocalHookStep, SendHook, TryClaim, FetchOrder,
         CheckLicenses, GenerateLicenses, ResolveInvoice, EmitVerdict, Notify,
         IgnoreEvent, ReleaseClaim, Throw, Die
<1>1. ASSUME SendHook(d) PROVE Keeps(d)
  BY <1>t, <1>o, <1>1 DEF SendHook, HookRecord, Keeps
<1>2. ASSUME TryClaim(d) PROVE Keeps(d) \/ TakesClaim(d)
  <2>1. CASE EventOf[d] \in claims
    <3>1. claims' = claims
      BY <1>2, <2>1 DEF TryClaim
    <3> QED
      BY <1>t, <1>o, <1>2, <2>1, <3>1 DEF TryClaim, HookRecord, Keeps
  <2>2. CASE EventOf[d] \notin claims
    BY <1>t, <1>o, <1>2, <2>2 DEF TryClaim, HookRecord, TakesClaim
  <2> QED
    BY <2>1, <2>2
<1>3. ASSUME NEW a \in AnswersFor(d), FetchOrder(d, a) PROVE Keeps(d)
  BY <1>t, <1>o, <1>3 DEF FetchOrder, HookRecord, Keeps
<1>4. ASSUME CheckLicenses(d) PROVE Keeps(d)
  BY <1>t, <1>o, <1>4 DEF CheckLicenses, HookRecord, Keeps
<1>5. ASSUME GenerateLicenses(d) PROVE Keeps(d)
  BY <1>t, <1>o, <1>5 DEF GenerateLicenses, HookRecord, Keeps
<1>6. ASSUME ResolveInvoice(d) PROVE Keeps(d)
  BY <1>t, <1>o, <1>6 DEF ResolveInvoice, HookRecord, Keeps
<1>7. ASSUME EmitVerdict(d) PROVE Keeps(d)
  BY <1>t, <1>o, <1>7 DEF EmitVerdict, HookRecord, Keeps
<1>8. ASSUME NEW a \in AnswersFor(d), Notify(d, a) PROVE Settles(d)
  BY <1>t, <1>o, <1>8 DEF Notify, HookRecord, Settles
<1>9. ASSUME IgnoreEvent(d) PROVE Settles(d)
  BY <1>t, <1>o, <1>9 DEF IgnoreEvent, HookRecord, Settles
<1>10. ASSUME ReleaseClaim(d) PROVE Returns(d)
  BY <1>t, <1>o, <1>10 DEF ReleaseClaim, HookRecord, Returns
<1>11. ASSUME Throw(d) PROVE Keeps(d)
  BY <1>t, <1>o, <1>11 DEF Throw, HookRecord, Keeps
<1>12. ASSUME Die(d) PROVE Keeps(d)
  BY <1>t, <1>o, <1>12 DEF Die, HookRecord, Keeps
<1> QED
  BY <1>1, <1>2, <1>3, <1>4, <1>5, <1>6, <1>7, <1>8, <1>9, <1>10, <1>11, <1>12
     DEF HookStep, LocalHookStep, ClaimMove

(* Who holds an event after the step.                                       *)
LEMMA SoleHolderStep ==
  ASSUME ClaimsAreHeld, SoleHolder, NEW d \in Deliveries, ClaimMove(d)
  PROVE  SoleHolder'
<1> SUFFICES ASSUME NEW d1 \in Deliveries, NEW d2 \in Deliveries,
                    EventOf[d1] = EventOf[d2],
                    hook'[d1].pc \in Holding, hook'[d2].pc \in Holding
             PROVE  d1 = d2
  BY DEF SoleHolder
<1>1. CASE TakesClaim(d)
  <2>1. \A x \in Deliveries : EventOf[x] = EventOf[d] => hook[x].pc \notin Holding
    BY <1>1, EventOfAssumption DEF TakesClaim, ClaimsAreHeld, Holders, Holding
  <2> QED
    BY <1>1, <2>1 DEF TakesClaim, Others, SoleHolder
<1>2. CASE Keeps(d) \/ Returns(d) \/ Settles(d)
  <2>1. \A x \in Deliveries : hook'[x].pc \in Holding => hook[x].pc \in Holding
    BY <1>2 DEF Keeps, Returns, Settles, Others, Holding, Processing
  <2> QED
    BY <2>1 DEF SoleHolder
<1> QED
  BY <1>1, <1>2 DEF ClaimMove

LEMMA ClaimsStep ==
  ASSUME ClaimsAreHeld, SoleHolder, claims \subseteq Events,
         NEW d \in Deliveries, ClaimMove(d)
  PROVE  ClaimsAreHeld'
<1> DEFINE HeldIn(e) == \E x \in Deliveries : EventOf[x] = e /\ hook[x].pc \in Holding
           HeldNext(e) == \E x \in Deliveries : EventOf[x] = e /\ hook'[x].pc \in Holding
<1>1. \A e \in Events : e \in claims <=> HeldIn(e)
  BY DEF ClaimsAreHeld, Holders, Holding
<1>2. SUFFICES claims' \subseteq Events /\ \A e \in Events : e \in claims' <=> HeldNext(e)
  BY DEF ClaimsAreHeld, Holders, Holding
<1>3. claims' \subseteq Events
  BY EventOfAssumption DEF ClaimMove, Keeps, TakesClaim, Returns, Settles
<1>4. CASE Keeps(d)
  <2>1. \A x \in Deliveries : hook'[x].pc \in Holding <=> hook[x].pc \in Holding
    BY <1>4 DEF Keeps, Others
  <2> QED
    BY <1>1, <1>3, <1>4, <2>1 DEF Keeps
<1>5. CASE Settles(d)
  <2>1. \A x \in Deliveries : hook'[x].pc \in Holding <=> hook[x].pc \in Holding
    BY <1>5 DEF Settles, Others, Holding, Processing
  <2> QED
    BY <1>1, <1>3, <1>5, <2>1 DEF Settles
<1>6. CASE TakesClaim(d)
  <2>1. \A x \in Deliveries : hook'[x].pc \in Holding <=> x = d \/ hook[x].pc \in Holding
    BY <1>6 DEF TakesClaim, Others, Holding, Processing
  <2> QED
    BY <1>1, <1>3, <1>6, <2>1 DEF TakesClaim
<1>7. CASE Returns(d)
  <2>1. \A x \in Deliveries : hook'[x].pc \in Holding <=> x # d /\ hook[x].pc \in Holding
    BY <1>7 DEF Returns, Others, Holding, Processing
  <2>2. \A x \in Deliveries : EventOf[x] = EventOf[d] /\ hook[x].pc \in Holding => x = d
    BY <1>7 DEF Returns, SoleHolder, Holding, Processing
  <2> QED
    BY <1>1, <1>3, <1>7, <2>1, <2>2 DEF Returns
<1> QED
  BY <1>4, <1>5, <1>6, <1>7 DEF ClaimMove

-----------------------------------------------------------------------------
(* The type and what the activations know.                                  *)

LEMMA AnswersType ==
  ASSUME NEW d \in Deliveries, NEW a \in AnswersFor(d), a # NoAnswer
  PROVE  a \in Answers /\ a.order = OrderOf[EventOf[d]]
BY EventOfAssumption, OrderOfAssumption DEF AnswersFor, Answers

LEMMA KindType ==
  ASSUME NEW d \in Deliveries, EventOf[d].type # "other"
  PROVE  KindOf(d) \in Mails
BY EventOfAssumption, EventsAssumption DEF KindOf, Mails, EventTypes

LEMMA HooksStep ==
  ASSUME WebhookTypeOK, HooksOK, NEW d \in Deliveries, SendHook(d) \/ HookStep(d)
  PROVE  WebhookTypeOK' /\ HooksOK'
<1>t. /\ claims \subseteq Events
      /\ licenses \subseteq Orders \X Products \X Deliveries
      /\ invoices \subseteq Orders \X Deliveries
      /\ hook \in [Deliveries -> HookRecord]
      /\ hook[d] \in HookRecord /\ HookOK(d)
  BY HookTypeParts DEF HooksOK
<1>e. EventOf[d] \in Events
  BY EventOfAssumption
<1> DEFINE HookKept ==
      /\ claims' \subseteq Events
      /\ licenses' \subseteq Orders \X Products \X Deliveries
      /\ invoices' \subseteq Orders \X Deliveries
    Wrote == \E r \in HookRecord :
      /\ hook' = [hook EXCEPT ![d] = r]
      /\ r.pc \in Fetched => EventOf[d].type = "succeeded" /\ r.answer \in Answers
      /\ r.pc = "emitted" => EventOf[d].type # "other"
      /\ r.pc = "emitted" /\ EventOf[d].type = "succeeded" => r.answer \in Answers
      /\ r.answer \in Answers => r.answer.order = OrderOf[EventOf[d]]
<1> USE DEF HookPC, Fetched
<1>1. ASSUME SendHook(d) PROVE HookKept /\ Wrote
  <2> DEFINE r == [hook[d] EXCEPT !.pc = "sent"]
  <2>1. r \in HookRecord /\ hook' = [hook EXCEPT ![d] = r]
    BY <1>t, <1>1 DEF SendHook, HookRecord
  <2> QED
    BY <1>t, <1>1, <2>1 DEF SendHook, HookOK, HookRecord
<1>2. ASSUME TryClaim(d) PROVE HookKept /\ Wrote
  <2> DEFINE r == [hook[d] EXCEPT !.pc =
                     IF EventOf[d] \in claims THEN "skipped" ELSE "claimed"]
  <2>1. r \in HookRecord /\ hook' = [hook EXCEPT ![d] = r]
    BY <1>t, <1>2 DEF TryClaim, HookRecord
  <2> QED
    BY <1>t, <1>e, <1>2, <2>1 DEF TryClaim, HookOK, HookRecord
<1>3. ASSUME NEW a \in AnswersFor(d), FetchOrder(d, a) PROVE HookKept /\ Wrote
  <2>1. CASE a = NoAnswer
    <3> DEFINE r == [hook[d] EXCEPT !.pc = "releasing"]
    <3>1. r \in HookRecord /\ hook' = [hook EXCEPT ![d] = r]
      BY <1>t, <1>3, <2>1 DEF FetchOrder, HookRecord
    <3> QED
      BY <1>t, <1>3, <3>1 DEF FetchOrder, HookOK, HookRecord
  <2>2. CASE a # NoAnswer
    <3> DEFINE r == [hook[d] EXCEPT !.pc = "fetched", !.answer = a]
    <3>1. a \in Answers /\ a.order = OrderOf[EventOf[d]]
      BY <2>2, AnswersType
    <3>2. r \in HookRecord /\ hook' = [hook EXCEPT ![d] = r]
      BY <1>t, <1>3, <2>2, <3>1 DEF FetchOrder, HookRecord
    <3> QED
      BY <1>t, <1>3, <3>1, <3>2 DEF FetchOrder, HookOK, HookRecord
  <2> QED
    BY <2>1, <2>2
<1>4. ASSUME CheckLicenses(d) PROVE HookKept /\ Wrote
  <2> DEFINE new == IF LicenseItems(d) = {} \/ LicensesOf(hook[d].answer.order) # {}
                      THEN "issued" ELSE "generate"
             r == [hook[d] EXCEPT !.pc = new]
  <2>1. new \in {"issued", "generate"}
    OBVIOUS
  <2>2. hook' = [hook EXCEPT ![d].pc = new] /\ hook[d].pc = "fetched"
        /\ UNCHANGED <<claims, licenses, invoices>>
    BY <1>4 DEF CheckLicenses
  <2> HIDE DEF new
  <2>3. r \in HookRecord /\ hook' = [hook EXCEPT ![d] = r]
    BY <1>t, <2>1, <2>2 DEF HookRecord
  <2> QED
    BY <1>t, <2>1, <2>2, <2>3 DEF HookOK, HookRecord
<1>5. ASSUME GenerateLicenses(d) PROVE HookKept /\ Wrote
  <2> DEFINE r == [hook[d] EXCEPT !.pc = "issued", !.issued = LicenseItems(d)]
  <2>1. LicenseItems(d) \subseteq Products
    BY LicenseAssumption DEF LicenseItems
  <2>2. hook[d].answer.order \in Orders
    BY <1>t, <1>5 DEF GenerateLicenses, HookOK, Answers
  <2>3. licenses' \subseteq Orders \X Products \X Deliveries
    BY <1>t, <1>5, <2>1, <2>2 DEF GenerateLicenses
  <2>4. r \in HookRecord /\ hook' = [hook EXCEPT ![d] = r]
    BY <1>t, <1>5, <2>1 DEF GenerateLicenses, HookRecord
  <2> QED
    BY <1>t, <1>5, <2>3, <2>4 DEF GenerateLicenses, HookOK, HookRecord
<1>6. ASSUME ResolveInvoice(d) PROVE HookKept /\ Wrote
  <2> DEFINE r == [hook[d] EXCEPT !.pc = "invoiced"]
  <2>1. hook[d].answer.order \in Orders
    BY <1>t, <1>6 DEF ResolveInvoice, HookOK, Answers
  <2>2. r \in HookRecord /\ hook' = [hook EXCEPT ![d] = r]
    BY <1>t, <1>6 DEF ResolveInvoice, HookRecord
  <2>3. invoices' \subseteq Orders \X Deliveries
    BY <1>t, <1>6, <2>1 DEF ResolveInvoice
  <2>4. HookKept
    BY <1>t, <1>6, <2>3 DEF ResolveInvoice
  <2> QED
    BY <1>t, <1>6, <2>2, <2>4 DEF ResolveInvoice, HookOK, HookRecord
<1>7. ASSUME EmitVerdict(d) PROVE HookKept /\ Wrote
  <2> DEFINE r == [hook[d] EXCEPT !.pc = "emitted"]
  <2>1. r \in HookRecord /\ hook' = [hook EXCEPT ![d] = r]
    BY <1>t, <1>7 DEF EmitVerdict, HookRecord
  <2> QED
    BY <1>t, <1>7, <2>1 DEF EmitVerdict, HookOK, HookRecord
<1>8. ASSUME NEW a \in AnswersFor(d), Notify(d, a) PROVE HookKept /\ Wrote
  <2> DEFINE m == IF a = NoAnswer THEN {}
                  ELSE {KindOf(d)} \cup IF hook[d].issued = {} THEN {} ELSE {"licenses"}
             r == [hook[d] EXCEPT !.pc = "done", !.mails = m]
  <2>1. m \subseteq Mails
    <3>1. KindOf(d) \in Mails
      BY <1>t, <1>8, KindType DEF Notify, HookOK
    <3> QED
      BY <3>1 DEF Mails
  <2>2. hook' = [hook EXCEPT ![d].pc = "done", ![d].mails = m]
        /\ UNCHANGED <<claims, licenses, invoices>>
    BY <1>8 DEF Notify
  <2> HIDE DEF m
  <2>3. r \in HookRecord /\ hook' = [hook EXCEPT ![d] = r]
    BY <1>t, <2>1, <2>2 DEF HookRecord
  <2> QED
    BY <1>t, <2>2, <2>3 DEF HookOK, HookRecord
<1>9. ASSUME IgnoreEvent(d) PROVE HookKept /\ Wrote
  <2> DEFINE r == [hook[d] EXCEPT !.pc = "done"]
  <2>1. r \in HookRecord /\ hook' = [hook EXCEPT ![d] = r]
    BY <1>t, <1>9 DEF IgnoreEvent, HookRecord
  <2> QED
    BY <1>t, <1>9, <2>1 DEF IgnoreEvent, HookOK, HookRecord
<1>10. ASSUME ReleaseClaim(d) PROVE HookKept /\ Wrote
  <2> DEFINE r == [hook[d] EXCEPT !.pc = "released"]
  <2>1. r \in HookRecord /\ hook' = [hook EXCEPT ![d] = r]
    BY <1>t, <1>10 DEF ReleaseClaim, HookRecord
  <2> QED
    BY <1>t, <1>10, <2>1 DEF ReleaseClaim, HookOK, HookRecord
<1>11. ASSUME Throw(d) PROVE HookKept /\ Wrote
  <2> DEFINE r == [hook[d] EXCEPT !.pc =
                     IF hook[d].pc = "sent" THEN "failed" ELSE "releasing"]
  <2>1. r \in HookRecord /\ hook' = [hook EXCEPT ![d] = r]
    BY <1>t, <1>11 DEF Throw, HookRecord
  <2> QED
    BY <1>t, <1>11, <2>1 DEF Throw, HookOK, HookRecord
<1>12. ASSUME Die(d) PROVE HookKept /\ Wrote
  <2> DEFINE r == [hook[d] EXCEPT !.pc =
                     IF hook[d].pc = "sent" THEN "failed" ELSE "dead"]
  <2>1. r \in HookRecord /\ hook' = [hook EXCEPT ![d] = r]
    BY <1>t, <1>12 DEF Die, HookRecord
  <2> QED
    BY <1>t, <1>12, <2>1 DEF Die, HookOK, HookRecord
<1>13. HookKept /\ Wrote
  BY <1>1, <1>2, <1>3, <1>4, <1>5, <1>6, <1>7, <1>8, <1>9, <1>10, <1>11, <1>12
     DEF HookStep, LocalHookStep
<1>14. PICK r \in HookRecord :
          /\ hook' = [hook EXCEPT ![d] = r]
          /\ r.pc \in Fetched => EventOf[d].type = "succeeded" /\ r.answer \in Answers
          /\ r.pc = "emitted" => EventOf[d].type # "other"
          /\ r.pc = "emitted" /\ EventOf[d].type = "succeeded" => r.answer \in Answers
          /\ r.answer \in Answers => r.answer.order = OrderOf[EventOf[d]]
  BY <1>13
<1>15. hook' \in [Deliveries -> HookRecord]
  BY <1>t, <1>14
<1>16. \A x \in Deliveries : hook'[x] = IF x = d THEN r ELSE hook[x]
  BY <1>t, <1>14
<1>17. HooksOK'
  BY <1>14, <1>16 DEF HooksOK, HookOK
<1>18. WebhookTypeOK'
  BY <1>13, <1>15 DEF WebhookTypeOK, HookRecord
<1> QED
  BY <1>17, <1>18

-----------------------------------------------------------------------------
(* Licenses.                                                                *)

(* A step adds licenses only where generateForOrder does.                   *)
LEMMA LicensesGrow ==
  ASSUME NEW d \in Deliveries, SendHook(d) \/ HookStep(d)
  PROVE  \/ licenses' = licenses
         \/ GenerateLicenses(d)
BY DEF HookStep, LocalHookStep, SendHook, TryClaim, FetchOrder, CheckLicenses,
       ResolveInvoice, EmitVerdict, Notify, IgnoreEvent, ReleaseClaim, Throw, Die

(* How an activation comes to count as having issued its licenses.          *)
LEMMA IssuedMoves ==
  ASSUME WebhookTypeOK, HooksOK, NEW d \in Deliveries, SendHook(d) \/ HookStep(d)
  PROVE  /\ hook[d].pc \in Issued \cup {"dead"} => hook'[d].pc \in Issued \cup {"dead"}
         /\ hook'[d].pc \in Issued /\ EventOf[d].type = "succeeded" =>
              \/ hook[d].pc \in Issued /\ hook'[d].answer = hook[d].answer
              \/ CheckLicenses(d) /\ hook'[d].answer = hook[d].answer
              \/ GenerateLicenses(d) /\ hook'[d].answer = hook[d].answer
<1>t. hook \in [Deliveries -> HookRecord] /\ hook[d] \in HookRecord
  BY HookTypeParts
<1> USE DEF Issued
<1> DEFINE HookKept ==
      /\ hook[d].pc \in Issued \cup {"dead"} => hook'[d].pc \in Issued \cup {"dead"}
      /\ hook'[d].pc \in Issued /\ EventOf[d].type = "succeeded" =>
              \/ hook[d].pc \in Issued /\ hook'[d].answer = hook[d].answer
              \/ CheckLicenses(d) /\ hook'[d].answer = hook[d].answer
              \/ GenerateLicenses(d) /\ hook'[d].answer = hook[d].answer
<1>1. ASSUME SendHook(d) PROVE HookKept
  BY <1>t, <1>1 DEF SendHook, HookRecord
<1>2. ASSUME TryClaim(d) PROVE HookKept
  BY <1>t, <1>2 DEF TryClaim, HookRecord
<1>3. ASSUME NEW a \in AnswersFor(d), FetchOrder(d, a) PROVE HookKept
  BY <1>t, <1>3 DEF FetchOrder, HookRecord
<1>4. ASSUME CheckLicenses(d) PROVE HookKept
  <2>1. hook[d].pc = "fetched" /\ hook'[d].answer = hook[d].answer
    BY <1>t, <1>4 DEF CheckLicenses, HookRecord
  <2> QED
    BY <1>4, <2>1
<1>5. ASSUME GenerateLicenses(d) PROVE HookKept
  <2>1. hook[d].pc = "generate" /\ hook'[d].answer = hook[d].answer
    BY <1>t, <1>5 DEF GenerateLicenses, HookRecord
  <2> QED
    BY <1>5, <2>1
<1>6. ASSUME ResolveInvoice(d) PROVE HookKept
  BY <1>t, <1>6 DEF ResolveInvoice, HookRecord
<1>7. ASSUME EmitVerdict(d) PROVE HookKept
  BY <1>t, <1>7 DEF EmitVerdict, HookRecord
<1>8. ASSUME NEW a \in AnswersFor(d), Notify(d, a) PROVE HookKept
  BY <1>t, <1>8 DEF Notify, HookRecord
<1>9. ASSUME IgnoreEvent(d) PROVE HookKept
  BY <1>t, <1>9 DEF IgnoreEvent, HookRecord
<1>10. ASSUME ReleaseClaim(d) PROVE HookKept
  BY <1>t, <1>10 DEF ReleaseClaim, HookRecord
<1>11. ASSUME Throw(d) PROVE HookKept
  BY <1>t, <1>11 DEF Throw, HookRecord
<1>12. ASSUME Die(d) PROVE HookKept
  BY <1>t, <1>12 DEF Die, HookRecord, Processing
<1> QED
  BY <1>1, <1>2, <1>3, <1>4, <1>5, <1>6, <1>7, <1>8, <1>9, <1>10, <1>11, <1>12
     DEF HookStep, LocalHookStep

LEMMA LicensesStep ==
  ASSUME WebhookTypeOK, HooksOK, HooksOK', LicensesOK,
         NEW d \in Deliveries, ClaimMove(d), SendHook(d) \/ HookStep(d)
  PROVE  LicensesOK'
<1>t. /\ licenses \subseteq Orders \X Products \X Deliveries
      /\ hook \in [Deliveries -> HookRecord] /\ hook[d] \in HookRecord
  BY HookTypeParts
<1>o. \A x \in Deliveries : x # d => hook'[x] = hook[x]
  BY DEF ClaimMove, Keeps, TakesClaim, Returns, Settles, Others
<1>m. licenses \subseteq licenses'
  BY LicensesGrow DEF GenerateLicenses
<1>1. ASSUME NEW l \in licenses'
      PROVE  /\ hook'[l[3]].pc \in Issued \cup {"dead"}
             /\ EventOf[l[3]].type = "succeeded" /\ l[1] = OrderOf[EventOf[l[3]]]
  <2>1. CASE l \in licenses
    <3>1. /\ hook[l[3]].pc \in Issued \cup {"dead"} /\ l[3] \in Deliveries
          /\ EventOf[l[3]].type = "succeeded" /\ l[1] = OrderOf[EventOf[l[3]]]
      BY <1>t, <2>1 DEF LicensesOK
    <3>2. hook'[l[3]].pc \in Issued \cup {"dead"}
      BY <1>o, <3>1, IssuedMoves
    <3> QED
      BY <3>1, <3>2
  <2>2. CASE l \notin licenses
    <3>1. GenerateLicenses(d)
      BY <1>1, <2>2, LicensesGrow
    <3>2. PICK p \in LicenseItems(d) : l = <<hook[d].answer.order, p, d>>
      BY <1>1, <2>2, <3>1 DEF GenerateLicenses
    <3>3. EventOf[d].type = "succeeded" /\ hook[d].answer.order = OrderOf[EventOf[d]]
      BY <3>1 DEF GenerateLicenses, HooksOK, HookOK, Fetched
    <3>4. hook'[d].pc = "issued"
      BY <1>t, <3>1 DEF GenerateLicenses, HookRecord
    <3> QED
      BY <3>2, <3>3, <3>4 DEF Issued
  <2> QED
    BY <2>1, <2>2
<1> DEFINE Items(a) == a.items \cap LicenseProducts
           Licensed(a) == \E l \in licenses : l[1] = a.order
           LicensedNext(a) == \E l \in licenses' : l[1] = a.order
<1>2. ASSUME NEW x \in Deliveries, hook'[x].pc \in Issued,
             EventOf[x].type = "succeeded", Items(hook'[x].answer) # {}
      PROVE  LicensedNext(hook'[x].answer)
  <2>1. CASE hook[x].pc \in Issued /\ hook'[x].answer = hook[x].answer
    <3>1. Licensed(hook[x].answer)
      BY <1>2, <2>1 DEF LicensesOK, LicenseItems, LicensesOf
    <3> QED
      BY <1>m, <2>1, <3>1
  <2>2. CASE x = d /\ CheckLicenses(d) /\ hook'[d].answer = hook[d].answer
    <3>1. hook'[d].pc = IF \/ LicenseItems(d) = {}
                           \/ LicensesOf(hook[d].answer.order) # {}
                         THEN "issued" ELSE "generate"
      BY <1>t, <2>2 DEF CheckLicenses, HookRecord
    <3>2. LicensesOf(hook[d].answer.order) # {}
      BY <1>2, <2>2, <3>1 DEF Issued, LicenseItems
    <3> QED
      BY <1>m, <2>2, <3>2 DEF LicensesOf
  <2>3. CASE x = d /\ GenerateLicenses(d) /\ hook'[d].answer = hook[d].answer
    <3>1. PICK p : p \in LicenseItems(d)
      BY <1>2, <2>3 DEF LicenseItems
    <3>2. <<hook[d].answer.order, p, d>> \in licenses'
      BY <2>3, <3>1 DEF GenerateLicenses
    <3> QED
      BY <2>3, <3>2
  <2> QED
    BY <1>o, <1>2, <2>1, <2>2, <2>3, IssuedMoves
<1> QED
  BY <1>1, <1>2 DEF LicensesOK, LicenseItems, LicensesOf

-----------------------------------------------------------------------------
(* The theorems.                                                            *)

LEMMA HookInvInit == WebhookInit => HookInv
<1> SUFFICES ASSUME WebhookInit PROVE HookInv
  OBVIOUS
<1>1. WebhookTypeOK
  BY DEF WebhookInit, WebhookTypeOK, HookPC
<1>2. HooksOK
  BY NoAnswerAssumption DEF WebhookInit, HooksOK, HookOK, Fetched
<1>3. ClaimsAreHeld /\ SoleHolder
  BY DEF WebhookInit, ClaimsAreHeld, Holders, SoleHolder, Holding, Processing
<1>4. LicensesOK
  BY DEF WebhookInit, LicensesOK, Issued
<1> QED
  BY <1>1, <1>2, <1>3, <1>4 DEF HookInv

LEMMA HookInvStep == HookInv /\ [WebhookNext]_webhookVars => HookInv'
<1> SUFFICES ASSUME HookInv, [WebhookNext]_webhookVars PROVE HookInv'
  OBVIOUS
<1>1. ASSUME NEW d \in Deliveries, SendHook(d) \/ HookStep(d) PROVE HookInv'
  <2>1. ClaimMove(d)
    BY <1>1, HookMoves DEF HookInv
  <2>2. WebhookTypeOK' /\ HooksOK'
    BY <1>1, HooksStep DEF HookInv
  <2>3. ClaimsAreHeld'
    BY <1>1, <2>1, ClaimsStep, HookTypeParts DEF HookInv
  <2>4. SoleHolder'
    BY <1>1, <2>1, SoleHolderStep DEF HookInv
  <2>5. LicensesOK'
    BY <1>1, <2>1, <2>2, LicensesStep DEF HookInv
  <2> QED
    BY <2>2, <2>3, <2>4, <2>5 DEF HookInv
<1>2. CASE UNCHANGED webhookVars
  BY <1>2 DEF webhookVars, HookInv, WebhookTypeOK, HooksOK, HookOK, ClaimsAreHeld,
         Holders, SoleHolder, LicensesOK, LicensesOf, LicenseItems
<1> QED
  BY <1>1, <1>2 DEF WebhookNext

(* The webhook's tables and activations keep their type, whatever           *)
(* order-service answers and whichever activation fails.                    *)
THEOREM WebhookTypeCorrect == WebhookSpec => []WebhookTypeOK
<1>1. HookInv => WebhookTypeOK
  BY DEF HookInv
<1> QED
  BY HookInvInit, HookInvStep, <1>1, PTL DEF WebhookSpec

(* processed_webhooks holds exactly the events some activation claimed and  *)
(* did not give back: no release removes another activation's claim, and no *)
(* claim survives the release of its owner.                                 *)
THEOREM ClaimsHeld == WebhookSpec => []ClaimsAreHeld
<1>1. HookInv => ClaimsAreHeld
  BY DEF HookInv
<1> QED
  BY HookInvInit, HookInvStep, <1>1, PTL DEF WebhookSpec

(* No order is announced as paid before the license keys of the items       *)
(* payment-service saw exist, through duplicates, releases and retries.     *)
THEOREM ConfirmedOrdersAreLicensed == WebhookSpec => []ConfirmedIsLicensed
<1>1. HookInv => ConfirmedIsLicensed
  BY DEF HookInv, LicensesOK, Issued, ConfirmedIsLicensed
<1> QED
  BY HookInvInit, HookInvStep, <1>1, PTL DEF WebhookSpec

(* tryClaimEvent and releaseClaim implement the abstract claim of an event: *)
(* one activation holds it at a time, and nothing happens to it once it is  *)
(* settled.                                                                 *)
THEOREM WebhookImplementsClaim == WebhookSpec => ClaimIsExclusive
<1> DEFINE H == [e \in Events |-> Holders(e)]
<1> USE DEF Holding, Processing
<1>1. WebhookInit => Claim!ClaimInit
  BY DEF WebhookInit, Claim!ClaimInit, Holders, Settled
<1>2. ASSUME HookInv, NEW d \in Deliveries, ClaimMove(d)
      PROVE  Claim!ClaimNext \/ UNCHANGED <<H, Settled>>
  <2>e. EventOf[d] \in Events /\ \A x \in Deliveries : EventOf[x] \in Events
    BY EventOfAssumption
  <2>s. SoleHolder /\ ClaimsAreHeld
    BY <1>2 DEF HookInv
  <2>1. CASE Keeps(d)
    <3>1. \A x \in Deliveries : /\ hook'[x].pc \in Holding <=> hook[x].pc \in Holding
                                /\ hook'[x].pc = "done" <=> hook[x].pc = "done"
      BY <2>1 DEF Keeps, Others
    <3>2. H' = H
      BY <3>1 DEF Holders
    <3>3. Settled' = Settled
      BY <3>1 DEF Settled
    <3> QED
      BY <3>2, <3>3
  <2>2. CASE TakesClaim(d)
    <3>1. \A x \in Deliveries :
            EventOf[x] = EventOf[d] => hook[x].pc \notin Holding
      BY <2>2, <2>e, <2>s DEF TakesClaim, ClaimsAreHeld, Holders
    <3>2. \A x \in Deliveries :
            /\ hook'[x].pc \in Holding <=> x = d \/ hook[x].pc \in Holding
            /\ hook'[x].pc = "done" <=> hook[x].pc = "done"
      BY <2>2 DEF TakesClaim, Others
    <3>3. Holders(EventOf[d]) = {}
      BY <3>1 DEF Holders
    <3>4. H' = [H EXCEPT ![EventOf[d]] = {d}]
      <4>1. ASSUME NEW e \in Events
            PROVE  Holders(e)' = IF e = EventOf[d] THEN {d} ELSE Holders(e)
        BY <3>1, <3>2 DEF Holders
      <4> QED
        BY <2>e, <4>1
    <3>5. Settled' = Settled
      BY <3>2 DEF Settled
    <3>6. H'[EventOf[d]] # {}
      BY <2>e, <3>4
    <3> QED
      BY <2>e, <3>3, <3>6, <3>4, <3>5 DEF Claim!ClaimNext, Claim!Acquire
  <2>3. ASSUME hook[d].pc \in Holding \ {"done"}
        PROVE  Holders(EventOf[d]) = {d} /\ EventOf[d] \notin Settled
    BY <2>3, <2>s DEF SoleHolder, Holders, Settled
  <2>4. CASE Returns(d)
    <3>1. Holders(EventOf[d]) = {d} /\ EventOf[d] \notin Settled
      BY <2>3, <2>4 DEF Returns
    <3>2. \A x \in Deliveries :
            /\ hook'[x].pc \in Holding <=> x # d /\ hook[x].pc \in Holding
            /\ hook'[x].pc = "done" <=> hook[x].pc = "done"
      BY <2>4 DEF Returns, Others
    <3>3. H' = [H EXCEPT ![EventOf[d]] = {}]
      <4>1. ASSUME NEW e \in Events
            PROVE  Holders(e)' = IF e = EventOf[d] THEN {} ELSE Holders(e)
        BY <3>1, <3>2 DEF Holders
      <4> QED
        BY <2>e, <4>1
    <3>4. Settled' = Settled
      BY <3>2 DEF Settled
    <3> QED
      BY <2>e, <3>1, <3>3, <3>4 DEF Claim!ClaimNext, Claim!GiveBack
  <2>5. CASE Settles(d)
    <3>1. Holders(EventOf[d]) = {d} /\ EventOf[d] \notin Settled
      BY <2>3, <2>5 DEF Settles
    <3>2. \A x \in Deliveries :
            /\ hook'[x].pc \in Holding <=> hook[x].pc \in Holding
            /\ hook'[x].pc = "done" <=> x = d \/ hook[x].pc = "done"
      BY <2>5 DEF Settles, Others
    <3>3. H' = H
      BY <3>2 DEF Holders
    <3>4. Settled' = Settled \cup {EventOf[d]}
      BY <3>2 DEF Settled
    <3> QED
      BY <2>e, <3>1, <3>3, <3>4 DEF Claim!ClaimNext, Claim!Settle
  <2> QED
    BY <1>2, <2>1, <2>2, <2>4, <2>5 DEF ClaimMove
<1>3. HookInv /\ [WebhookNext]_webhookVars => [Claim!ClaimNext]_<<H, Settled>>
  <2>1. ASSUME HookInv, NEW d \in Deliveries, SendHook(d) \/ HookStep(d)
        PROVE  ClaimMove(d)
    BY <2>1, HookMoves DEF HookInv
  <2>2. ASSUME UNCHANGED webhookVars PROVE UNCHANGED <<H, Settled>>
    BY <2>2 DEF webhookVars, Holders, Settled
  <2> QED
    BY <1>2, <2>1, <2>2 DEF WebhookNext
<1>4. HookInv /\ [WebhookNext]_webhookVars => HookInv'
  BY HookInvStep
<1>5. WebhookInit => HookInv
  BY HookInvInit
<1> QED
  BY <1>1, <1>3, <1>4, <1>5, PTL DEF WebhookSpec, ClaimIsExclusive, Claim!ClaimSpec, Claim!claimVars

-----------------------------------------------------------------------------
(* Licenses are issued once, if one intent of an order succeeds.            *)

OneSuccess ==
  \A e1, e2 \in Events :
    e1.type = "succeeded" /\ e2.type = "succeeded" /\ OrderOf[e1] = OrderOf[e2]
      => e1 = e2

(* Who is about to generate found no license, and there still is none.      *)
NoneYet ==
  \A d \in Deliveries :
    hook[d].pc = "generate" => \A l \in licenses : l[1] # hook[d].answer.order

OnceInv == HookInv /\ NoneYet /\ LicensesOnce

LEMMA OnceStep ==
  ASSUME OneSuccess, OnceInv, NEW d \in Deliveries, SendHook(d) \/ HookStep(d)
  PROVE  NoneYet' /\ LicensesOnce'
<1>t. hook \in [Deliveries -> HookRecord] /\ hook[d] \in HookRecord
  BY HookTypeParts DEF OnceInv, HookInv
<1>o. \A x \in Deliveries : x # d => hook'[x] = hook[x]
  BY HookMoves DEF OnceInv, HookInv, ClaimMove, Keeps, TakesClaim, Returns, Settles, Others
<1>1. CASE GenerateLicenses(d)
  <2>1. /\ hook[d].pc = "generate" /\ hook'[d].pc = "issued"
        /\ licenses' = licenses
             \cup {<<hook[d].answer.order, p, d>> : p \in LicenseItems(d)}
    BY <1>t, <1>1 DEF GenerateLicenses, HookRecord
  <2>2. LicensesOnce'
    BY <2>1 DEF OnceInv, NoneYet, LicensesOnce
  <2>3. ASSUME NEW x \in Deliveries, x # d, hook[x].pc = "generate"
        PROVE  hook[x].answer.order # hook[d].answer.order
    <3>1. /\ EventOf[x].type = "succeeded" /\ EventOf[d].type = "succeeded"
          /\ hook[x].answer.order = OrderOf[EventOf[x]]
          /\ hook[d].answer.order = OrderOf[EventOf[d]]
      BY <2>1, <2>3 DEF OnceInv, HookInv, HooksOK, HookOK, Fetched
    <3>2. EventOf[x] # EventOf[d]
      BY <2>1, <2>3 DEF OnceInv, HookInv, SoleHolder, Holding, Processing
    <3> QED
      BY <3>1, <3>2, EventOfAssumption DEF OneSuccess
  <2>4. NoneYet'
    BY <1>o, <2>1, <2>3 DEF OnceInv, NoneYet
  <2> QED
    BY <2>2, <2>4
<1>2. CASE CheckLicenses(d)
  <2>1. /\ licenses' = licenses /\ hook'[d].answer = hook[d].answer
        /\ hook'[d].pc = "generate" => LicensesOf(hook[d].answer.order) = {}
    <3>1. hook'[d].pc = IF \/ LicenseItems(d) = {}
                           \/ LicensesOf(hook[d].answer.order) # {}
                         THEN "issued" ELSE "generate"
      BY <1>t, <1>2 DEF CheckLicenses, HookRecord
    <3> QED
      BY <1>t, <1>2, <3>1 DEF CheckLicenses, HookRecord
  <2> QED
    BY <1>o, <2>1 DEF OnceInv, NoneYet, LicensesOnce, LicensesOf
<1>3. CASE ~GenerateLicenses(d) /\ ~CheckLicenses(d)
  <2>1. licenses' = licenses
    BY <1>3, LicensesGrow
  <2>2. hook'[d].pc # "generate"
    BY <1>t, <1>3 DEF HookStep, LocalHookStep, SendHook, TryClaim, FetchOrder,
           ResolveInvoice, EmitVerdict, Notify, IgnoreEvent, ReleaseClaim, Throw, Die,
           HookRecord
  <2> QED
    BY <1>o, <2>1, <2>2 DEF OnceInv, NoneYet, LicensesOnce
<1> QED
  BY <1>1, <1>2, <1>3

(* No order is licensed by two activations, through duplicates, releases    *)
(* and retries of its events, if a single intent of every order succeeds.   *)
THEOREM LicensesIssuedOnce ==
  ASSUME OneSuccess
  PROVE  WebhookSpec => []LicensesOnce
<1>1. WebhookInit => OnceInv
  <2>1. WebhookInit => NoneYet /\ LicensesOnce
    BY DEF WebhookInit, NoneYet, LicensesOnce
  <2> QED
    BY <2>1, HookInvInit DEF OnceInv
<1>2. OnceInv /\ [WebhookNext]_webhookVars => OnceInv'
  <2> SUFFICES ASSUME OnceInv, [WebhookNext]_webhookVars PROVE OnceInv'
    OBVIOUS
  <2>1. HookInv'
    BY HookInvStep DEF OnceInv
  <2>2. CASE UNCHANGED webhookVars
    BY <2>1, <2>2 DEF webhookVars, OnceInv, NoneYet, LicensesOnce
  <2>3. ASSUME NEW d \in Deliveries, SendHook(d) \/ HookStep(d) PROVE OnceInv'
    BY <2>1, <2>3, OnceStep DEF OnceInv
  <2> QED
    BY <2>2, <2>3 DEF WebhookNext
<1>3. OnceInv => LicensesOnce
  BY DEF OnceInv
<1> QED
  BY <1>1, <1>2, <1>3, PTL DEF WebhookSpec
=============================================================================
