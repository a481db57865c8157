----------------------------- MODULE Licences ------------------------------
(***************************************************************************)
(* The licence keys of one order: issued by the deliveries of the events   *)
(* that say it is paid, mailed with one activation link per key, activated *)
(* by the customer.  WebhookService has all of such a delivery; here an    *)
(* order may have several successful intents, and the keys live on.        *)
(***************************************************************************)
EXTENDS FiniteSets

CONSTANTS
  PaidEvents,      \* Stripe's payment_intent.succeeded events of the order
  PaidDeliveries,  \* their deliveries, repeated ones included
  PaidEventOf,     \* the event of each delivery
  Units,           \* the licence units the order lists
  Clicks           \* requests to activate a key

ASSUME LicenceAssumption == PaidEventOf \in [PaidDeliveries -> PaidEvents]

VARIABLES
  licStep,    \* where each delivery is
  licIssued,  \* the deliveries that saved keys: a key is <<delivery, unit>>
  licMailed,  \* those whose links were mailed
  licUsed,    \* the keys whose link was used: activation_token_hash is null
  licExpired, \* the deliveries whose links are older than 30 days
  click,      \* where each request is, and for which key
  \* history: the deliveries, and the requests, that ran at the same time
  licTogether, clickTogether

licVars == <<licStep, licIssued, licMailed, licUsed, licExpired, click,
             licTogether, clickTogether>>

LicAtWork == {"check", "generate", "notify"}
LicSteps == {"idle", "done", "thrown", "died", "unmailed"} \cup LicAtWork
Keys == PaidDeliveries \X Units

LicTypeOK ==
  /\ licStep \in [PaidDeliveries -> LicSteps]
  /\ licIssued \subseteq PaidDeliveries /\ licMailed \subseteq licIssued
  /\ licUsed \subseteq licMailed \X Units
  /\ licExpired \subseteq licIssued
  /\ click \in [Clicks -> [pc : {"idle"}]
                           \cup [pc : {"read", "done"}, key : licMailed \X Units]]
  /\ licTogether \in SUBSET SUBSET PaidDeliveries
  /\ clickTogether \in SUBSET SUBSET Clicks

-----------------------------------------------------------------------------
LicGoes(d, step) == licStep' = [licStep EXCEPT ![d] = step]
KeysKept == UNCHANGED <<licUsed, licExpired, click, clickTogether>>

(* An event is claimed by one delivery at a time; one that threw gave its   *)
(* claim back.                                                              *)
Claimable(e) ==
  \A d \in PaidDeliveries : PaidEventOf[d] = e => licStep[d] \in {"idle", "thrown"}

DeliverPaid(d) ==
  /\ licStep[d] = "idle" /\ Claimable(PaidEventOf[d])
  /\ LicGoes(d, "check")
  /\ licTogether' = licTogether
       \cup {{d, o} : o \in {x \in PaidDeliveries : licStep[x] \in LicAtWork}}
  /\ UNCHANGED <<licIssued, licMailed>> /\ KeysKept

(* Mutant: the keys that exist are not looked for.                          *)
CheckNothing(d) ==
  /\ licStep[d] = "check"
  /\ LicGoes(d, "generate")
  /\ UNCHANGED <<licIssued, licMailed, licTogether>> /\ KeysKept

(* findByOrderId: an order that has keys gets no more.                      *)
CheckKeys(d) ==
  /\ licStep[d] = "check"
  /\ LicGoes(d, IF licIssued = {} THEN "generate" ELSE "notify")
  /\ UNCHANGED <<licIssued, licMailed, licTogether>> /\ KeysKept

(* generateForOrder: one save of all keys, in one transaction.              *)
GenerateKeys(d) ==
  /\ licStep[d] = "generate"
  /\ LicGoes(d, "notify")
  /\ licIssued' = licIssued \cup {d}
  /\ UNCHANGED <<licMailed, licTogether>> /\ KeysKept

(* Mutant: the first delivery that is announced mails, with its own keys or *)
(* without.                                                                 *)
NotifyOnce(d) ==
  /\ licStep[d] = "notify"
  /\ LicGoes(d, "done")
  /\ licMailed' = IF licMailed = {} /\ d \in licIssued THEN {d} ELSE licMailed
  /\ UNCHANGED <<licIssued, licTogether>> /\ KeysKept

(* The order was found again: the mail has the links of the keys that this  *)
(* delivery issued, for they are stored nowhere.                            *)
NotifyKeys(d) ==
  /\ licStep[d] = "notify"
  /\ LicGoes(d, "done")
  /\ licMailed' = IF d \in licIssued THEN licMailed \cup {d} ELSE licMailed
  /\ UNCHANGED <<licIssued, licTogether>> /\ KeysKept

(* The second lookup of the order failed: no mail, and the claim is kept.   *)
NotifyNobody(d) ==
  /\ licStep[d] = "notify"
  /\ LicGoes(d, "unmailed")
  /\ UNCHANGED <<licIssued, licMailed, licTogether>> /\ KeysKept

(* An error gives the claim back, a stop keeps it.                          *)
DeliveryEnds(d) ==
  /\ licStep[d] \in LicAtWork
  /\ \E end \in {"thrown", "died"} : LicGoes(d, end)
  /\ UNCHANGED <<licIssued, licMailed, licTogether>> /\ KeysKept

-----------------------------------------------------------------------------
DeliveriesKept == UNCHANGED <<licStep, licIssued, licMailed, licTogether>>

(* Mutant: a link that was used is found.                                   *)
KnownLink(k) == k[1] \in licMailed \ licExpired

(* The token of a link is known from its mail only; its hash is in the      *)
(* table until it is used, and holds for 30 days.                           *)
ValidLink(k) == k[1] \in licMailed \ licExpired /\ k \notin licUsed

ReadKey(c, k) ==
  /\ click[c].pc = "idle" /\ ValidLink(k)
  /\ click' = [click EXCEPT ![c] = [pc |-> "read", key |-> k]]
  /\ clickTogether' = clickTogether
       \cup {{c, o} : o \in {x \in Clicks : /\ click[x].pc = "read"
                                           /\ click[x].key = k}}
  /\ UNCHANGED <<licUsed, licExpired>> /\ DeliveriesKept

(* The row that was read is saved, activated and without its hash.          *)
SaveKey(c) ==
  /\ click[c].pc = "read"
  /\ click' = [click EXCEPT ![c] = [pc |-> "done", key |-> @.key]]
  /\ licUsed' = licUsed \cup {click[c].key}
  /\ UNCHANGED <<licExpired, clickTogether>> /\ DeliveriesKept

(* A request ends before its save.                                          *)
ClickEnds(c) ==
  /\ click[c].pc = "read"
  /\ click' = [click EXCEPT ![c] = [pc |-> "idle"]]
  /\ UNCHANGED <<licUsed, licExpired, clickTogether>> /\ DeliveriesKept

ExpireLinks(d) ==
  /\ d \in licIssued \ licExpired /\ licStep[d] \notin LicAtWork
  /\ licExpired' = licExpired \cup {d}
  /\ UNCHANGED <<licUsed, click, clickTogether>> /\ DeliveriesKept

LicInit ==
  /\ licStep = [d \in PaidDeliveries |-> "idle"]
  /\ licIssued = {} /\ licMailed = {} /\ licUsed = {} /\ licExpired = {}
  /\ click = [c \in Clicks |-> [pc |-> "idle"]]
  /\ licTogether = {} /\ clickTogether = {}

LicNext ==
  \/ \E d \in PaidDeliveries :
       \/ DeliverPaid(d) \/ CheckKeys(d) \/ GenerateKeys(d)
       \/ NotifyKeys(d) \/ NotifyNobody(d) \/ DeliveryEnds(d) \/ ExpireLinks(d)
  \/ \E c \in Clicks :
       \/ \E k \in Keys : ReadKey(c, k)
       \/ SaveKey(c) \/ ClickEnds(c)

LicSpec == LicInit /\ [][LicNext]_licVars

-----------------------------------------------------------------------------
(* An order gets its keys once, unless two deliveries ran at the same time, *)
(* and those told of two different payments of the order.                   *)
IssuedOnce ==
  \A d1, d2 \in licIssued : d1 # d2 =>
    {d1, d2} \in licTogether /\ PaidEventOf[d1] # PaidEventOf[d2]

(* The customer has the link of every key, or the delivery that issued it   *)
(* is on its way to the mail, stopped before, or could not read the order   *)
(* again: no other delivery makes up for that.                              *)
KeysAreMailed ==
  \A d \in licIssued \ licMailed :
    licStep[d] \in {"notify", "thrown", "died", "unmailed"}

(* A link activates one time, unless two requests for it ran together.      *)
ActivatedOnce ==
  \A c1, c2 \in Clicks :
    /\ c1 # c2 /\ click[c1].pc = "done" /\ click[c2].pc = "done"
    /\ click[c1].key = click[c2].key
    => {c1, c2} \in clickTogether

(* Keys are issued once, mailed and activated once, save for the faults.    *)
LicencesConsistent == IssuedOnce /\ KeysAreMailed /\ ActivatedOnce
=============================================================================
