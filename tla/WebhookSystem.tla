--------------------------- MODULE WebhookSystem ---------------------------
(***************************************************************************)
(* payment-service's webhook processing, with a Stripe that may deliver    *)
(* every event several times and an order-service that answers every RPC   *)
(* with any order of the intent, with null or with an error.               *)
(***************************************************************************)
EXTENDS WebhookService

CONSTANT OrderOf  \* the order each event's intent was minted for

ASSUME OrderOfAssumption == OrderOf \in [Events -> Orders]

(* The items order-service may answer with: those already inserted.         *)
AnswersFor(d) ==
  {[order |-> OrderOf[EventOf[d]], items |-> ps] : ps \in SUBSET Products}
    \cup {NoAnswer}

HookStep(d) ==
  \/ LocalHookStep(d)
  \/ \E a \in AnswersFor(d) : FetchOrder(d, a)
  \/ EmitVerdict(d)
  \/ \E a \in AnswersFor(d) : Notify(d, a)

WebhookNext == \E d \in Deliveries : SendHook(d) \/ HookStep(d)

WebhookSpec == WebhookInit /\ [][WebhookNext]_webhookVars

-----------------------------------------------------------------------------
(* The steps of an activation that claimed its event and keeps it.          *)
Holding == Processing \cup {"done", "dead"}

(* The claims of an event, as the abstract specification sees them.         *)
Holders(e) == {d \in Deliveries : hook[d].pc \in Holding /\ EventOf[d] = e}

Settled == {EventOf[d] : d \in {x \in Deliveries : hook[x].pc = "done"}}

Claim == INSTANCE EventClaim WITH
           holders <- [e \in Events |-> Holders(e)], settled <- Settled

(* The handlers implement the claim: one activation per event at a time,    *)
(* nothing after an event is settled, and every event a handler gave back   *)
(* can be taken again.                                                      *)
ClaimIsExclusive == Claim!ClaimSpec

(* processed_webhooks holds exactly the events some activation holds.       *)
ClaimsAreHeld == claims = {e \in Events : Holders(e) # {}}

(* Each license item of an order is licensed at most once, through          *)
(* duplicates, releases and retries, when an order has a single successful  *)
(* intent.                                                                  *)
LicensesOnce ==
  \A l1, l2 \in licenses : l1[1] = l2[1] => l1[3] = l2[3]

(* The verdict that makes order-service flip an order to paid is only       *)
(* emitted when the license items payment-service saw are licensed.         *)
ConfirmedIsLicensed ==
  \A d \in Deliveries :
    /\ EventOf[d].type = "succeeded"
    /\ hook[d].pc \in {"emitted", "done"}
    /\ LicenseItems(d) # {}
    => LicensesOf(hook[d].answer.order) # {}
=============================================================================
