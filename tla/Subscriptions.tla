--------------------------- MODULE Subscriptions ---------------------------
(***************************************************************************)
(* A subscription in two places: at Stripe, which bills it, and as a row   *)
(* of payment-service.  The row follows Stripe by webhook events, which    *)
(* may come in any order and whose handlers save the copy they read; user  *)
(* and administrator change Stripe first and the row after; a cron deletes *)
(* rows whose first payment was never confirmed.                           *)
(***************************************************************************)
EXTENDS Naturals, FiniteSets

CONSTANTS
  SubIds,       \* the subscriptions one user may create, numbered
  CustomerIds,  \* the Stripe customers created for the user, numbered
  MaxChanges,   \* bounds the changes of a subscription at Stripe
  SubSlots,     \* where calls run
  SubLoads,     \* what one behaviour is made of: its handlers, what Stripe
                \* does by itself, its subscriptions, their changes, its
                \* slots and the customer the user has: records
                \* [handlers, stripe, subs, changes, slots, customer]
  NoRow, NoCustomer

ASSUME SubAssumption ==
  /\ SubIds \subseteq Nat /\ CustomerIds \subseteq Nat /\ MaxChanges \in Nat
  /\ \A l \in SubLoads : /\ l.subs \subseteq SubIds /\ l.slots \subseteq SubSlots
                        /\ l.changes \in 0..MaxChanges
                        /\ l.customer \in CustomerIds \cup {NoCustomer}

VARIABLES
  billed,       \* Stripe: the subscriptions
  subRow,       \* payment-service: the rows, by stripeSubscriptionId
  notices,      \* Stripe's events on their way, each claimed once
  seen,         \* history: the last change an event brought
  welcomed,     \* how many welcome mails a subscription got, up to two
  farewell,     \* the subscriptions whose end was mailed
  customer,     \* user-service: stripeCustomerId of the user
  updates,      \* UPDATE_STRIPE_CUSTOMER_ID on their way
  subCall,      \* the calls in flight
  subLoad,      \* the handlers of this behaviour
  subFault      \* history: what may have set row and Stripe apart

subVars == <<billed, subRow, notices, seen, welcomed, farewell, customer,
             updates, subCall, subLoad, subFault>>

StripeStatus ==
  {"none", "incomplete", "active", "past_due", "trialing", "canceled"}
RowStatus == {"incomplete", "active", "past_due", "canceled"}

(* Two calls on one subscription at a time; an event after a later one; an  *)
(* event lost with its handler; a call that saved before an earlier event   *)
(* came; a first payment that was declined; an unpaid subscription that was *)
(* cancelled; a row deleted with events on their way; a first payment more  *)
(* than 24 hours old.                                                       *)
SubFaults == {"overlap", "disordered", "lost", "overtaken", "declined",
              "dropped", "late"}

Billed == [status : StripeStatus, flag : BOOLEAN, paid : BOOLEAN,
           secret : BOOLEAN, owner : CustomerIds \cup {NoCustomer},
           n : 0..MaxChanges]
Row == [status : RowStatus, flag : BOOLEAN, ended : BOOLEAN, old : BOOLEAN]
ASSUME NoRowAssumption == NoRow \notin Row \cup SubIds
Event == [sub : SubIds,
          kind : {"created", "updated", "deleted", "paid", "failed"},
          status : StripeStatus, flag : BOOLEAN, n : 1..MaxChanges]

SubTypeOK ==
  /\ billed \in [SubIds -> Billed]
  /\ subRow \in [SubIds -> Row \cup {NoRow}]
  /\ notices \subseteq Event
  /\ seen \in [SubIds -> 0..MaxChanges]
  /\ welcomed \in [SubIds -> 0..2]
  /\ farewell \subseteq SubIds
  /\ customer \in CustomerIds \cup {NoCustomer}
  /\ updates \subseteq CustomerIds
  /\ DOMAIN subCall = SubSlots
  /\ subLoad \in SubLoads
  /\ subFault \subseteq SubFaults

-----------------------------------------------------------------------------
NoSubCall == [pc |-> "idle"]
SubBusy == {s \in SubSlots : subCall[s] # NoSubCall}
SubQuiet == SubBusy = {} /\ notices = {} /\ updates = {}
Live(b) == billed[b].status \in {"active", "past_due", "trialing"}
Pending(b) == \E e \in notices : e.sub = b

Incomplete(b) == subRow[b] # NoRow /\ subRow[b].status = "incomplete"

(* The row of a subscription that is billed says what Stripe says.          *)
Agrees(b) ==
  Live(b) => /\ subRow[b] # NoRow
             /\ subRow[b].status = billed[b].status \/ billed[b].status = "trialing"
             /\ subRow[b].flag = billed[b].flag

(* A subscription that was given up unpaid is told to nobody; the cron may  *)
(* still have to delete its row.                                            *)
Untraced(b) ==
  billed[b].status = "canceled" /\ ~billed[b].paid
    => (subRow[b] = NoRow \/ Incomplete(b)) /\ b \notin farewell

Follows(b) ==
  /\ Agrees(b)
  /\ Untraced(b)
  /\ billed[b].status = "incomplete" => subRow[b] = NoRow \/ Incomplete(b)
  /\ billed[b].paid => welcomed[b] > 0
  /\ billed[b].paid \/ welcomed[b] > 0 => ~Incomplete(b)
  /\ billed[b].owner \in {NoCustomer, customer}

CallsOn(b) == {s \in SubBusy : subCall[s].sub = b}

BlameSub(marks) ==
  subFault' =
    IF SubQuiet' /\ \A b \in SubIds : Follows(b)' THEN {}
    ELSE subFault \cup marks
         \cup IF \E b \in SubIds : Cardinality(CallsOn(b)') > 1
              THEN {"overlap"} ELSE {}

BeginSub(s, record) == /\ subCall[s] = NoSubCall
                       /\ subCall' = [subCall EXCEPT ![s] = record]
StepSub(s, record) == subCall' = [subCall EXCEPT ![s] = record]
EndSub(s) == subCall' = [subCall EXCEPT ![s] = NoSubCall]
SubAt(s, pc) == subCall[s].pc = pc
Handles(h) == h \in subLoad.handlers
Does(h) == h \in subLoad.stripe

KeepMails == UNCHANGED <<welcomed, farewell>>
KeepCustomer == UNCHANGED <<customer, updates>>
KeepStripe == UNCHANGED <<billed, notices>>

-----------------------------------------------------------------------------
(* Stripe changes a subscription and sends one event of each kind.          *)
ChangeAtStripe(b, new, kinds) ==
  /\ billed[b].n < subLoad.changes
  /\ billed' = [billed EXCEPT ![b] = [new EXCEPT !.n = @ + 1]]
  /\ notices' = notices \cup
       {[sub |-> b, kind |-> k, status |-> new.status, flag |-> new.flag,
         n |-> new.n + 1] : k \in kinds}

StripeMoves(b, from, to, kinds) ==
  /\ billed[b].status \in from
  /\ ChangeAtStripe(b, [billed[b] EXCEPT !.status = to,
                          !.paid = @ \/ to = "active"], kinds)
  /\ UNCHANGED <<subRow, seen, subCall, subLoad>>
  /\ KeepMails /\ KeepCustomer

(* The customer confirms the first payment with the client secret; a card   *)
(* is declined; Stripe gives up on it after 23 hours.                       *)
FirstPayment(b) ==
  /\ Does("pay")
  /\ billed[b].secret
  /\ StripeMoves(b, {"incomplete"}, "active", {"updated", "paid"})
  /\ BlameSub({})

FirstDecline(b) ==
  /\ Does("decline")
  /\ billed[b].secret
  /\ StripeMoves(b, {"incomplete"}, "incomplete", {"failed"})
  /\ BlameSub({"declined"})

GiveUpUnpaid(b) ==
  /\ Does("expire")
  /\ StripeMoves(b, {"incomplete"}, "canceled", {"deleted"})
  /\ BlameSub({})

(* A renewal that is paid, at once or later; one that is not; the end of    *)
(* the period of a subscription that was cancelled for it, or of a trial.   *)
Renewal(b) ==
  /\ Does("renew")
  /\ \/ StripeMoves(b, {"active"}, "active", {"paid"})
     \/ StripeMoves(b, {"past_due"}, "active", {"updated", "paid"})
  /\ BlameSub({})

FailedRenewal(b) ==
  /\ Does("renew")
  /\ StripeMoves(b, {"active"}, "past_due", {"updated", "failed"})
  /\ BlameSub({})

PeriodEnd(b) ==
  /\ Does("end")
  /\ \/ billed[b].flag /\ StripeMoves(b, {"active", "past_due", "trialing"},
                                      "canceled", {"deleted"})
     \/ StripeMoves(b, {"trialing"}, "active", {"updated"})
  /\ BlameSub({})

-----------------------------------------------------------------------------
(* Mutant: a customer is created for every subscription.                    *)
ReadUserOnly(s) ==
  /\ Handles("create")
  /\ BeginSub(s, [pc |-> "customer", sub |-> NoRow, owner |-> customer])
  /\ UNCHANGED <<subRow, seen, subLoad>>
  /\ KeepStripe /\ KeepMails /\ KeepCustomer
  /\ BlameSub(IF SubBusy = {} /\ updates = {} THEN {} ELSE {"overlap"})

(* createSubscription: the user, with the customer; a customer is created   *)
(* when there is none and sent to user-service.                             *)
ReadUser(s) ==
  /\ Handles("create")
  /\ BeginSub(s, [pc |-> IF customer = NoCustomer THEN "customer" ELSE "stripe",
                  sub |-> NoRow, owner |-> customer])
  /\ UNCHANGED <<subRow, seen, subLoad>>
  /\ KeepStripe /\ KeepMails /\ KeepCustomer
  /\ BlameSub(IF SubBusy = {} /\ updates = {} THEN {} ELSE {"overlap"})

CreateCustomer(s, c) ==
  /\ SubAt(s, "customer")
  /\ c \notin updates \cup {customer} \cup {subCall[z].owner : z \in
                {z \in SubBusy : "owner" \in DOMAIN subCall[z]}}
  /\ updates' = updates \cup {c}
  /\ StepSub(s, [subCall[s] EXCEPT !.pc = "stripe", !.owner = c])
  /\ UNCHANGED <<subRow, seen, customer, subLoad>>
  /\ KeepStripe /\ KeepMails
  /\ BlameSub({})

(* UPDATE_STRIPE_CUSTOMER_ID, received by user-service or lost.             *)
ReceiveCustomer(c) ==
  /\ c \in updates
  /\ updates' = updates \ {c}
  /\ customer' = c
  /\ UNCHANGED <<subRow, seen, subCall, subLoad>>
  /\ KeepStripe /\ KeepMails
  /\ BlameSub({})

LoseCustomer(c) ==
  /\ c \in updates
  /\ updates' = updates \ {c}
  /\ UNCHANGED <<subRow, seen, customer, subCall, subLoad>>
  /\ KeepStripe /\ KeepMails
  /\ BlameSub({"lost"})

(* The subscription is created at Stripe, incomplete, and then saved.       *)
CreateSubscription(s, b) ==
  /\ SubAt(s, "stripe")
  /\ billed[b].status = "none"
  /\ \A a \in subLoad.subs : a < b => billed[a].status # "none"
  /\ ChangeAtStripe(b, [billed[b] EXCEPT !.status = "incomplete",
                          !.owner = subCall[s].owner], {"created"})
  /\ StepSub(s, [pc |-> "insert", sub |-> b])
  /\ UNCHANGED <<subRow, seen, subLoad>>
  /\ KeepMails /\ KeepCustomer
  /\ BlameSub({})

InsertRow(s) ==
  /\ SubAt(s, "insert")
  /\ subRow' = [subRow EXCEPT ![subCall[s].sub] =
       [status |-> "incomplete", flag |-> FALSE, ended |-> FALSE, old |-> FALSE]]
  /\ StepSub(s, [subCall[s] EXCEPT !.pc = "answer"])
  /\ UNCHANGED <<seen, subLoad>>
  /\ KeepStripe /\ KeepMails /\ KeepCustomer
  /\ BlameSub({})

(* The client secret of the invoice, if the gateway still waits for it.     *)
AnswerSecret(s) ==
  /\ SubAt(s, "answer")
  /\ \E told \in BOOLEAN :
       billed' = [billed EXCEPT ![subCall[s].sub].secret = told]
  /\ EndSub(s)
  /\ UNCHANGED <<subRow, notices, seen, subLoad>>
  /\ KeepMails /\ KeepCustomer
  /\ BlameSub({})

-----------------------------------------------------------------------------
(* save(copy): every column of the copy that differs is written, updated_at *)
(* too; a row that is gone is inserted again.                               *)
Saved(b, copy) == [subRow EXCEPT ![b] = [copy EXCEPT !.old = FALSE]]

(* Mutant: a status the map does not name is taken for a cancellation.      *)
MappedOrCancelled(status, old) ==
  IF status \in {"active", "past_due", "canceled"} THEN status ELSE "canceled"

(* Mutant: Stripe's word is taken as it is.                                 *)
MappedVerbatim(status, old) == status

(* Mutant: an incomplete row waits for something else to promote it.        *)
MappedWhenPaid(status, old) ==
  IF status \in {"active", "past_due", "canceled"} /\ old # "incomplete"
  THEN status ELSE old

(* statusMap[status] || the status the row has.                             *)
Mapped(status, old) ==
  IF status \in {"active", "past_due", "canceled"} THEN status ELSE old

(* cancel and reactivate and adminUpdateTerms begin with the row;           *)
(* reactivate refuses one that ended and leaves alone one not scheduled.    *)
BeginChange(s, b, op) ==
  /\ Handles(op.name)
  /\ subRow[b] # NoRow
  /\ op.name = "reactivate" => /\ subRow[b].status # "canceled"
                               /\ ~subRow[b].ended
                               /\ subRow[b].flag
  /\ BeginSub(s, [pc |-> "change", sub |-> b, op |-> op, copy |-> subRow[b]])
  /\ UNCHANGED <<subRow, seen, subLoad>>
  /\ KeepStripe /\ KeepMails /\ KeepCustomer
  /\ BlameSub({})

(* Stripe refuses what is not there any more: the call ends (SubDies).      *)
ChangeOf(b, op) ==
  CASE op.name = "cancel" /\ ~op.flag ->
         [billed[b] EXCEPT !.status = "canceled"]
    [] op.name = "terms" /\ op.trial ->
         [billed[b] EXCEPT !.status = "trialing"]
    [] OTHER -> [billed[b] EXCEPT !.flag = op.flag]

AskStripe(s) ==
  /\ SubAt(s, "change")
  /\ LET k == subCall[s]
         new == ChangeOf(k.sub, k.op)
     IN  /\ billed[k.sub].status # "canceled"
         /\ k.op.name = "terms" /\ k.op.trial => billed[k.sub].paid
         /\ IF new = billed[k.sub] THEN KeepStripe
            ELSE ChangeAtStripe(k.sub, new,
                   {IF new.status = "canceled" THEN "deleted" ELSE "updated"})
         /\ StepSub(s, [k EXCEPT !.pc = "save",
              !.copy = CASE k.op.name = "cancel" /\ ~k.op.flag ->
                              [k.copy EXCEPT !.status = "canceled", !.ended = TRUE]
                         [] k.op.name = "terms" ->
                              [k.copy EXCEPT !.flag = new.flag,
                                 !.status = Mapped(new.status, @)]
                         [] OTHER -> [k.copy EXCEPT !.flag = k.op.flag]])
         /\ UNCHANGED <<subRow, seen, subLoad>>
         /\ KeepMails /\ KeepCustomer
         /\ BlameSub(IF new.status = "canceled" /\ ~new.paid
                     THEN {"dropped"} ELSE {})

SaveChange(s) ==
  /\ SubAt(s, "save")
  /\ subRow' = Saved(subCall[s].sub, subCall[s].copy)
  /\ EndSub(s)
  /\ UNCHANGED <<seen, subLoad>>
  /\ KeepStripe /\ KeepMails /\ KeepCustomer
  /\ BlameSub(IF Pending(subCall[s].sub) THEN {"overtaken"} ELSE {})

-----------------------------------------------------------------------------
(* A webhook event: the claim lets one handler have it, which reads the row *)
(* first.  Without a row every kind ends there; invoice.payment_failed      *)
(* throws, and Stripe was answered before.                                  *)
BeginEvent(s, e) ==
  /\ Handles("events")
  /\ e \in notices
  /\ e.kind \in {"updated", "paid", "failed", "deleted"}
  /\ notices' = notices \ {e}
  /\ seen' = [seen EXCEPT ![e.sub] = IF e.n > @ THEN e.n ELSE @]
  /\ IF subRow[e.sub] = NoRow /\ e.kind # "updated"
     THEN subCall[s] = NoSubCall /\ UNCHANGED subCall
     ELSE BeginSub(s, [pc |-> e.kind, sub |-> e.sub, event |-> e,
                       copy |-> subRow[e.sub]])
  /\ UNCHANGED <<billed, subRow, subLoad>>
  /\ KeepMails /\ KeepCustomer
  /\ BlameSub((IF e.n < seen[e.sub] THEN {"disordered"} ELSE {}) \cup
              (IF subRow[e.sub] = NoRow /\ e.kind # "deleted" THEN {"lost"}
               ELSE {}))

Welcome(b) == welcomed' = [welcomed EXCEPT ![b] = IF @ = 2 THEN 2 ELSE @ + 1]

(* customer.subscription.created: nothing but a mail, deferred while the    *)
(* row is incomplete.                                                       *)
HandleCreated(s, e) ==
  /\ Handles("events")
  /\ e \in notices /\ e.kind = "created"
  /\ subCall[s] = NoSubCall
  /\ notices' = notices \ {e}
  /\ seen' = [seen EXCEPT ![e.sub] = IF e.n > @ THEN e.n ELSE @]
  /\ IF subRow[e.sub] # NoRow /\ subRow[e.sub].status # "incomplete"
     THEN Welcome(e.sub) ELSE UNCHANGED welcomed
  /\ UNCHANGED <<billed, subRow, farewell, subCall, subLoad>>
  /\ KeepCustomer
  /\ BlameSub(IF e.n < seen[e.sub] THEN {"disordered"} ELSE {})

(* customer.subscription.updated: syncFromStripe reads the row again; an    *)
(* error is only logged.                                                    *)
ReadSync(s) ==
  /\ SubAt(s, "updated")
  /\ LET k == subCall[s]
     IN  IF subRow[k.sub] = NoRow THEN EndSub(s)
         ELSE StepSub(s, [pc |-> "sync", sub |-> k.sub, event |-> k.event,
                          copy |-> subRow[k.sub],
                          was |-> IF k.copy = NoRow THEN "none" ELSE k.copy.status])
  /\ UNCHANGED <<subRow, seen, subLoad>>
  /\ KeepStripe /\ KeepMails /\ KeepCustomer
  /\ BlameSub(IF subRow[subCall[s].sub] = NoRow THEN {"lost"} ELSE {})

(* Mutant: every sync that leaves the row active welcomes.                  *)
SaveSyncWelcomes(s) ==
  /\ SubAt(s, "sync")
  /\ LET k == subCall[s]
         row == [k.copy EXCEPT !.status = Mapped(k.event.status, @),
                               !.flag = k.event.flag]
     IN  /\ subRow' = Saved(k.sub, row)
         /\ IF row.status = "active" THEN Welcome(k.sub) ELSE UNCHANGED welcomed
  /\ EndSub(s)
  /\ UNCHANGED <<seen, farewell, subLoad>>
  /\ KeepStripe /\ KeepCustomer
  /\ BlameSub({})

(* The welcome mail goes with the first step from incomplete to active.     *)
SaveSync(s) ==
  /\ SubAt(s, "sync")
  /\ LET k == subCall[s]
         row == [k.copy EXCEPT !.status = Mapped(k.event.status, @),
                               !.flag = k.event.flag]
     IN  /\ subRow' = Saved(k.sub, row)
         /\ IF k.was = "incomplete" /\ row.status = "active"
            THEN Welcome(k.sub) ELSE UNCHANGED welcomed
  /\ EndSub(s)
  /\ UNCHANGED <<seen, farewell, subLoad>>
  /\ KeepStripe /\ KeepCustomer
  /\ BlameSub({})

(* invoice.paid saves the copy with its period and its invoice.             *)
SavePaid(s) ==
  /\ SubAt(s, "paid")
  /\ subRow' = Saved(subCall[s].sub, subCall[s].copy)
  /\ EndSub(s)
  /\ UNCHANGED <<seen, subLoad>>
  /\ KeepStripe /\ KeepMails /\ KeepCustomer
  /\ BlameSub({})

(* invoice.payment_failed: past due, whatever it was.                       *)
SavePastDue(s) ==
  /\ SubAt(s, "failed")
  /\ subRow' = Saved(subCall[s].sub,
                     [subCall[s].copy EXCEPT !.status = "past_due"])
  /\ EndSub(s)
  /\ UNCHANGED <<seen, subLoad>>
  /\ KeepStripe /\ KeepMails /\ KeepCustomer
  /\ BlameSub({})

(* Mutant: the row of a payment that was never confirmed is cancelled too.  *)
EndAlways(s) ==
  /\ SubAt(s, "deleted")
  /\ LET k == subCall[s]
     IN  /\ subRow' = Saved(k.sub, [k.copy EXCEPT !.status = "canceled",
                                                  !.ended = TRUE])
         /\ farewell' = farewell \cup {k.sub}
  /\ EndSub(s)
  /\ UNCHANGED <<seen, welcomed, subLoad>>
  /\ KeepStripe /\ KeepCustomer
  /\ BlameSub({})

(* customer.subscription.deleted: an incomplete row is deleted without a    *)
(* word, any other ends and its end is mailed.                              *)
EndRow(s) ==
  /\ SubAt(s, "deleted")
  /\ LET k == subCall[s]
     IN  IF k.copy.status = "incomplete"
         THEN /\ subRow' = [subRow EXCEPT ![k.sub] = NoRow]
              /\ UNCHANGED farewell
         ELSE /\ subRow' = Saved(k.sub, [k.copy EXCEPT !.status = "canceled",
                                                       !.ended = TRUE])
              /\ farewell' = farewell \cup {k.sub}
  /\ EndSub(s)
  /\ UNCHANGED <<seen, welcomed, subLoad>>
  /\ KeepStripe /\ KeepCustomer
  /\ BlameSub({})

(* A call ends where it is: Stripe or the database failed, or the service   *)
(* stopped.  A claimed event does not come again.                           *)
SubDies(s) ==
  /\ Handles("die")
  /\ subCall[s] # NoSubCall
  /\ EndSub(s)
  /\ UNCHANGED <<subRow, seen, subLoad>>
  /\ KeepStripe /\ KeepMails /\ KeepCustomer
  /\ BlameSub(IF "event" \in DOMAIN subCall[s] THEN {"lost"} ELSE {})

-----------------------------------------------------------------------------
(* A row grows older than 24 hours, an hour after Stripe gave up on it.     *)
Age(b) ==
  /\ Handles("sweep")
  /\ Incomplete(b) /\ ~subRow[b].old
  /\ billed[b].status # "incomplete"
  /\ subRow' = [subRow EXCEPT ![b].old = TRUE]
  /\ UNCHANGED <<seen, subCall, subLoad>>
  /\ KeepStripe /\ KeepMails /\ KeepCustomer
  /\ BlameSub({})

(* Mutant: every row that did not change for 24 hours goes.                 *)
NotPaidFor(b) == subRow[b] # NoRow /\ subRow[b].status # "active"

Stale(b) == Incomplete(b) /\ subRow[b].old

(* One DELETE ... WHERE.                                                    *)
SweepIncomplete ==
  /\ Handles("sweep")
  /\ \E b \in SubIds : Stale(b)
  /\ subRow' = [b \in SubIds |-> IF Stale(b) THEN NoRow ELSE subRow[b]]
  /\ UNCHANGED <<seen, subCall, subLoad>>
  /\ KeepStripe /\ KeepMails /\ KeepCustomer
  /\ BlameSub(IF \E b \in SubIds : Stale(b) /\ (Pending(b) \/ CallsOn(b) # {})
              THEN {"late"} ELSE {})

-----------------------------------------------------------------------------
SubInit ==
  /\ billed = [b \in SubIds |->
       [status |-> "none", flag |-> FALSE, paid |-> FALSE, secret |-> FALSE,
        owner |-> NoCustomer, n |-> 0]]
  /\ subRow = [b \in SubIds |-> NoRow]
  /\ notices = {}
  /\ seen = [b \in SubIds |-> 0]
  /\ welcomed = [b \in SubIds |-> 0]
  /\ farewell = {}
  /\ updates = {}
  /\ subCall = [s \in SubSlots |-> NoSubCall]
  /\ subLoad \in SubLoads
  /\ customer = subLoad.customer
  /\ subFault = {}

SubChanges ==
  {[name |-> n, flag |-> f, trial |-> FALSE] : n \in {"cancel", "terms"},
                                               f \in BOOLEAN} \cup
  {[name |-> "reactivate", flag |-> FALSE, trial |-> FALSE],
   [name |-> "terms", flag |-> FALSE, trial |-> TRUE]}

SubNext ==
  \/ \E b \in subLoad.subs :
       \/ FirstPayment(b)
       \/ FirstDecline(b)
       \/ GiveUpUnpaid(b)
       \/ Renewal(b)
       \/ FailedRenewal(b)
       \/ PeriodEnd(b)
       \/ Age(b)
  \/ \E s \in subLoad.slots :
       \/ ReadUser(s)
       \/ \E c \in CustomerIds : CreateCustomer(s, c)
       \/ \E b \in subLoad.subs : CreateSubscription(s, b)
       \/ InsertRow(s)
       \/ AnswerSecret(s)
       \/ \E b \in subLoad.subs, op \in SubChanges : BeginChange(s, b, op)
       \/ AskStripe(s)
       \/ SaveChange(s)
       \/ \E e \in notices : BeginEvent(s, e) \/ HandleCreated(s, e)
       \/ ReadSync(s)
       \/ SaveSync(s)
       \/ SavePaid(s)
       \/ SavePastDue(s)
       \/ EndRow(s)
       \/ SubDies(s)
  \/ \E c \in CustomerIds : ReceiveCustomer(c) \/ LoseCustomer(c)
  \/ SweepIncomplete

SubSpec == SubInit /\ [][SubNext]_subVars

-----------------------------------------------------------------------------
(* A row that says cancelled, or that ended, is a subscription Stripe bills *)
(* no more, in every state: nobody is told that a subscription is over      *)
(* while the card is still charged.                                         *)
CancelledIsOver ==
  \A b \in SubIds : subRow[b] # NoRow /\ (subRow[b].status = "canceled" \/ subRow[b].ended)
    => billed[b].status = "canceled"

(* With nothing on its way, an incomplete row is one whose first payment    *)
(* was never confirmed, unless two calls on the subscription overlapped or  *)
(* an event was lost; one that comes late or out of order is no excuse.     *)
IncompleteIsUnpaid ==
  SubQuiet => \A b \in SubIds :
    Incomplete(b) /\ billed[b].paid => subFault \cap {"overlap", "lost"} # {}

(* With nothing on its way, the row of a subscription Stripe bills is there *)
(* and agrees on status and schedule.                                       *)
RowFollowsStripe ==
  SubQuiet => \A b \in SubIds :
    ~Agrees(b) => subFault \cap {"overlap", "lost", "disordered", "late"} # {}

(* With nothing on its way, a subscription that Stripe gave up unpaid has   *)
(* no row but one the cron deletes and its end was not mailed, unless its   *)
(* first payment was declined or somebody cancelled it; lost events, late   *)
(* ones and calls that overlap are no excuse.                               *)
UnpaidLeavesNoTrace ==
  SubQuiet => \A b \in SubIds :
    ~Untraced(b) => subFault \cap {"declined", "dropped"} # {}

(* With nothing on its way, a subscription that was paid was welcomed,      *)
(* unless the row was past due before, an event was lost, came late or out  *)
(* of order, or calls overlapped or overtook one.                           *)
PaidIsWelcomed ==
  SubQuiet => \A b \in SubIds :
    billed[b].paid /\ welcomed[b] = 0
      => subFault \cap {"declined", "lost", "late", "disordered", "overlap",
                        "overtaken"} # {}

(* Welcome mails go to subscriptions that were paid, unless the first       *)
(* payment was declined or somebody cancelled the subscription unpaid; and  *)
(* once, unless two calls on the subscription overlapped or its creation is *)
(* notified after a later event.                                            *)
WelcomedOnce ==
  [][\A b \in SubIds : welcomed'[b] # welcomed[b]
       => /\ billed[b].paid \/ subFault \cap {"declined", "dropped"} # {}
          /\ \/ welcomed[b] = 0
             \/ "overlap" \in subFault
             \/ \E e \in notices \ notices' : e.sub = b /\ e.n < seen[b]
    ]_subVars

(* With nothing on its way, the subscriptions of a user are of the one      *)
(* Stripe customer user-service knows, unless the first two were created    *)
(* together or the news of the customer was lost.                           *)
OneCustomer ==
  SubQuiet => \A b \in SubIds :
    billed[b].owner \notin {NoCustomer, customer}
      => subFault \cap {"overlap", "lost"} # {}

(* A subscription's row against Stripe's, through deliveries in any order,  *)
(* sweeps, stops and its owner's requests: cancelled is over, incomplete is *)
(* unpaid, the row follows Stripe, what was never paid leaves no trace, a   *)
(* user has one customer, the paid are welcomed.                            *)
SubscriptionsConsistent ==
  /\ CancelledIsOver /\ IncompleteIsUnpaid /\ RowFollowsStripe
  /\ UnpaidLeavesNoTrace /\ OneCustomer /\ PaidIsWelcomed
=============================================================================
