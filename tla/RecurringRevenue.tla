-------------------------- MODULE RecurringRevenue --------------------------
(***************************************************************************)
(* GET_MRR of analytics-service: the revenue of the subscriptions that are *)
(* active, and that of the ends of the past months, computed from what the *)
(* rows said when they were fetched and kept for a day, while the whole    *)
(* answer is kept for ten minutes.  Revenue is the set of the              *)
(* subscriptions that are counted.  Time is counted in months; what is     *)
(* kept expires at any time.                                               *)
(***************************************************************************)
EXTENDS Integers, FiniteSets

CONSTANTS PlanIds,      \* the subscriptions
          LastMonth,    \* a bound on the clock
          MrrSlots,     \* bounds the calls of getMrr in flight
          NoPlan, NoMonth, NotKept

ASSUME RevenueAssumption == LastMonth \in Nat /\ NoMonth \notin Nat

VARIABLES
  month,
  plan,       \* the rows: the months they were made, changed and cancelled in
  truth,      \* the subscriptions that were active when a past month ended
  kept,       \* the rows mrr:history:<month> of the cache
  current,    \* its row mrr:current: [asOf, history]
  mrrCall,    \* the calls of getMrr in flight
  odd         \* what befell a subscription

mrrVars == <<kept, current, mrrCall>>
revenueVars == <<month, plan, truth, mrrVars, odd>>

Months == 0..LastMonth
Past == {m \in Months : m < month}

PlanRow == [made : Months, status : {"incomplete", "active", "past_due", "cancelled"},
            cancelledAt : Months \cup {NoMonth}, updatedAt : Months]

(* What is told of a month: the subscriptions that count, and whether it    *)
(* was computed from no answer ("silent"), or from one given before the     *)
(* month ended while the clock was read after ("early").                    *)
Entry == [of : SUBSET PlanIds, marks : SUBSET {"silent", "early"}]
NoMrrCall == [pc |-> "idle"]

(* NoPlan, which stands for no row, is none.                                *)
ASSUME NoPlanAssumption == NoPlan \notin PlanRow

RevenueInit ==
  /\ month = 0
  /\ plan = [p \in PlanIds |-> NoPlan]
  /\ truth = [m \in Months |-> {}]
  /\ kept = [m \in Months |-> NotKept]
  /\ current = NotKept
  /\ mrrCall = [s \in MrrSlots |-> NoMrrCall]
  /\ odd = [p \in PlanIds |-> {}]

InPlan(p, s) == plan[p] # NoPlan /\ plan[p].status = s
Active == {p \in PlanIds : InPlan(p, "active")}

Note(p, what) == odd' = [odd EXCEPT ![p] = @ \cup {what}]

MonthEnds ==
  /\ month < LastMonth
  /\ month' = month + 1
  /\ truth' = [truth EXCEPT ![month] = Active]
  /\ UNCHANGED <<plan, mrrVars, odd>>

(* What payment-service does to the rows, the events of Stripe in the order *)
(* they happened; every save sets updatedAt.                                *)
Saved(p, row) == plan' = [plan EXCEPT ![p] = [row EXCEPT !.updatedAt = month]]

NewPlan(p) ==
  /\ plan[p] = NoPlan
  /\ plan' = [plan EXCEPT ![p] = [made |-> month, status |-> "incomplete",
                  cancelledAt |-> NoMonth, updatedAt |-> month]]
  /\ UNCHANGED <<month, truth, mrrVars, odd>>

(* The sweep, or the event that ends it, deletes what was never paid for.   *)
Abandon(p) ==
  /\ InPlan(p, "incomplete")
  /\ plan' = [plan EXCEPT ![p] = NoPlan]
  /\ UNCHANGED <<month, truth, mrrVars, odd>>

Paid(p) ==
  /\ InPlan(p, "incomplete") \/ InPlan(p, "past_due")
  /\ Saved(p, [plan[p] EXCEPT !.status = "active"])
  /\ IF plan[p].made = month THEN UNCHANGED odd ELSE Note(p, "unpaid")
  /\ UNCHANGED <<month, truth, mrrVars>>

FallDue(p) ==
  /\ InPlan(p, "active") \/ InPlan(p, "incomplete")
  /\ Saved(p, [plan[p] EXCEPT !.status = "past_due"])
  /\ Note(p, "unpaid")
  /\ UNCHANGED <<month, truth, mrrVars>>

(* A customer or an administrator ends it, at the end of its period or at   *)
(* once, whether it was ever paid for or not.                               *)
Open(p) == plan[p] # NoPlan /\ plan[p].status # "cancelled"
NoteIfUnpaid(p) ==
  IF InPlan(p, "incomplete") THEN Note(p, "unpaid") ELSE UNCHANGED odd

AskToEnd(p) ==
  /\ Open(p)
  /\ Saved(p, [plan[p] EXCEPT !.cancelledAt = month])
  /\ NoteIfUnpaid(p)
  /\ UNCHANGED <<month, truth, mrrVars>>

Reactivate(p) ==
  /\ Open(p) /\ plan[p].cancelledAt # NoMonth
  /\ Saved(p, [plan[p] EXCEPT !.cancelledAt = NoMonth])
  /\ UNCHANGED <<month, truth, mrrVars, odd>>

CancelNow(p) ==
  /\ Open(p)
  /\ Saved(p, [plan[p] EXCEPT !.status = "cancelled", !.cancelledAt = month])
  /\ NoteIfUnpaid(p)
  /\ UNCHANGED <<month, truth, mrrVars>>

(* Stripe ends it, or says that it has: cancelledAt stays the day it was    *)
(* asked for, or empty.                                                     *)
End(p) ==
  /\ plan[p] # NoPlan /\ plan[p].status # "incomplete"
  /\ Saved(p, [plan[p] EXCEPT !.status = "cancelled"])
  /\ IF plan[p].cancelledAt = month \/ ~Open(p) THEN UNCHANGED odd
     ELSE Note(p, IF plan[p].cancelledAt = NoMonth THEN "undated" ELSE "asked")
  /\ UNCHANGED <<month, truth, mrrVars>>

(* The subscriptions that were active at the end of a month, as far as the  *)
(* rows still tell.                                                         *)
(* Mutant: those made later count.                                          *)
CountedEver(m, answered) ==
  {p \in PlanIds :
     /\ answered /\ plan[p] # NoPlan
     /\ \/ plan[p].status = "active"
        \/ plan[p].cancelledAt # NoMonth /\ plan[p].cancelledAt > m}
Counted(m, answered) ==
  {p \in PlanIds :
     /\ answered /\ plan[p] # NoPlan /\ plan[p].made <= m
     /\ \/ plan[p].status = "active"
        \/ plan[p].cancelledAt # NoMonth /\ plan[p].cancelledAt > m}

(* GET_DASHBOARD: the subscriptions that ended this month, and those that   *)
(* were active before it; cancelledAt dates the end, or else updatedAt.     *)
EndOf(p) ==
  IF plan[p].cancelledAt # NoMonth THEN plan[p].cancelledAt ELSE plan[p].updatedAt
Churned == {p \in PlanIds : InPlan(p, "cancelled") /\ EndOf(p) = month}
(* Mutant: what was asked to end counts as ended.                           *)
ActiveBeforeAsked ==
  {p \in PlanIds : /\ plan[p] # NoPlan /\ plan[p].made < month
                    /\ EndOf(p) = month}
ActiveBefore ==
  {p \in PlanIds : /\ plan[p] # NoPlan /\ plan[p].made < month
                    /\ (plan[p].status = "active" \/ EndOf(p) = month)}

(* GET_MRR: the rows of all subscriptions; a service that does not answer   *)
(* has none.  A look-up in the cache that fails finds nothing, so that a    *)
(* call may compute what is kept.                                           *)
FetchSubscriptions(s, answered) ==
  /\ mrrCall[s] = NoMrrCall
  /\ mrrCall' = [mrrCall EXCEPT ![s] =
       [pc |-> "fetched", at |-> month, marks |-> IF answered THEN {} ELSE {"silent"},
        told |-> [m \in Months |-> Counted(m, answered)]]]
  /\ UNCHANGED <<month, plan, truth, kept, current, odd>>

(* now: which months are past.                                              *)
StartHistory(s) ==
  /\ mrrCall[s].pc = "fetched"
  /\ LET k == mrrCall[s]
     IN  mrrCall' = [mrrCall EXCEPT ![s] =
           [pc |-> "month", at |-> k.at, marks |-> k.marks, told |-> k.told,
            asOf |-> month, next |-> 0, history |-> [m \in Months |-> NotKept]]]
  /\ UNCHANGED <<month, plan, truth, kept, current, odd>>

MrrAt(s, pc) == mrrCall[s].pc = pc
MrrStep(s, k) == mrrCall' = [mrrCall EXCEPT ![s] = k]
Push(k, entry) ==
  [k EXCEPT !.pc = "month", !.history[k.next] = entry, !.next = @ + 1]

(* A past month that is kept.                                               *)
MonthFromRow(s) ==
  /\ MrrAt(s, "month")
  /\ LET k == mrrCall[s]
     IN  /\ k.next < k.asOf /\ kept[k.next] # NotKept
         /\ MrrStep(s, Push(k, kept[k.next]))
  /\ UNCHANGED <<month, plan, truth, kept, current, odd>>

(* The running month is never kept.  Mutant: it is.                         *)
MonthsToKeepAll(asOf) == 0..asOf
MonthsToKeep(asOf) == {m \in Months : m < asOf}

MarksOf(k) ==
  k.marks \cup (IF k.at <= k.next /\ k.next < k.asOf THEN {"early"} ELSE {})
Computed(k) == [of |-> k.told[k.next], marks |-> MarksOf(k)]

ComputeMonth(s) ==
  /\ MrrAt(s, "month")
  /\ LET k == mrrCall[s]
     IN  /\ k.next <= k.asOf
         /\ MrrStep(s, IF k.next \in MonthsToKeep(k.asOf) THEN [k EXCEPT !.pc = "keep"]
                       ELSE Push(k, Computed(k)))
  /\ UNCHANGED <<month, plan, truth, kept, current, odd>>

(* A save that fails is swallowed.                                          *)
KeepMonth(s, saved) ==
  /\ MrrAt(s, "keep")
  /\ LET k == mrrCall[s]
     IN  /\ kept' = [kept EXCEPT ![k.next] = IF saved THEN Computed(k) ELSE @]
         /\ MrrStep(s, Push(k, Computed(k)))
  /\ UNCHANGED <<month, plan, truth, current, odd>>

(* The answer; it is what mrr:current answers from then on.                 *)
SaveMrr(s, saved) ==
  /\ MrrAt(s, "month")
  /\ LET k == mrrCall[s]
     IN  /\ k.next > k.asOf
         /\ current' = IF saved THEN [asOf |-> k.asOf, history |-> k.history]
                       ELSE current
  /\ MrrStep(s, NoMrrCall)
  /\ UNCHANGED <<month, plan, truth, kept, odd>>

MrrDies(s) ==
  /\ mrrCall[s] # NoMrrCall
  /\ MrrStep(s, NoMrrCall)
  /\ UNCHANGED <<month, plan, truth, kept, current, odd>>

KeptExpires(m) ==
  /\ kept[m] # NotKept
  /\ kept' = [kept EXCEPT ![m] = NotKept]
  /\ UNCHANGED <<month, plan, truth, current, mrrCall, odd>>

CurrentExpires ==
  /\ current # NotKept
  /\ current' = NotKept
  /\ UNCHANGED <<month, plan, truth, kept, mrrCall, odd>>

RevenueNext ==
  \/ MonthEnds
  \/ \E p \in PlanIds :
       \/ NewPlan(p) \/ Abandon(p) \/ Paid(p) \/ FallDue(p)
       \/ AskToEnd(p) \/ Reactivate(p) \/ CancelNow(p) \/ End(p)
  \/ \E s \in MrrSlots :
       \/ \E answered \in BOOLEAN : FetchSubscriptions(s, answered)
       \/ StartHistory(s) \/ MonthFromRow(s) \/ ComputeMonth(s)
       \/ \E saved \in BOOLEAN : KeepMonth(s, saved) \/ SaveMrr(s, saved)
       \/ MrrDies(s)
  \/ \E m \in Months : KeptExpires(m)
  \/ CurrentExpires

RevenueSpec == RevenueInit /\ [][RevenueNext]_revenueVars
----------------------------------------------------------------------------
(* The rows and the months have their types.                                *)
RevenueTypeOK ==
  /\ month \in Months
  /\ \A p \in PlanIds : plan[p] # NoPlan =>
       /\ plan[p].made \in 0..month
       /\ plan[p].status \in {"incomplete", "active", "past_due", "cancelled"}
       /\ plan[p].cancelledAt \in 0..month \cup {NoMonth}
       /\ plan[p].updatedAt \in 0..month
  /\ truth \in [Months -> SUBSET PlanIds]
  /\ kept \in [Months -> Entry \cup {NotKept}]
  /\ \A p \in PlanIds : odd[p] \subseteq {"undated", "asked", "unpaid"}

(* What is told of a month as one that has ended: in the row that keeps it, *)
(* in the answer that is kept, or in one that a call puts together.         *)
Histories ==
  {current} \cup {mrrCall[s] : s \in {t \in MrrSlots : MrrAt(t, "month") \/ MrrAt(t, "keep")}}
ToldOf(m) ==
  ({kept[m]} \cup {h.history[m] : h \in {x \in Histories \ {NotKept} : m < x.asOf}})
    \ {NotKept}

(* The history told of a past month is what was active when it ended, save  *)
(* for three things the rows no longer tell: a subscription that was not    *)
(* paid for yet, or no longer, one that ended without a date, and one that  *)
(* ended later than it was asked to; for a service that was silent when the *)
(* month was computed; and for a month that ended between the answer it was *)
(* computed from and the look at the clock.  These are kept for a day.      *)
HistoryBlamed ==
  \A m \in Past : \A e \in ToldOf(m), p \in PlanIds :
    (p \in e.of) # (p \in truth[m]) => odd[p] # {} \/ e.marks # {}

(* No past month is told to have counted more than was active, but for a    *)
(* subscription that was not paid for then: one that has paid since, or was *)
(* ended unpaid; and for a month that ended under the computation.          *)
HistoryNeverMore ==
  \A m \in Past : \A e \in ToldOf(m) :
    \A p \in e.of \ truth[m] : "unpaid" \in odd[p] \/ "early" \in e.marks

(* The dashboard compares with what was active when the last month ended,   *)
(* and what churned since was active then or is new: save for the same      *)
(* three things, and for one that waits for its first payment.              *)
ChangeBlamed ==
  month > 0 =>
    \A p \in PlanIds :
      /\ (p \in ActiveBefore) # (p \in truth[month - 1]) =>
           odd[p] # {} \/ InPlan(p, "incomplete")
      /\ p \in truth[month - 1] \ Active /\ odd[p] = {} => p \in Churned
=============================================================================
