----------------------------- MODULE MCPurchase -----------------------------
(* Small instances of Purchase for TLC.                                     *)
EXTENDS Purchase, TLC

CONSTANTS x1, x2, i1, i2, key

MCCalls == Checkouts \X (1 .. MaxTries)

PaidEvent(i)     == [type |-> "succeeded", intent |-> i]
DeclinedEvent(i) == [type |-> "payment_failed", intent |-> i]
RefundedEvent(i) == [type |-> "refunded", intent |-> i]

(* Every payment, delivered once.                                           *)
PaidEvents     == {PaidEvent(i) : i \in Intents}
PaidOnce       == PaidEvents \X {1}

(* The three kinds of event of one intent, each delivered once.             *)
AllEvents      == {DeclinedEvent(i1), PaidEvent(i1), RefundedEvent(i1)}
AllOnce        == AllEvents \X {1}

(* A declined card, and the payment delivered twice: a retry or a duplicate.*)
LateEvents     == {DeclinedEvent(i1), PaidEvent(i1)}
PaidTwice      == LateEvents \X {1} \cup {PaidEvent(i1)} \X {2}

RivalsSymmetry ==
  Permutations(Checkouts) \cup Permutations(Intents) \cup Permutations(Orders)

MCEventOf == [d \in Deliveries |-> d[1]]

(* Only the first creation of a checkout may fail.                          *)
FirstCallFaulty == {<<x1, 1>>}
=============================================================================
