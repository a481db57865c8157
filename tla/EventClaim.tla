----------------------------- MODULE EventClaim -----------------------------
(***************************************************************************)
(* What the processed_webhooks table promises of each Stripe event: it is  *)
(* in the hands of at most one activation at a time, which either settles  *)
(* it for good or gives it back.  An activation that dies keeps its event. *)
(***************************************************************************)
EXTENDS Naturals

CONSTANTS
  Events,
  Deliveries    \* activations of the event handler

VARIABLES
  holders,      \* the activations that claimed an event and kept it
  settled       \* the events processed to the end

claimVars == <<holders, settled>>

ClaimInit ==
  /\ holders = [e \in Events |-> {}]
  /\ settled = {}

Acquire(e) ==
  /\ holders[e] = {} /\ holders'[e] # {}
  /\ \E d \in Deliveries : holders' = [holders EXCEPT ![e] = {d}]
  /\ UNCHANGED settled

GiveBack(e) ==
  /\ holders[e] # {} /\ e \notin settled
  /\ holders' = [holders EXCEPT ![e] = {}]
  /\ UNCHANGED settled

Settle(e) ==
  /\ holders[e] # {} /\ e \notin settled
  /\ settled' = settled \cup {e}
  /\ UNCHANGED holders

ClaimNext == \E e \in Events : Acquire(e) \/ GiveBack(e) \/ Settle(e)

ClaimSpec == ClaimInit /\ [][ClaimNext]_claimVars
=============================================================================
