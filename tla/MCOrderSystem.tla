--------------------------- MODULE MCOrderSystem ---------------------------
(* Small instances of OrderSystem for TLC.                                  *)
EXTENDS OrderSystem, TLC

OrdersSymmetry == Permutations(Orders) \cup Permutations(Calls)
=============================================================================
