------------------------------- MODULE MCPoller -------------------------------
(* Model values and bounds for checking Poller with TLC. *)
EXTENDS Poller, TLC

CONSTANTS o1, o2

MCOrders == {o1, o2}
OrderSymmetry == Permutations(MCOrders)
=============================================================================
