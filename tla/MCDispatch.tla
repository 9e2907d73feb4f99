----------------------------- MODULE MCDispatch -----------------------------
(* Two couriers, two orders, two concurrent callers, three delivery ids;  *)
(* for the double-booking question one courier and three orders, so that  *)
(* a courier can be given a second order while a first one is still open. *)
EXTENDS Dispatch, TLC

CONSTANTS p1, p2, o1, o2, o3

MCCouriers == {1, 2}
MCOrders == {o1, o2}
MCProcs == {p1, p2}
MCMaxRows == 3
MCMaxRows2 == 2

MCCouriers1 == {1}
MCOrders3 == {o1, o2, o3}

\* Every DELIVERY_* variable unset: the defaults, all offsets positive.
MCEnvDefault ==
    [MonitorInterval |-> Unset, OnFootDuration |-> Unset,
     ScooterDuration |-> Unset, CarDuration |-> Unset]
\* DELIVERY_DURATION_CAR=0s, a malformed DELIVERY_DURATION_ON_FOOT: a car
\* courier's deliveries are due at once, the others' take the default.
MCEnvCarZero ==
    [MonitorInterval |-> Dur(5), OnFootDuration |-> Malformed,
     ScooterDuration |-> Unset, CarDuration |-> Dur(0)]
\* Courier 1 drives a car; courier 2's transport_type is one the factory
\* does not know ("bicycle"), so it takes the on-foot offset.
MCTransport == [c \in MCCouriers |-> IF c = 1 THEN "car" ELSE "bicycle"]

Symmetry == Permutations(MCOrders) \cup Permutations(MCProcs)
Symmetry3 == Permutations(MCOrders3) \cup Permutations(MCProcs)
=============================================================================
