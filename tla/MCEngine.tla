------------------------------ MODULE MCEngine ------------------------------
(* Instances of Engine for TLC. *)
EXTENDS EngineRefinement, TLC

CONSTANTS u1, u2, e1, e2, o1, o2, o3, o4, p1, p2

TwoUsers == {u1, u2}
OneEvent == {e1}
TwoEvents == {e1, e2}
TwoOrders == {o1, o2}
ThreeOrders == {o1, o2, o3}
FourOrders == {o1, o2, o3, o4}
OneWorker == {p1}
TwoWorkers == {p1, p2}
YesOnly == {"YES"}
YesNo == {"YES", "NO"}
LimitOnly == {OrderTypeLimit}

\* Events are routed to different partitions, or all to the only one.
SplitRouting == [e \in Events |-> IF e = e1 THEN p1 ELSE p2]
OneRouting == [e \in Events |-> p1]

\* Users and orders are interchangeable.
Symmetry == Permutations(Users) \cup Permutations(OrderIds)
=============================================================================
