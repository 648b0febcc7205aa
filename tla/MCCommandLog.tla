---------------------------- MODULE MCCommandLog ----------------------------
(***************************************************************************)
(* CommandLog on small instances: two engines and two orders.              *)
(***************************************************************************)
EXTENDS CommandLog, TLC

CONSTANTS e1, e2, x, y, NoEngine

TwoEngines == {e1, e2}
TwoOrders == {x, y}

\* Orders are interchangeable, and so are engines: the first order is x, and
\* e1 is the first to get the lease.
FirstNames ==
    /\ log = << >> /\ log' # << >> => log'[1].order = x
    /\ valid = {} /\ faults = 0 => lease' # e2
=============================================================================
