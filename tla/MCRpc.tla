------------------------------- MODULE MCRpc -------------------------------
(***************************************************************************)
(* Rpc on small instances: one request creates an event, one an order on   *)
(* it, and a third submits the same order again, cancels it, or signs a    *)
(* user up. With one channel they hear each other's replies.               *)
(***************************************************************************)
EXTENDS Rpc

CONSTANTS r1, r2, r3, ev, x

Asks(type) == [type |-> type, event |-> ev, order |-> x]

Three == {r1, r2, r3}
ThreeRequests ==
    {[r \in Three |-> CASE r = r1 -> Asks("CREATE_EVENT")
                        [] r = r2 -> Asks("CREATE_ORDER")
                        [] r = r3 -> Asks(third)]
        : third \in {"CREATE_ORDER", "CANCEL_ORDER", "SIGNUP"}}
=============================================================================
