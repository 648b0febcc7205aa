-------------------------- MODULE EngineRefinement --------------------------
(***************************************************************************)
(* Engine implements Exchange: the sorted slices are the queues of all     *)
(* prices one after the other, an order is open from its acceptance to its *)
(* last status, and the order being matched is the one whose worker holds  *)
(* the mutex.                                                              *)
(***************************************************************************)
EXTENDS Engine, Subsequences

\* What Exchange keeps of an order.
Abstract(o) ==
    [UserID |-> o.UserID, EventID |-> o.EventID, Outcome |-> o.Outcome, Side |-> o.Side,
     OrderType |-> o.OrderType, Price |-> o.Price, Left |-> o.RemainingQuantity]

OpenIds == {x \in DOMAIN orders : Open(orders[x])}
Priced(price) == {x \in DOMAIN orders : orders[x].Price = price}

\* The orders, the queues and the order being matched, as Exchange sees them.
AbstractOrders == {Abstract(NewOrder(req, 0)) : req \in ValidOrders}
AbstractOpen == [x \in OpenIds |-> Abstract(orders[x])]
AbstractQueue == [k \in BookKeys |-> [price \in Prices |-> Filter(book[k], Priced(price))]]
AbstractActive == IF mu = Free THEN NoOrder ELSE cur[mu]

X == INSTANCE Exchange WITH
        Orders <- OrderIds,
        NewOrders <- AbstractOrders,
        Markets <- BookKeys,
        Nobody <- NoOrder,
        open <- AbstractOpen,
        queue <- AbstractQueue,
        active <- AbstractActive

\* Price-time priority as a trader would state it: the slices, the scan of
\* findCounterparty, the stable sort, the clean-up of dead orders and the
\* critical sections of the workers together behave like one exchange with a
\* first-in first-out queue for every price, in which the best price and the
\* oldest order trade first and no order is matched while another one is.
ImplementsExchange == X!ExchangeSpec
=============================================================================
