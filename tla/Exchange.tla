------------------------------ MODULE Exchange ------------------------------
(***************************************************************************)
(* What the matching engine promises to traders, without slices, scans,    *)
(* workers or ledgers: a book is a queue of orders for every side and      *)
(* price. An order that arrives is matched, one at a time and without      *)
(* interruption, against the best price on the other side and the oldest   *)
(* order there, passing over orders of the same user. A limit order that   *)
(* is left over joins the end of the queue of its price; anything else     *)
(* leaves. EngineRefinement shows that Engine implements this.             *)
(***************************************************************************)
EXTENDS OrderBook

CONSTANTS
    Orders,      \* order ids
    NewOrders,   \* what an order may be when it arrives
    Markets,     \* keys of a side: event, outcome, side
    Prices,
    Nobody       \* value of active while no order is being matched

VARIABLES
    open,    \* the orders that may still trade
    queue,   \* for every side and price, the resting orders, oldest first
    active   \* the order that is being matched

exchangeVars == <<open, queue, active>>

Key(o, side) == <<o.EventID, o.Outcome, side>>

\* Orders that have arrived and do not rest.
Resting == UNION {Ids(queue[k][p]) : k \in Markets, p \in Prices}
Arriving == DOMAIN open \ Resting

\* The orders that x may trade with, wherever they are in their queues.
Partners(x) ==
    LET k == Key(open[x], Opposite(open[x].Side))
    IN  {y \in UNION {Ids(queue[k][p]) : p \in Prices} :
            /\ open[y].UserID # open[x].UserID
            /\ CanMatch(open[x], open[y])}

\* Price-time priority: y has the best price among them, and none of them is
\* ahead of it in its queue.
First(x, y) ==
    LET k == Key(open[x], Opposite(open[x].Side))
        q == queue[k][open[y].Price]
    IN  /\ y \in Partners(x)
        /\ \A z \in Partners(x) : ~Better(k[3], open[z].Price, open[y].Price)
        /\ \A i, j \in DOMAIN q : q[j] = y /\ i < j => q[i] \notin Partners(x)

-----------------------------------------------------------------------------
ExchangeInit ==
    /\ open = [x \in {} |-> x]
    /\ queue = [k \in Markets |-> [p \in Prices |-> << >>]]
    /\ active = Nobody

\* An order arrives.
Arrive(x) ==
    /\ active = Nobody
    /\ x \notin DOMAIN open
    /\ \E o \in NewOrders :
          open' = [y \in DOMAIN open \cup {x} |-> IF y = x THEN o ELSE open[y]]
    /\ UNCHANGED <<queue, active>>

\* Its turn comes.
Begin(x) ==
    /\ active = Nobody
    /\ x \in Arriving
    /\ active' = x
    /\ UNCHANGED <<open, queue>>

\* It trades as much as it can with the first of its partners.
TradeWith(y) ==
    LET x == active
        q == Min2(open[x].Left, open[y].Left)
        k == Key(open[y], open[y].Side)
    IN  /\ x # Nobody
        /\ open[x].Left > 0
        /\ First(x, y)
        /\ IF open[y].Left = q
           THEN /\ open' = [z \in DOMAIN open \ {y} |->
                              IF z = x THEN [open[x] EXCEPT !.Left = @ - q] ELSE open[z]]
                /\ queue' = [queue EXCEPT ![k][open[y].Price] = RemoveOrder(@, y)]
           ELSE /\ open' = [open EXCEPT ![x].Left = @ - q, ![y].Left = @ - q]
                /\ UNCHANGED queue
        /\ UNCHANGED active

\* It rests, when it is a limit order and nobody is left to trade with.
Rest ==
    LET x == active
    IN  /\ x # Nobody
        /\ open[x].Left > 0
        /\ open[x].OrderType = OrderTypeLimit
        /\ Partners(x) = {}
        /\ queue' = [queue EXCEPT ![Key(open[x], open[x].Side)][open[x].Price] = Append(@, x)]
        /\ active' = Nobody
        /\ UNCHANGED open

\* It leaves, when it is filled, or has no limit and nobody to trade with.
Leave ==
    LET x == active
    IN  /\ x # Nobody
        /\ open[x].Left = 0 \/ (open[x].OrderType = OrderTypeMarket /\ Partners(x) = {})
        /\ open' = [y \in DOMAIN open \ {x} |-> open[y]]
        /\ active' = Nobody
        /\ UNCHANGED queue

\* An order is canceled, or withdrawn because it could not be announced.
Withdraw(x) ==
    /\ active = Nobody
    /\ x \in DOMAIN open
    /\ queue' = [k \in Markets |-> [p \in Prices |-> RemoveOrder(queue[k][p], x)]]
    /\ open' = [y \in DOMAIN open \ {x} |-> open[y]]
    /\ UNCHANGED active

ExchangeNext ==
    \/ \E x \in Orders : Arrive(x) \/ Begin(x) \/ TradeWith(x) \/ Withdraw(x)
    \/ Rest
    \/ Leave

ExchangeSpec == ExchangeInit /\ [][ExchangeNext]_exchangeVars
=============================================================================
