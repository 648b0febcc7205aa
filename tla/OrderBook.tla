----------------------------- MODULE OrderBook -----------------------------
(***************************************************************************)
(* The pure matching algorithms of internal/engine: which resting order an *)
(* incoming order trades with, where an order is inserted into one side of *)
(* a price-time sorted book, and what a side looks like once orders leave  *)
(* it.                                                                     *)
(*                                                                         *)
(* One side of a book is a sequence of order ids (the code keeps a slice   *)
(* of pointers); `orders' is the engine's order map, a function from the   *)
(* known ids to order records.                                             *)
(***************************************************************************)
EXTENDS Integers, Sequences, FiniteSets

SideBuy  == "BUY"
SideSell == "SELL"
Sides    == {SideBuy, SideSell}

OrderTypeLimit  == "LIMIT"
OrderTypeMarket == "MARKET"
OrderTypes      == {OrderTypeLimit, OrderTypeMarket}

StatusPending  == "PENDING"
StatusPartial  == "PARTIAL"
StatusFilled   == "FILLED"
StatusCanceled == "CANCELED"
\* The code also has StatusRejected: an order gets it only after it has left,
\* or before it has entered, the order map, so no record of the map holds it.
Statuses == {StatusPending, StatusPartial, StatusFilled, StatusCanceled}

Opposite(side) == IF side = SideBuy THEN SideSell ELSE SideBuy

\* An order that may still trade.
Open(order) == order.Status \in {StatusPending, StatusPartial}

\* The orders findCounterparty ignores and removeInvalidBids/Asks discards.
Dead(order) ==
    \/ order.Status \in {StatusFilled, StatusCanceled}
    \/ order.RemainingQuantity <= 0

\* A fault: the larger quantity is traded.
MinIsMax(a, b) == IF a < b THEN b ELSE a

Min2(a, b) == IF a < b THEN a ELSE b

-----------------------------------------------------------------------------
(* Price-time priority                                                     *)

\* Does price a come strictly before price b on this side of a book? Bids are
\* sorted from the highest price, asks from the lowest.
Better(side, a, b) == IF side = SideBuy THEN a > b ELSE a < b

\* The ids on a side, and that none is there twice.
Ids(s) == {s[i] : i \in DOMAIN s}
Distinct(s) == \A i, j \in DOMAIN s : s[i] = s[j] => i = j

\* The side s with the id x put at index k + 1.
InsertAfter(s, k, x) ==
    [i \in 1 .. Len(s) + 1 |->
        IF i <= k THEN s[i] ELSE IF i = k + 1 THEN x ELSE s[i - 1]]

\* A fault: the neighbour of the order that left is dropped instead.
RemoveIndexNext(s, k) ==
    [i \in 1 .. Len(s) - 1 |-> IF i <= k THEN s[i] ELSE s[i + 1]]

\* The side s without its element at index k (removeOrderIndex).
RemoveIndex(s, k) ==
    [i \in 1 .. Len(s) - 1 |-> IF i < k THEN s[i] ELSE s[i + 1]]

\* A fault: an equally priced newcomer jumps the queue.
AddToBookLifo(orders, s, x) ==
    LET ahead == {i \in DOMAIN s :
                    Better(orders[x].Side, orders[s[i]].Price, orders[x].Price)}
    IN  InsertAfter(s, Cardinality(ahead), x)

\* addToBook appends the order and sorts the side with a stable sort. On a side
\* that is sorted already that puts it behind every order it does not beat.
\* MCOrderBook has the literal reading, StableSort, and compares the two.
AddToBook(orders, s, x) ==
    LET ahead == {i \in DOMAIN s :
                    ~Better(orders[x].Side, orders[x].Price, orders[s[i]].Price)}
    IN  InsertAfter(s, Cardinality(ahead), x)

-----------------------------------------------------------------------------
(* Choosing the counterparty                                               *)

\* A fault: equal prices do not meet.
CanMatchStrictly(incoming, resting) ==
    /\ incoming.Outcome = resting.Outcome
    /\ \/ incoming.OrderType = OrderTypeMarket
       \/ incoming.Side = SideBuy  /\ resting.Price < incoming.Price
       \/ incoming.Side = SideSell /\ resting.Price > incoming.Price

\* May the incoming order trade at the resting order's price?
CanMatch(incoming, resting) ==
    /\ incoming.Outcome = resting.Outcome
    /\ \/ incoming.OrderType = OrderTypeMarket
       \/ incoming.Side = SideBuy  /\ resting.Price <= incoming.Price
       \/ incoming.Side = SideSell /\ resting.Price >= incoming.Price

\* The indices of s an incoming order could trade with: alive, of another user
\* (self-trade prevention skips the resting order) and at an acceptable price.
Candidates(orders, s, incoming) ==
    {i \in DOMAIN s :
        /\ ~Dead(orders[s[i]])
        /\ orders[s[i]].UserID # incoming.UserID
        /\ CanMatch(incoming, orders[s[i]])}

\* A fault: the scan goes on to the last candidate.
FindCounterpartyLast(orders, s, incoming, i) ==
    /\ i \in Candidates(orders, s, incoming)
    /\ \A j \in Candidates(orders, s, incoming) : j <= i

\* Is i what findCounterparty returns: the first candidate?
FindCounterparty(orders, s, incoming, i) ==
    /\ i \in Candidates(orders, s, incoming)
    /\ \A j \in Candidates(orders, s, incoming) : i <= j

\* removeInvalidBids and removeInvalidAsks: the dead orders at the front go.
RemoveInvalid(orders, s) ==
    LET alive == {i \in DOMAIN s : ~Dead(orders[s[i]])}
    IN  IF alive = {}
        THEN <<>>
        ELSE SubSeq(s, CHOOSE i \in alive : \A j \in alive : i <= j, Len(s))

\* removeOrderFromSlice: the first element with the id goes, if there is one.
RemoveOrder(s, x) ==
    LET at == {i \in DOMAIN s : s[i] = x}
    IN  IF at = {}
        THEN s
        ELSE RemoveIndex(s, CHOOSE i \in at : \A j \in at : i <= j)

-----------------------------------------------------------------------------
(* Order book depth                                                        *)

\* The resting orders aggregateBids and aggregateAsks count, and those of them
\* at one price.
Counted(order) == Open(order) /\ order.RemainingQuantity > 0

AtPrice(orders, s, price) ==
    {i \in DOMAIN s : Counted(orders[s[i]]) /\ orders[s[i]].Price = price}
=============================================================================
