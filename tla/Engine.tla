------------------------------- MODULE Engine -------------------------------
(***************************************************************************)
(* The matching engine of one process (internal/engine/engine.go and       *)
(* ledger.go): markets, order books, the order map and the cash and share  *)
(* ledger, all guarded by the engine mutex, and one worker goroutine per   *)
(* partition that handles that partition's commands one at a time.         *)
(*                                                                         *)
(* Everything a handler does between Lock and Unlock without a loop is one *)
(* action. The matching loop is one action per iteration and holds the     *)
(* mutex from the first to the last; the three stretches of a CREATE_ORDER *)
(* that run without the mutex (after the reservation, around the           *)
(* ORDER_CREATED emit, and while trades are published) are separate        *)
(* phases in which the workers of other partitions run.                    *)
(*                                                                         *)
(* In the code the ledger settles the trades of a match after the loop     *)
(* that produced them, in the same critical section and in the same order. *)
(* The loop reads nothing the settlement writes, and nobody else can look, *)
(* so here each iteration settles its own trade.                           *)
(*                                                                         *)
(* Not here: the Redis streams the commands and events travel through, the *)
(* outbox (Outbox), who owns a partition (PartitionOwnership) and replay.  *)
(***************************************************************************)
EXTENDS OrderBook, FiniteSetsExt

CONSTANTS
    Users,            \* users that sign up and trade
    Events,           \* prediction events; each has a market per engine
    Outcomes,         \* the outcomes traded: "YES" and "NO" in the code
    OrderIds,         \* ids clients give to their orders
    Partitions,       \* partitions this engine owns; one worker for each
    PartitionOf,      \* the router: which partition an event's commands go to
    DefaultPartition, \* where a command without an event id is routed
    Quantities,       \* share quantities an order may ask for
    Prices,           \* limit prices an order may carry
    BuyTypes,         \* order types a BUY may have
    StartingBalance,  \* cash granted by USER_CREATED
    SeedShares,       \* shares of every outcome each user starts with
    MaxInt,           \* largest machine integer (2^63 - 1 in the code)
    RedisFails,       \* may an emit fail?
    LostFanout,       \* may a partition see orders of a user whose
                      \* USER_CREATED it never received?
    UnroutedCancels,  \* may a CANCEL_ORDER come without an event id?
    Free,             \* value of mu while no worker holds the engine mutex
    NoOrder           \* value of cur[p] while worker p handles no order

ASSUME RoutingAssumption ==
    /\ PartitionOf \in [Events -> Partitions]
    /\ DefaultPartition \in Partitions

ASSUME AmountsAssumption ==
    /\ Quantities \subseteq Nat \ {0}
    /\ Prices \subseteq Nat \ {0}
    /\ BuyTypes \subseteq OrderTypes
    /\ StartingBalance \in Nat
    /\ SeedShares \in Nat
    /\ MaxInt \in Nat

ASSUME SwitchesAssumption ==
    /\ RedisFails \in BOOLEAN
    /\ LostFanout \in BOOLEAN
    /\ UnroutedCancels \in BOOLEAN

ASSUME NullsAssumption == Free \notin Partitions /\ NoOrder \notin OrderIds

VARIABLES
    mu,         \* which worker is inside the matching loop's critical section
    markets,    \* events with a market
    book,       \* the sides of the books, price-time sorted order ids
    orders,     \* e.orders
    accounts,   \* users with an entry in e.balances
    balance,    \* e.balances; the zero balance for a user without an entry
    position,   \* e.positions; the zero position when there is no entry
    pc,         \* what each partition's worker is doing
    cur,        \* the order it is doing it with
    trades,     \* trades it has executed and not yet published
    welcomed,   \* users whose USER_CREATED was handled (history)
    createdOut, \* orders whose ORDER_CREATED is in the event stream (history)
    canceledOut \* orders whose ORDER_CANCELED is in it (history)

ledgerVars == <<accounts, balance, position>>
marketVars == <<mu, markets, book, orders>>
workerVars == <<pc, cur, trades>>
historyVars == <<welcomed, createdOut, canceledOut>>
vars == <<marketVars, ledgerVars, workerVars, historyVars>>

-----------------------------------------------------------------------------
(* Types                                                                   *)

Holding == [Available : Int, Reserved : Int]
Zero == [Available |-> 0, Reserved |-> 0]

Order == [UserID : Users, EventID : Events, Outcome : Outcomes, Side : Sides,
          OrderType : OrderTypes, Price : Nat,
          Quantity : Nat \ {0}, FilledQuantity : Nat, RemainingQuantity : Nat,
          Status : Statuses, LockedFunds : Int]

Trade == [OrderID : OrderIds, MatchOrderID : OrderIds,
          BuyerID : Users, SellerID : Users,
          EventID : Events, Outcome : Outcomes,
          Quantity : Nat \ {0}, Price : Nat]

Phases == {"idle", "announce", "match", "matching", "publish", "cancelEmit"}

BookKeys == Events \X Outcomes \X Sides
PositionKeys == Users \X Events \X Outcomes

\* Every variable has its type.
TypeOK ==
    /\ mu \in Partitions \cup {Free}
    /\ markets \subseteq Events
    /\ book \in [BookKeys -> Seq(OrderIds)]
    /\ DOMAIN orders \subseteq OrderIds
    /\ orders \in [DOMAIN orders -> Order]
    /\ accounts \subseteq Users
    /\ balance \in [Users -> Holding]
    /\ position \in [PositionKeys -> Holding]
    /\ pc \in [Partitions -> Phases]
    /\ cur \in [Partitions -> OrderIds \cup {NoOrder}]
    /\ trades \in [Partitions -> Seq(Trade)]
    /\ welcomed \subseteq Users
    /\ createdOut \subseteq OrderIds
    /\ canceledOut \subseteq OrderIds

-----------------------------------------------------------------------------
(* The ledger                                                              *)

\* A product as the code computes it, in two's complement.
Int64(x) ==
    IF x \in (-MaxInt - 1) .. MaxInt
    THEN x
    ELSE ((x + MaxInt + 1) % (2 * MaxInt + 2)) - MaxInt - 1

\* The "if x < 0 { x = 0 }" that follows every subtraction from a reservation.
AtLeastZero(x) == IF x < 0 THEN 0 ELSE x

BookKey(o) == <<o.EventID, o.Outcome, o.Side>>
OppositeKey(o) == <<o.EventID, o.Outcome, Opposite(o.Side)>>
PositionKey(o) == <<o.UserID, o.EventID, o.Outcome>>

\* What reserveOrderLocked freezes for an order: shares for a SELL; for a BUY
\* its full cost, or all the user's available cash if it has no limit price.
ReserveAmount(o) ==
    CASE o.Side = SideSell -> o.RemainingQuantity
      [] o.Side = SideBuy /\ o.OrderType = OrderTypeMarket ->
            balance[o.UserID].Available
      [] OTHER -> Int64(o.RemainingQuantity * o.Price)

\* What the user can freeze it from.
AvailableFor(o) ==
    IF o.Side = SideBuy THEN balance[o.UserID].Available
                        ELSE position[PositionKey(o)].Available

\* Freeze amount x of a holding.
Reserve(h, x) == [Available |-> h.Available - x, Reserved |-> h.Reserved + x]

\* A fault: what is given back stays reserved.
ReleaseKeepsReserved(h, x) == [h EXCEPT !.Available = @ + x]

\* Give amount x back.
Release(h, x) == [Available |-> h.Available + x,
                  Reserved  |-> AtLeastZero(h.Reserved - x)]

\* Take amount x, spent, out of what is frozen.
Spend(h, x) == [Available |-> h.Available, Reserved |-> AtLeastZero(h.Reserved - x)]

\* Add amount x that was received.
Receive(h, x) == [Available |-> h.Available + x, Reserved |-> h.Reserved]

-----------------------------------------------------------------------------
(* Commands                                                                *)

\* newEngine: an engine knows no market, order or account. Shares exist only
\* as seeded positions, because no command issues them.
Init ==
    /\ mu = Free
    /\ markets = {}
    /\ book = [k \in BookKeys |-> <<>>]
    /\ orders = [x \in {} |-> x]
    /\ accounts = {}
    /\ balance = [u \in Users |-> Zero]
    /\ position = [k \in PositionKeys |-> [Zero EXCEPT !.Available = SeedShares]]
    /\ pc = [p \in Partitions |-> "idle"]
    /\ cur = [p \in Partitions |-> NoOrder]
    /\ trades = [p \in Partitions |-> << >>]
    /\ welcomed = {}
    /\ createdOut = {}
    /\ canceledOut = {}

\* Worker p can take the next command of its stream and lock the mutex.
Idle(p) == pc[p] = "idle" /\ mu = Free

\* Worker p moves on to a phase with an order.
Goto(p, phase, o) == pc' = [pc EXCEPT ![p] = phase] /\ cur' = [cur EXCEPT ![p] = o]

\* handleCreateEvent. An event that exists already changes nothing.
CreateEvent(p, e) ==
    /\ Idle(p)
    /\ PartitionOf[e] = p
    /\ e \notin markets
    /\ markets' = markets \cup {e}
    /\ UNCHANGED <<mu, book, orders, ledgerVars, workerVars, historyVars>>

\* handleUserCreated: the starting balance is granted only with a new entry.
\* The command is fanned out to every partition; any worker may handle it.
UserCreated(p, u) ==
    /\ Idle(p)
    /\ u \notin welcomed
    /\ welcomed' = welcomed \cup {u}
    /\ accounts' = accounts \cup {u}
    /\ balance' = IF u \in accounts
                  THEN balance
                  ELSE [balance EXCEPT ![u] = [Zero EXCEPT !.Available = StartingBalance]]
    /\ UNCHANGED <<marketVars, position, workerVars, createdOut, canceledOut>>

\* The orders that pass validateOrder. A MARKET order's price is ignored.
ValidOrders ==
    {o \in [UserID : Users, EventID : Events, Outcome : Outcomes, Side : Sides,
            OrderType : OrderTypes, Price : Prices \cup {0},
            Quantity : Quantities] :
        /\ o.Side = SideBuy => o.OrderType \in BuyTypes
        /\ o.OrderType = OrderTypeMarket <=> o.Price = 0}

\* The record handleCreateOrderCore builds, with what is frozen for it.
NewOrder(req, locked) ==
    [UserID |-> req.UserID, EventID |-> req.EventID, Outcome |-> req.Outcome,
     Side |-> req.Side, OrderType |-> req.OrderType, Price |-> req.Price,
     Quantity |-> req.Quantity, FilledQuantity |-> 0,
     RemainingQuantity |-> req.Quantity, Status |-> StatusPending,
     LockedFunds |-> locked]

\* A CREATE_ORDER that worker p may find next in its stream. USER_CREATED is
\* appended to each stream before the user can place orders there, so the user
\* has an account unless that append failed.
Submitted(p, x, req) ==
    /\ Idle(p)
    /\ PartitionOf[req.EventID] = p
    /\ req.EventID \in markets
    /\ x \notin DOMAIN orders
    /\ LostFanout \/ req.UserID \in accounts

\* The order map with order x stored, and without it.
Store(x, o) == [y \in DOMAIN orders \cup {x} |-> IF y = x THEN o ELSE orders[y]]
Without(x) == [y \in DOMAIN orders \ {x} |-> orders[y]]

\* Users who have an account once order o has looked theirs up.
Touch(o) == IF o.Side = SideBuy THEN {o.UserID} ELSE {}

\* handleCreateOrderCore up to the first Unlock: freeze what the order needs
\* and store it.
AcceptOrder(p, x, req) ==
    LET o == NewOrder(req, 0)
        amount == ReserveAmount(o)
    IN  /\ Submitted(p, x, req)
        /\ amount <= AvailableFor(o)
        /\ orders' = Store(x, NewOrder(req, amount))
        /\ accounts' = accounts \cup Touch(o)
        /\ IF o.Side = SideBuy
           THEN /\ balance' = [balance EXCEPT ![o.UserID] = Reserve(@, amount)]
                /\ UNCHANGED position
           ELSE /\ position' = [position EXCEPT ![PositionKey(o)] = Reserve(@, amount)]
                /\ UNCHANGED balance
        /\ Goto(p, "announce", x)
        /\ UNCHANGED <<mu, markets, book, trades, historyVars>>

\* handleCreateOrderCore when reserveOrderLocked fails: the order is refused
\* and not stored, but looking the balance up has created an empty account.
\* (A known id, or an unknown event, returns before it changes anything.)
RefuseOrder(p, x, req) ==
    LET o == NewOrder(req, 0)
    IN  /\ Submitted(p, x, req)
        /\ ReserveAmount(o) > AvailableFor(o)
        /\ accounts' = accounts \cup Touch(o)
        /\ UNCHANGED <<marketVars, balance, position, workerVars, historyVars>>

\* A fault: a failed emit is logged, and the order is matched.
EmitCreatedIgnoresError(p) ==
    /\ pc[p] = "announce"
    /\ createdOut' \in {createdOut, createdOut \cup {cur[p]}}
    /\ Goto(p, "match", cur[p])
    /\ UNCHANGED <<marketVars, ledgerVars, trades, welcomed, canceledOut>>

\* emitEventP(ORDER_CREATED) succeeds.
EmitCreated(p) ==
    /\ pc[p] = "announce"
    /\ createdOut' = createdOut \cup {cur[p]}
    /\ Goto(p, "match", cur[p])
    /\ UNCHANGED <<marketVars, ledgerVars, trades, welcomed, canceledOut>>

\* A fault: the error path returns without unlocking the mutex.
EmitCreatedFailsLocked(p) ==
    /\ RedisFails
    /\ pc[p] = "announce"
    /\ mu = Free
    /\ mu' = p
    /\ createdOut' \in {createdOut, createdOut \cup {cur[p]}}
    /\ orders' = Without(cur[p])
    /\ Goto(p, "idle", NoOrder)
    /\ UNCHANGED <<markets, book, ledgerVars, trades, welcomed, canceledOut>>

\* It fails: the order is deleted again, but nothing is released. The XADD may
\* have reached Redis all the same.
EmitCreatedFails(p) ==
    /\ RedisFails
    /\ pc[p] = "announce"
    /\ mu = Free
    /\ createdOut' \in {createdOut, createdOut \cup {cur[p]}}
    /\ orders' = Without(cur[p])
    /\ Goto(p, "idle", NoOrder)
    /\ UNCHANGED <<mu, markets, book, ledgerVars, trades, welcomed, canceledOut>>

-----------------------------------------------------------------------------
(* Matching                                                                *)

\* A fault: an order canceled in the meantime is matched.
BeginMatchCanceled(p) ==
    /\ pc[p] = "match"
    /\ mu = Free
    /\ Goto(p, "matching", cur[p])
    /\ mu' = p
    /\ UNCHANGED <<markets, book, orders, ledgerVars, trades, historyVars>>

\* matchOrder takes the mutex; an order canceled in the meantime is dropped.
BeginMatch(p) ==
    /\ pc[p] = "match"
    /\ mu = Free
    /\ IF orders[cur[p]].Status = StatusCanceled
       THEN Goto(p, "idle", NoOrder) /\ UNCHANGED mu
       ELSE Goto(p, "matching", cur[p]) /\ mu' = p
    /\ UNCHANGED <<markets, book, orders, ledgerVars, trades, historyVars>>

\* A fault: the first fill unlocks everything.
FillUnlocks(o, q, cost) ==
    [o EXCEPT !.RemainingQuantity = @ - q, !.FilledQuantity = @ + q, !.LockedFunds = 0]

\* Order o after a fill of quantity q that costs `cost': executePair's part and
\* settleTradeLocked's part.
Fill(o, q, cost) ==
    [o EXCEPT !.RemainingQuantity = @ - q,
              !.FilledQuantity = @ + q,
              !.LockedFunds = AtLeastZero(@ - IF o.Side = SideBuy THEN cost ELSE q)]

\* A resting order after a fill also gets its status.
FillResting(o, q, cost) ==
    [Fill(o, q, cost) EXCEPT
        !.Status = IF o.RemainingQuantity = q THEN StatusFilled ELSE StatusPartial]

\* buildTrade: the maker sets the price.
BuildTrade(taker, maker, q) ==
    LET t == orders[taker]
        m == orders[maker]
        buy == t.Side = SideBuy
    IN  [OrderID |-> taker, MatchOrderID |-> maker,
         BuyerID |-> IF buy THEN t.UserID ELSE m.UserID,
         SellerID |-> IF buy THEN m.UserID ELSE t.UserID,
         EventID |-> t.EventID, Outcome |-> t.Outcome,
         Quantity |-> q, Price |-> m.Price]

\* settleTradeLocked on the balances and positions.
SettleTrade(t) ==
    LET cost == Int64(t.Quantity * t.Price)
        buyerPos == <<t.BuyerID, t.EventID, t.Outcome>>
        sellerPos == <<t.SellerID, t.EventID, t.Outcome>>
    IN  /\ accounts' = accounts \cup {t.BuyerID, t.SellerID}
        /\ balance' = [balance EXCEPT ![t.BuyerID] = Spend(@, cost),
                                      ![t.SellerID] = Receive(@, cost)]
        /\ position' = [position EXCEPT ![buyerPos] = Receive(@, t.Quantity),
                                        ![sellerPos] = Spend(@, t.Quantity)]

\* The side of the book worker p's order matches against, as
\* removeInvalidBids/Asks leaves it.
Opponents(p) == RemoveInvalid(orders, book[OppositeKey(orders[cur[p]])])

\* executePair with the resting order at index i, and its settlement.
ExecutePair(p, i) ==
    LET x == cur[p]
        s == Opponents(p)
        y == s[i]
        q == Min2(orders[x].RemainingQuantity, orders[y].RemainingQuantity)
        t == BuildTrade(x, y, q)
        cost == Int64(q * orders[y].Price)
    IN  /\ trades' = [trades EXCEPT ![p] = Append(@, t)]
        /\ orders' = [orders EXCEPT ![x] = Fill(@, q, cost),
                                    ![y] = FillResting(@, q, cost)]
        /\ book' = [book EXCEPT ![OppositeKey(orders[x])] =
                        IF orders[y].RemainingQuantity = q
                        THEN RemoveIndex(s, i) ELSE s]
        /\ SettleTrade(t)

\* One iteration of matchAgainstBook that finds a counterparty.
MatchPair(p) ==
    /\ pc[p] = "matching"
    /\ orders[cur[p]].RemainingQuantity > 0
    /\ \E i \in DOMAIN Opponents(p) :
          /\ FindCounterparty(orders, Opponents(p), orders[cur[p]], i)
          /\ ExecutePair(p, i)
    /\ UNCHANGED <<mu, markets, pc, cur, historyVars>>

\* A fault: the fills are looked at before the remainder.
FinalStatusFillsFirst(o) ==
    CASE o.FilledQuantity > 0 -> StatusPartial
      [] o.FilledQuantity = 0 /\ o.OrderType = OrderTypeMarket -> StatusCanceled
      [] OTHER -> StatusPending

\* The status matchOrder gives the incoming order when the loop is over.
FinalStatus(o) ==
    CASE o.RemainingQuantity = 0 -> StatusFilled
      [] o.RemainingQuantity # 0 /\ o.OrderType = OrderTypeMarket -> StatusCanceled
      [] OTHER -> IF o.FilledQuantity > 0 THEN StatusPartial ELSE StatusPending

\* A fault: the cost of the remainder is released, not what is still locked.
ReleaseOrderRemainder(o) ==
    IF o.Side = SideBuy
    THEN /\ balance' = [balance EXCEPT ![o.UserID] = Release(@, o.RemainingQuantity * o.Price)]
         /\ UNCHANGED position
    ELSE /\ position' = [position EXCEPT ![PositionKey(o)] = Release(@, o.RemainingQuantity)]
         /\ UNCHANGED balance

\* releaseOrderLocked on the balances and positions.
ReleaseOrder(o) ==
    IF o.Side = SideBuy
    THEN /\ balance' = [balance EXCEPT ![o.UserID] = Release(@, o.LockedFunds)]
         /\ UNCHANGED position
    ELSE /\ position' = [position EXCEPT ![PositionKey(o)] = Release(@, o.LockedFunds)]
         /\ UNCHANGED balance

\* The end of matchOrder's critical section: the order gets its status, rests
\* on the book, or has what is left of its reservation released.
FinishMatch(p) ==
    LET x == cur[p]
        o == orders[x]
        final == FinalStatus(o)
        done == final \in {StatusFilled, StatusCanceled}
        swept == IF o.RemainingQuantity > 0
                 THEN [book EXCEPT ![OppositeKey(o)] = Opponents(p)]
                 ELSE book
    IN  /\ pc[p] = "matching"
        /\ \/ o.RemainingQuantity = 0
           \/ Candidates(orders, Opponents(p), o) = {}
        /\ orders' = [orders EXCEPT
                        ![x].Status = final,
                        ![x].LockedFunds = IF done /\ @ > 0 THEN 0 ELSE @]
        /\ book' = IF done
                   THEN swept
                   ELSE [swept EXCEPT ![BookKey(o)] = AddToBook(orders, @, x)]
        /\ IF done /\ o.LockedFunds > 0
           THEN ReleaseOrder(o)
           ELSE UNCHANGED <<balance, position>>
        /\ mu' = Free
        /\ IF trades[p] = << >>
           THEN Goto(p, "idle", NoOrder)
           ELSE Goto(p, "publish", x)
        /\ UNCHANGED <<markets, accounts, trades, historyVars>>

\* matchOrder hands one trade after the other to publishTrade. A failed emit
\* is logged and the trade is passed over.
PublishTrade(p) ==
    /\ pc[p] = "publish"
    /\ trades' = [trades EXCEPT ![p] = Tail(@)]
    /\ IF Len(trades[p]) = 1
       THEN Goto(p, "idle", NoOrder)
       ELSE UNCHANGED <<pc, cur>>
    /\ UNCHANGED <<marketVars, ledgerVars, historyVars>>

-----------------------------------------------------------------------------
(* Cancellation                                                            *)

\* handleCancelOrderP up to Unlock, for order x. The command is routed by the
\* event id it carries, and one that names another event is refused.
CancelOrder(p, x) ==
    /\ Idle(p)
    /\ x \in DOMAIN orders
    /\ \/ p = PartitionOf[orders[x].EventID]
       \/ UnroutedCancels /\ p = DefaultPartition
    /\ Open(orders[x])
    /\ book' = [book EXCEPT ![BookKey(orders[x])] = RemoveOrder(@, x)]
    /\ orders' = [orders EXCEPT
                    ![x].Status = StatusCanceled,
                    ![x].LockedFunds = IF @ > 0 THEN 0 ELSE @]
    /\ IF orders[x].LockedFunds > 0
       THEN ReleaseOrder(orders[x])
       ELSE UNCHANGED <<balance, position>>
    /\ Goto(p, "cancelEmit", x)
    /\ UNCHANGED <<mu, markets, accounts, trades, historyVars>>

\* emitEventP(ORDER_CANCELED); a failure is only logged.
EmitCanceled(p) ==
    /\ pc[p] = "cancelEmit"
    /\ \/ canceledOut' = canceledOut \cup {cur[p]}
       \/ RedisFails /\ UNCHANGED canceledOut
    /\ Goto(p, "idle", NoOrder)
    /\ UNCHANGED <<marketVars, ledgerVars, trades, welcomed, createdOut>>

-----------------------------------------------------------------------------
Submit(p) ==
    \E x \in OrderIds, req \in ValidOrders :
        AcceptOrder(p, x, req) \/ RefuseOrder(p, x, req)

\* What a worker does with a command it has accepted.
Continue(p) ==
    \/ EmitCreated(p)
    \/ EmitCreatedFails(p)
    \/ BeginMatch(p)
    \/ MatchPair(p)
    \/ FinishMatch(p)
    \/ PublishTrade(p)
    \/ EmitCanceled(p)

Next ==
    \E p \in Partitions :
        \/ \E e \in Events : CreateEvent(p, e)
        \/ \E u \in Users : UserCreated(p, u)
        \/ Submit(p)
        \/ \E x \in OrderIds : CancelOrder(p, x)
        \/ Continue(p)

Spec == Init /\ [][Next]_vars

\* A worker that has accepted a command goes on with it. A goroutine is always
\* scheduled again, and Go's mutex hands itself to a goroutine that has waited
\* for it too long: strong fairness for a step that may find it locked.
FairSpec ==
    /\ Spec
    /\ \A p \in Partitions : SF_vars(Continue(p))

-----------------------------------------------------------------------------
(* Books and orders                                                        *)

\* Order x has been accepted and has not been through matchOrder yet.
InFlight(x) ==
    \E p \in Partitions : cur[p] = x /\ pc[p] \in {"announce", "match", "matching"}

\* Every quantity is accounted for: what an order asked for is what it got
\* plus what remains, it is FILLED exactly when nothing remains (once
\* matchOrder is done with it), and a PARTIAL order has got something.
FillsAccounted ==
    \A x \in DOMAIN orders :
        LET o == orders[x]
        IN  /\ o.FilledQuantity + o.RemainingQuantity = o.Quantity
            /\ o.Status = StatusFilled => o.RemainingQuantity = 0
            /\ o.Status = StatusPartial => o.FilledQuantity > 0 /\ o.RemainingQuantity > 0
            /\ o.RemainingQuantity = 0 => o.Status = StatusFilled \/ InFlight(x)

\* Whatever rests in the book of key k is an order that may trade there.
RestingOK ==
    \A k \in BookKeys : \A x \in Ids(book[k]) :
        /\ x \in DOMAIN orders
        /\ Open(orders[x])
        /\ orders[x].RemainingQuantity > 0
        /\ orders[x].OrderType = OrderTypeLimit
        /\ BookKey(orders[x]) = k
        /\ ~InFlight(x)

\* No order is on a side twice.
NoDuplicates == \A k \in BookKeys : Distinct(book[k])

\* No open order has fallen out of the book.
NothingLost ==
    \A x \in DOMAIN orders :
        Open(orders[x]) /\ ~InFlight(x) => x \in Ids(book[BookKey(orders[x])])

\* The books hold exactly the open orders that matchOrder has finished with,
\* each of them once and on its own side: addToBook, executePair's removal and
\* handleCancelOrderP's removal never leave one behind and never drop another.
BookExact == RestingOK /\ NoDuplicates /\ NothingLost

\* After matching no bid and ask of different users that could trade are left
\* standing in one book: findCounterparty never gives up too early.
NotCrossed ==
    mu = Free =>
        \A e \in Events, c \in Outcomes :
            \A i \in DOMAIN book[<<e, c, SideBuy>>], j \in DOMAIN book[<<e, c, SideSell>>] :
                LET bid == orders[book[<<e, c, SideBuy>>][i]]
                    ask == orders[book[<<e, c, SideSell>>][j]]
                IN  bid.UserID # ask.UserID => bid.Price < ask.Price

\* An order that is FILLED or CANCELED stays as it is: no late match, second
\* cancel or status write of matchOrder brings it back or fills it further.
TerminalStays ==
    [][\A x \in DOMAIN orders \cap DOMAIN orders' :
         ~Open(orders[x]) => orders'[x].Status = orders[x].Status
                             /\ orders'[x].FilledQuantity = orders[x].FilledQuantity]_vars

-----------------------------------------------------------------------------
(* The event stream                                                        *)

\* "The events stream always sees ORDER_CREATED ahead of any TRADE_EXECUTED"
\* of either order, and ORDER_CANCELED behind both: the DB worker fails on a
\* fill of an order it does not know and forgets a cancellation of one.
EventsInOrder ==
    [][/\ \A p \in Partitions :
            Len(trades'[p]) < Len(trades[p]) =>
                LET t == Head(trades[p])
                IN  /\ {t.OrderID, t.MatchOrderID} \subseteq createdOut
                    /\ {t.OrderID, t.MatchOrderID} \cap canceledOut = {}
       /\ canceledOut' \ canceledOut \subseteq createdOut]_vars

-----------------------------------------------------------------------------
(* The ledger                                                              *)

Total(h) == h.Available + h.Reserved

\* No cash appears or disappears: the users together hold what USER_CREATED
\* has granted.
CashConserved ==
    SumFunctionOnSet([u \in Users |-> Total(balance[u])], Users)
        = StartingBalance * Cardinality(welcomed)

\* No share appears or disappears.
SharesConserved ==
    \A e \in Events, c \in Outcomes :
        SumFunctionOnSet([u \in Users |-> Total(position[<<u, e, c>>])], Users)
            = SeedShares * Cardinality(Users)

\* Orders, trades and cancels of any number of partitions only move what there
\* is between users, and between available and reserved.
Conserved == CashConserved /\ SharesConserved

\* What the orders of S have frozen, together.
Locked(S) == SumFunctionOnSet([x \in S |-> orders[x].LockedFunds], S)

\* The orders that freeze a user's cash, and those that freeze a position.
BuysOf(u) == {x \in DOMAIN orders : orders[x].Side = SideBuy /\ orders[x].UserID = u}
SellsAt(k) ==
    {x \in DOMAIN orders : orders[x].Side = SideSell /\ PositionKey(orders[x]) = k}

\* What a user has reserved is what the user's orders have frozen, cash by
\* BUY and shares by SELL orders, so that every release is exact.
ReservedBacked ==
    /\ \A u \in Users : balance[u].Reserved = Locked(BuysOf(u))
    /\ \A k \in PositionKeys : position[k].Reserved = Locked(SellsAt(k))

\* An open order can pay for everything it may still trade: a BUY holds at
\* least its limit price for each remaining share, a SELL exactly its shares.
FundsCovered ==
    \A x \in DOMAIN orders :
        LET o == orders[x]
        IN  Open(o) =>
              IF o.Side = SideSell
              THEN o.LockedFunds = o.RemainingQuantity
              ELSE o.LockedFunds >= o.RemainingQuantity * o.Price

\* Only open orders hold cash: "Orders that are no longer resting (filled or
\* canceled) have nothing left to protect; release their over-lock."
ClosedHoldNothing ==
    \A x \in DOMAIN orders : ~Open(orders[x]) => orders[x].LockedFunds = 0

-----------------------------------------------------------------------------
(* Order book depth and progress                                           *)

\* aggregateBids/aggregateAsks: what handleGetDepth reports for one side.
Depth(k) ==
    LET remaining == [i \in DOMAIN book[k] |-> orders[book[k][i]].RemainingQuantity]
        level(price) ==
            [Price |-> price,
             Quantity |-> SumFunctionOnSet(remaining, AtPrice(orders, book[k], price)),
             OrderCount |-> Cardinality(AtPrice(orders, book[k], price))]
    IN  {level(orders[x].Price) : x \in {y \in Ids(book[k]) : Counted(orders[y])}}

\* handleGetOpenOrders for one user and event.
OpenOrders(e, u) ==
    {x \in DOMAIN orders :
        orders[x].EventID = e /\ orders[x].UserID = u /\ Open(orders[x])}

\* The two queries agree: whenever no order is in flight, the depth of an event
\* adds up to what the users' open orders of that event still ask for.
DepthAgrees ==
    (\A p \in Partitions : pc[p] \in {"idle", "publish", "cancelEmit"}) =>
        \A e \in Events :
            LET keys == {e} \X Outcomes \X Sides
                depth == [k \in keys |->
                            SumFunctionOnSet([level \in Depth(k) |-> level.Quantity], Depth(k))]
                remaining == [x \in DOMAIN orders |-> orders[x].RemainingQuantity]
            IN  SumFunctionOnSet(depth, keys)
                  = SumFunctionOnSet(remaining, UNION {OpenOrders(e, u) : u \in Users})

\* Every accepted command is finished: the matching loop ends, and no worker
\* waits for the mutex for ever.
CommandsFinish == \A p \in Partitions : pc[p] # "idle" ~> pc[p] = "idle"
=============================================================================
