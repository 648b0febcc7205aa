------------------------------ MODULE DbWorker ------------------------------
(***************************************************************************)
(* The DB worker (internal/dbworker/worker.go) and what it makes of the    *)
(* event stream in Postgres: order rows, trades, balances, positions, the  *)
(* transaction ledger and event volume. Workers are members of one Redis   *)
(* consumer group; each reads a batch, handles its entries one by one and  *)
(* acknowledges each after its effects are committed. A worker ends at its *)
(* first error, and looks for entries that others left pending only when   *)
(* it starts.                                                              *)
(*                                                                         *)
(* The engine is here only as the source of the stream: which orders it    *)
(* accepts, fills and cancels, the cash it thereby moves, and in which     *)
(* order its partition workers put the events on the stream. Trades are    *)
(* executed under the engine mutex and published after it is released, so  *)
(* the trades of different partitions may reach the stream in another      *)
(* order than they happened. (ORDER_CREATED and ORDER_CANCELED are emitted *)
(* outside the mutex too; they touch only the row of their order, so their *)
(* place among the entries of other partitions makes no difference.)       *)
(*                                                                         *)
(* A MARKET BUY freezes the cash its user has and then walks the book      *)
(* whatever that costs: the ledger clamps at zero, and the engine has      *)
(* spent cash that neither it nor Postgres has.                            *)
(*                                                                         *)
(* Not here: failing emits (Outbox) and fencing (PartitionOwnership), and  *)
(* whether a seller has the shares: Postgres does not ask. Which of the    *)
(* resting orders that fit comes first is Engine's subject; here it is any *)
(* of them. Average prices of positions are left out: nothing reads them.  *)
(***************************************************************************)
EXTENDS Integers, Sequences, FiniteSetsExt

CONSTANTS
    Workers,        \* replicas of the DB worker
    Users, Events, Partitions, Orders,
    PartitionOf,    \* the partition of each event
    UserOf, EventOf, SideOf, QuantityOf, PriceOf, \* the orders' fields
    MarketOrders,   \* those that are MARKET orders
    Balance,        \* what every user starts with, in the engine and in Postgres
    BatchSize,      \* Count of XREADGROUP
    MaxFails,       \* bound on crashes and transient errors of workers and on
                    \* events that are rolled back
    NoOrder         \* value of taking[p] while the engine handles no order

ASSUME OrdersAssumption ==
    /\ PartitionOf \in [Events -> Partitions]
    /\ UserOf \in [Orders -> Users]
    /\ EventOf \in [Orders -> Events]
    /\ SideOf \in [Orders -> {"BUY", "SELL"}]
    /\ QuantityOf \in [Orders -> Nat \ {0}]
    /\ PriceOf \in [Orders -> Nat]
    /\ MarketOrders \subseteq Orders
    /\ NoOrder \notin Orders
    /\ IsFiniteSet(Orders)

ASSUME LimitsAssumption ==
    /\ Balance \in Nat
    /\ BatchSize \in Nat \ {0}
    /\ MaxFails \in Nat

VARIABLES
    status,  \* status of each order in the engine, "NONE" before it is accepted
    got,     \* FilledQuantity of each order in the engine
    available, \* Available of each user's balance in the engine
    reserved,  \* Reserved of it
    locked,  \* LockedFunds of each BUY order
    overspent, \* BUY orders that cost more than they had locked (history)
    trades,  \* the trades the engine has executed, in order; the index is the id
    taking,  \* the order each partition's worker is matching
    unsent,  \* ids of trades each partition has executed and not yet published
    stream,  \* events:out
    cursor,  \* last entry the group has delivered
    pending, \* entries delivered and not acknowledged
    pc,      \* what each worker is doing
    batch,   \* entries it has still to handle
    seen,    \* status it computed for the rows of the trade in its transaction
    stored,  \* table events: the events that have a row
    row,     \* table orders
    settled, \* table trades: the ids in it
    cash,    \* users.balance
    shares,  \* positions.shares
    ledger,  \* table transactions
    volume,  \* events.volume
    applied, \* entries whose effects are in Postgres (history)
    refused, \* entries that ended a worker because Postgres rejects them (history)
    ordered, \* each was applied, or refused, when all earlier ones were applied
             \* (history)
    fails

cashVars == <<available, reserved, locked, overspent>>
engineVars == <<status, got, cashVars, trades, taking, unsent>>
groupVars == <<cursor, pending>>
workerVars == <<pc, batch, seen>>
tradeTables == <<settled, cash, shares, ledger, volume>>
historyVars == <<applied, refused, ordered, fails>>
vars == <<engineVars, stream, groupVars, workerVars, stored, row, tradeTables, historyVars>>

-----------------------------------------------------------------------------
(* Types                                                                   *)

Statuses == {"PENDING", "PARTIAL", "FILLED", "CANCELED"}
Open == {"PENDING", "PARTIAL"}

Trade == [taker : Orders, maker : Orders, quantity : Nat \ {0}]

\* An event names an order, or a trade by its id.
OrderEvent == [type : {"ORDER_CREATED", "ORDER_CANCELED"}, order : Orders]
TradeEvent == [type : {"TRADE_EXECUTED"}, trade : Nat \ {0}]

Row == [filled : Nat, remaining : Nat, status : Statuses]
LedgerRow == [user : Users, order : Orders, trade : Nat \ {0}, type : {"BUY", "SELL"}]

\* Every variable has its type.
TypeOK ==
    /\ status \in [Orders -> Statuses \cup {"NONE"}]
    /\ got \in [Orders -> Nat]
    /\ available \in [Users -> Nat]
    /\ reserved \in [Users -> Nat]
    /\ locked \in [Orders -> Nat]
    /\ overspent \subseteq Orders
    /\ trades \in Seq(Trade)
    /\ taking \in [Partitions -> Orders \cup {NoOrder}]
    /\ unsent \in [Partitions -> Seq(Nat)]
    /\ stream \in Seq(OrderEvent \cup TradeEvent)
    /\ cursor \in 0 .. Len(stream)
    /\ pending \subseteq 1 .. cursor
    /\ pc \in [Workers -> {"down", "read", "handle", "taker", "maker", "ack"}]
    /\ batch \in [Workers -> SUBSET (1 .. cursor)]
    /\ seen \in [Workers -> [taker : Statuses, maker : Statuses]]
    /\ stored \subseteq Events
    /\ DOMAIN row \subseteq Orders
    /\ row \in [DOMAIN row -> Row]
    /\ settled \subseteq DOMAIN trades
    /\ cash \in [Users -> Nat]
    /\ shares \in [Users \X Events -> Int]
    /\ ledger \subseteq LedgerRow
    /\ volume \in [Events -> Nat]
    /\ applied \subseteq 1 .. cursor
    /\ ordered \in BOOLEAN
    /\ refused \subseteq 1 .. cursor
    /\ fails \in 0 .. MaxFails

Init ==
    /\ status = [o \in Orders |-> "NONE"]
    /\ got = [o \in Orders |-> 0]
    /\ available = [u \in Users |-> Balance]
    /\ reserved = [u \in Users |-> 0]
    /\ locked = [o \in Orders |-> 0]
    /\ overspent = {}
    /\ trades = << >>
    /\ taking = [p \in Partitions |-> NoOrder]
    /\ unsent = [p \in Partitions |-> << >>]
    /\ stream = << >>
    /\ cursor = 0
    /\ pending = {}
    /\ pc = [w \in Workers |-> "down"]
    /\ batch = [w \in Workers |-> {}]
    /\ seen = [w \in Workers |-> [taker |-> "PENDING", maker |-> "PENDING"]]
    /\ stored = Events
    /\ row = [o \in {} |-> o]
    /\ settled = {}
    /\ cash = [u \in Users |-> Balance]
    /\ shares = [k \in Users \X Events |-> 0]
    /\ ledger = {}
    /\ volume = [e \in Events |-> 0]
    /\ applied = {}
    /\ ordered = TRUE
    /\ refused = {}
    /\ fails = 0

-----------------------------------------------------------------------------
(* The engine, as far as the stream shows it                               *)

PartitionOfOrder(o) == PartitionOf[EventOf[o]]

\* Partition p's worker is between two commands.
AtRest(p) == taking[p] = NoOrder /\ unsent[p] = << >>

Buyer(t) == IF SideOf[t.taker] = "BUY" THEN UserOf[t.taker] ELSE UserOf[t.maker]
Seller(t) == IF SideOf[t.taker] = "BUY" THEN UserOf[t.maker] ELSE UserOf[t.taker]
BuyOrder(t) == IF SideOf[t.taker] = "BUY" THEN t.taker ELSE t.maker

\* buildTrade: trades are executed at the resting order's price.
Cost(t) == t.quantity * PriceOf[t.maker]
EventOfTrade(t) == EventOf[t.taker]

\* The engine mutex is not in the hands of another partition's worker, which
\* keeps it from the first trade of a match to the end of the match.
MutexFree(p) == \A q \in Partitions \ {p} : taking[q] = NoOrder \/ unsent[q] = << >>

\* The "if x < 0 { x = 0 }" after every subtraction from a reservation.
AtLeastZero(x) == IF x < 0 THEN 0 ELSE x

\* reserveOrderLocked: the cash that is frozen for an order.
ReserveAmount(o) ==
    CASE SideOf[o] = "SELL" -> 0
      [] SideOf[o] = "BUY" /\ o \in MarketOrders -> available[UserOf[o]]
      [] OTHER -> QuantityOf[o] * PriceOf[o]

\* handleCreateOrderCore freezes the cash for an order, or refuses the order
\* without a trace, and announces it before it can match.
AcceptOrder(o) ==
    LET amount == ReserveAmount(o)
    IN  /\ AtRest(PartitionOfOrder(o)) /\ MutexFree(PartitionOfOrder(o))
        /\ status[o] = "NONE"
        /\ amount <= available[UserOf[o]]
        /\ available' = [available EXCEPT ![UserOf[o]] = @ - amount]
        /\ reserved' = [reserved EXCEPT ![UserOf[o]] = @ + amount]
        /\ locked' = [locked EXCEPT ![o] = amount]
        /\ status' = [status EXCEPT ![o] = "PENDING"]
        /\ taking' = [taking EXCEPT ![PartitionOfOrder(o)] = o]
        /\ stream' = Append(stream, [type |-> "ORDER_CREATED", order |-> o])
        /\ UNCHANGED <<got, overspent, trades, unsent, groupVars, workerVars,
                       stored, row, tradeTables, historyVars>>

\* canMatch.
CanMatch(o, m) ==
    \/ o \in MarketOrders
    \/ SideOf[o] = "BUY" /\ PriceOf[m] <= PriceOf[o]
    \/ SideOf[o] = "SELL" /\ PriceOf[m] >= PriceOf[o]

\* settleTradeLocked: the buyer pays out of what is reserved, and as much less
\* as that is short.
SettleTrade(t) ==
    /\ reserved' = [reserved EXCEPT ![Buyer(t)] = AtLeastZero(@ - Cost(t))]
    /\ available' = [available EXCEPT ![Seller(t)] = @ + Cost(t)]
    /\ locked' = [locked EXCEPT ![BuyOrder(t)] = AtLeastZero(@ - Cost(t))]
    /\ overspent' = IF Cost(t) > locked[BuyOrder(t)]
                    THEN overspent \cup {BuyOrder(t)} ELSE overspent

\* executePair and settleTradeLocked: order o trades with a resting order m.
ExecutePair(p, m) ==
    LET o == taking[p]
        left(x) == QuantityOf[x] - got[x]
        t == [taker |-> o, maker |-> m,
              quantity |-> IF left(o) < left(m) THEN left(o) ELSE left(m)]
        after(x) == IF left(x) = t.quantity THEN "FILLED" ELSE "PARTIAL"
    IN  /\ o # NoOrder
        /\ MutexFree(p)
        /\ m # o /\ m \notin MarketOrders
        /\ status[m] \in Open
        /\ left(o) > 0
        /\ EventOf[m] = EventOf[o] /\ SideOf[m] # SideOf[o] /\ UserOf[m] # UserOf[o]
        /\ CanMatch(o, m)
        /\ trades' = Append(trades, t)
        /\ got' = [got EXCEPT ![o] = @ + t.quantity, ![m] = @ + t.quantity]
        /\ status' = [status EXCEPT ![o] = after(o), ![m] = after(m)]
        /\ SettleTrade(t)
        /\ unsent' = [unsent EXCEPT ![p] = Append(@, Len(trades) + 1)]
        /\ UNCHANGED <<taking, stream, groupVars, workerVars, stored, row, tradeTables,
                       historyVars>>

\* releaseOrderLocked: what is still locked for order o is given back.
ReleaseOrder(o) ==
    /\ reserved' = [reserved EXCEPT ![UserOf[o]] = AtLeastZero(@ - locked[o])]
    /\ available' = [available EXCEPT ![UserOf[o]] = @ + locked[o]]
    /\ locked' = [locked EXCEPT ![o] = 0]
    /\ UNCHANGED overspent

\* The end of matchOrder. What is left of a MARKET order is canceled, and no
\* ORDER_CANCELED is emitted for it. An order that does not rest is released.
FinishMatch(p) ==
    LET o == taking[p]
        rests == status[o] # "FILLED" /\ o \notin MarketOrders
    IN  /\ o # NoOrder
        /\ MutexFree(p)
        /\ taking' = [taking EXCEPT ![p] = NoOrder]
        /\ status' = IF o \in MarketOrders /\ status[o] # "FILLED"
                     THEN [status EXCEPT ![o] = "CANCELED"]
                     ELSE status
        /\ IF rests THEN UNCHANGED cashVars ELSE ReleaseOrder(o)
        /\ UNCHANGED <<got, trades, unsent, stream, groupVars, workerVars,
                       stored, row, tradeTables, historyVars>>

\* publishTrade, after the mutex is released.
PublishTrade(p) ==
    /\ taking[p] = NoOrder
    /\ unsent[p] # << >>
    /\ stream' = Append(stream, [type |-> "TRADE_EXECUTED", trade |-> Head(unsent[p])])
    /\ unsent' = [unsent EXCEPT ![p] = Tail(@)]
    /\ UNCHANGED <<status, got, cashVars, trades, taking, groupVars, workerVars,
                   stored, row, tradeTables, historyVars>>

\* handleCancelOrderP.
CancelOrder(o) ==
    /\ AtRest(PartitionOfOrder(o)) /\ MutexFree(PartitionOfOrder(o))
    /\ status[o] \in Open
    /\ ReleaseOrder(o)
    /\ status' = [status EXCEPT ![o] = "CANCELED"]
    /\ stream' = Append(stream, [type |-> "ORDER_CANCELED", order |-> o])
    /\ UNCHANGED <<got, trades, taking, unsent, groupVars, workerVars,
                   stored, row, tradeTables, historyVars>>

-----------------------------------------------------------------------------
(* The consumer group                                                      *)

Current(w) == Min(batch[w])
CurrentEvent(w) == stream[Current(w)]
CurrentTrade(w) == trades[CurrentEvent(w).trade]

Handling(w, type) == pc[w] = "handle" /\ CurrentEvent(w).type = type

\* Worker w has no transaction open any more and goes to phase ph.
Goto(w, ph) == pc' = [pc EXCEPT ![w] = ph] /\ UNCHANGED <<batch, seen>>

\* Run, up to its loop: XAUTOCLAIM hands the new consumer the pending entries
\* that have been idle for ten seconds, whoever has them and is perhaps still
\* at work on them.
Start(w) ==
    /\ pc[w] = "down"
    /\ \E idle \in SUBSET pending :
          /\ batch' = [batch EXCEPT ![w] = idle]
          /\ pc' = [pc EXCEPT ![w] = IF idle = {} THEN "read" ELSE "handle"]
    /\ UNCHANGED <<engineVars, stream, groupVars, seen, stored, row, tradeTables, historyVars>>

\* A fault: it waits for a full batch.
ReadFullBatch(w) ==
    /\ pc[w] = "read"
    /\ cursor + BatchSize <= Len(stream)
    /\ batch' = [batch EXCEPT ![w] = cursor + 1 .. cursor + BatchSize]
    /\ pending' = pending \cup (cursor + 1 .. cursor + BatchSize)
    /\ cursor' = cursor + BatchSize
    /\ pc' = [pc EXCEPT ![w] = "handle"]
    /\ UNCHANGED <<engineVars, stream, seen, stored, row, tradeTables, historyVars>>

\* XREADGROUP ">" delivers the next entries.
Read(w) ==
    /\ pc[w] = "read"
    /\ \E n \in 1 .. BatchSize :
          /\ cursor + n <= Len(stream)
          /\ batch' = [batch EXCEPT ![w] = cursor + 1 .. cursor + n]
          /\ pending' = pending \cup (cursor + 1 .. cursor + n)
          /\ cursor' = cursor + n
    /\ pc' = [pc EXCEPT ![w] = "handle"]
    /\ UNCHANGED <<engineVars, stream, seen, stored, row, tradeTables, historyVars>>

\* A fault: the whole batch is acknowledged with its first entry.
AckBatch(w) ==
    /\ pc[w] = "ack"
    /\ pending' = pending \ batch[w]
    /\ batch' = [batch EXCEPT ![w] = @ \ {Current(w)}]
    /\ pc' = [pc EXCEPT ![w] = IF batch[w] = {Current(w)} THEN "read" ELSE "handle"]
    /\ UNCHANGED <<engineVars, stream, cursor, seen, stored, row, tradeTables, historyVars>>

\* XACK. An error of it ends the worker like any other (WorkerFails).
Ack(w) ==
    /\ pc[w] = "ack"
    /\ pending' = pending \ {Current(w)}
    /\ batch' = [batch EXCEPT ![w] = @ \ {Current(w)}]
    /\ pc' = [pc EXCEPT ![w] = IF batch[w] = {Current(w)} THEN "read" ELSE "handle"]
    /\ UNCHANGED <<engineVars, stream, cursor, seen, stored, row, tradeTables, historyVars>>

\* A worker ends, and its transaction is rolled back: the rest of its batch
\* stays pending.
End(w) ==
    /\ pc' = [pc EXCEPT ![w] = "down"]
    /\ batch' = [batch EXCEPT ![w] = {}]
    /\ UNCHANGED <<engineVars, stream, groupVars, seen, stored, row, tradeTables, applied>>

\* A crash, or an error of Redis or Postgres that has nothing to do with the
\* entry: a lost connection, or a deadlock with another worker's transaction.
WorkerFails(w) ==
    /\ pc[w] # "down"
    /\ fails < MaxFails
    /\ fails' = fails + 1
    /\ End(w)
    /\ UNCHANGED <<refused, ordered>>

\* It is the turn of w's entry.
InTurn(w) == Current(w) \in applied \/ 1 .. Current(w) - 1 \subseteq applied

\* Postgres rejects the entry itself.
Refuse(w) ==
    /\ refused' = refused \cup {Current(w)}
    /\ ordered' = (ordered /\ InTurn(w))
    /\ End(w)
    /\ UNCHANGED fails

\* The effects of w's entry are committed.
Applied(w) ==
    /\ applied' = applied \cup {Current(w)}
    /\ ordered' = (ordered /\ InTurn(w))
    /\ UNCHANGED <<refused, fails>>

-----------------------------------------------------------------------------
(* Orders                                                                  *)

\* Another worker's transaction has updated the row of order o.
RowLocked(w, o) ==
    \E v \in Workers \ {w} : pc[v] = "maker" /\ CurrentTrade(v).taker = o

\* A fault: the order is not stored.
OrderCreatedIgnored(w) ==
    /\ Handling(w, "ORDER_CREATED")
    /\ Goto(w, "ack")
    /\ Applied(w)
    /\ UNCHANGED <<engineVars, stream, groupVars, stored, row, tradeTables>>

\* INSERT of the order as it was when it was accepted.
InsertOrder(o) ==
    [x \in DOMAIN row \cup {o} |->
        IF x = o THEN [filled |-> 0, remaining |-> QuantityOf[o], status |-> "PENDING"]
                 ELSE row[x]]

\* handleOrderCreated: a row that is there already violates the primary key,
\* and that is no error.
OrderCreated(w) ==
    LET o == CurrentEvent(w).order
    IN  /\ Handling(w, "ORDER_CREATED")
        /\ EventOf[o] \in stored
        /\ row' = IF o \in DOMAIN row THEN row ELSE InsertOrder(o)
        /\ Goto(w, "ack")
        /\ Applied(w)
        /\ UNCHANGED <<engineVars, stream, groupVars, stored, tradeTables>>

\* The foreign key to the event fails, as any other error that is no duplicate
\* would, and ends the worker.
OrderOrphaned(w) ==
    /\ Handling(w, "ORDER_CREATED")
    /\ EventOf[CurrentEvent(w).order] \notin stored
    /\ Refuse(w)

\* CreateEvent of the API rolls the row of its event back when the engine has
\* not answered in time. The orders' rows go with it (ON DELETE CASCADE),
\* unless a trade refers to one: then nothing is deleted. A transaction that
\* has inserted such a trade is waited for.
DeleteEvent(e) ==
    /\ e \in stored
    /\ fails < MaxFails
    /\ fails' = fails + 1
    /\ \A w \in Workers : pc[w] \in {"taker", "maker"} => EventOfTrade(CurrentTrade(w)) # e
    /\ \A id \in settled : EventOfTrade(trades[id]) # e
    /\ stored' = stored \ {e}
    /\ row' = Restrict(row, {o \in DOMAIN row : EventOf[o] # e})
    /\ UNCHANGED <<engineVars, stream, groupVars, workerVars, tradeTables,
                   applied, refused, ordered>>

\* A fault: the cancellation of a partly filled order is passed over.
OrderCanceledPendingOnly(w) ==
    LET o == CurrentEvent(w).order
    IN  /\ Handling(w, "ORDER_CANCELED")
        /\ ~RowLocked(w, o)
        /\ row' = IF o \in DOMAIN row /\ row[o].status = "PENDING"
                  THEN [row EXCEPT ![o].status = "CANCELED"] ELSE row
        /\ Goto(w, "ack")
        /\ Applied(w)
        /\ UNCHANGED <<engineVars, stream, groupVars, stored, tradeTables>>

\* An UPDATE that finds no row is no error.
UpdateOrderStatus(o, st) == IF o \in DOMAIN row THEN [row EXCEPT ![o].status = st] ELSE row

\* handleOrderCanceled.
OrderCanceled(w) ==
    LET o == CurrentEvent(w).order
    IN  /\ Handling(w, "ORDER_CANCELED")
        /\ ~RowLocked(w, o)
        /\ row' = UpdateOrderStatus(o, "CANCELED")
        /\ Goto(w, "ack")
        /\ Applied(w)
        /\ UNCHANGED <<engineVars, stream, groupVars, stored, tradeTables>>

-----------------------------------------------------------------------------
(* settleTrade: one transaction at isolation level READ COMMITTED          *)

\* A fault: the fill that is being applied is left out.
FillStatusBefore(o, q) == IF row[o].filled >= QuantityOf[o] THEN "FILLED" ELSE "PARTIAL"

\* applyOrderFill: the status the row will get, from the fill it has now.
FillStatus(o, q) == IF row[o].filled + q >= QuantityOf[o] THEN "FILLED" ELSE "PARTIAL"

\* UpdateOrderFill adds to what the row has when the UPDATE gets its lock.
UpdateOrderFill(r, o, q, st) ==
    [filled |-> r.filled + q,
     remaining |-> IF r.filled + q > QuantityOf[o] THEN 0 ELSE QuantityOf[o] - (r.filled + q),
     status |-> st]

\* What the foreign keys of table trades demand.
KeysExist(t) == {t.taker, t.maker} \subseteq DOMAIN row

\* A fault: a trade that is there already is settled again.
InsertTradeTwice(w) ==
    LET t == CurrentTrade(w)
    IN  /\ Handling(w, "TRADE_EXECUTED")
        /\ KeysExist(t)
        /\ pc' = [pc EXCEPT ![w] = "taker"]
        /\ seen' = [seen EXCEPT ![w].taker = FillStatus(t.taker, t.quantity)]
        /\ UNCHANGED <<engineVars, stream, groupVars, batch, stored, row, tradeTables, historyVars>>

\* InsertTrade, which the primary key and the foreign keys to the orders may
\* reject, and the read of the taker's row. An insert of the id that another
\* transaction has inserted waits for its end.
InsertTrade(w) ==
    LET id == CurrentEvent(w).trade
        t == CurrentTrade(w)
    IN  /\ Handling(w, "TRADE_EXECUTED")
        /\ \A v \in Workers \ {w} :
              pc[v] \in {"taker", "maker"} => CurrentEvent(v).trade # id
        /\ id \notin settled
        /\ KeysExist(t)
        /\ pc' = [pc EXCEPT ![w] = "taker"]
        /\ seen' = [seen EXCEPT ![w].taker = FillStatus(t.taker, t.quantity)]
        /\ UNCHANGED <<engineVars, stream, groupVars, batch, stored, row, tradeTables, historyVars>>

\* The trade has been settled already: a redelivery.
TradeKnown(w) ==
    /\ Handling(w, "TRADE_EXECUTED")
    /\ CurrentEvent(w).trade \in settled
    /\ Goto(w, "ack")
    /\ UNCHANGED <<engineVars, stream, groupVars, stored, row, tradeTables, historyVars>>

\* A foreign key fails: an order of the trade has no row.
TradeOrphaned(w) ==
    /\ Handling(w, "TRADE_EXECUTED")
    /\ CurrentEvent(w).trade \notin settled
    /\ ~KeysExist(CurrentTrade(w))
    /\ Refuse(w)

\* The taker's row is updated, and locked until the end of the transaction;
\* then the maker's row is read. The update stays invisible to the others
\* until Settle, so it is written there.
FillTaker(w) ==
    LET t == CurrentTrade(w)
    IN  /\ pc[w] = "taker"
        /\ ~RowLocked(w, t.taker)
        /\ pc' = [pc EXCEPT ![w] = "maker"]
        /\ seen' = [seen EXCEPT ![w].maker = FillStatus(t.maker, t.quantity)]
        /\ UNCHANGED <<engineVars, stream, groupVars, batch, stored, row, tradeTables, historyVars>>

\* What the other statements of the transaction write for trade t.
DeductBalance(balances, t) == [balances EXCEPT ![Buyer(t)] = @ - Cost(t)]
AddBalance(balances, t) == [balances EXCEPT ![Seller(t)] = @ + Cost(t)]

UpsertPosition(t) ==
    [shares EXCEPT ![<<Buyer(t), EventOfTrade(t)>>] = @ + t.quantity,
                   ![<<Seller(t), EventOfTrade(t)>>] = @ - t.quantity]

InsertTransaction(t, id) ==
    {[user |-> Buyer(t), order |-> t.taker, trade |-> id, type |-> "BUY"],
     [user |-> Seller(t), order |-> t.maker, trade |-> id, type |-> "SELL"]}

IncrementEventVolume(t) == [volume EXCEPT ![EventOfTrade(t)] = @ + Cost(t)]

\* The rest of the transaction: the maker's row, the buyer's balance, which
\* must be large enough, the seller's, positions, ledger, volume and COMMIT.
Settle(w) ==
    LET id == CurrentEvent(w).trade
        t == CurrentTrade(w)
    IN  /\ pc[w] = "maker"
        /\ ~RowLocked(w, t.maker)
        /\ cash[Buyer(t)] >= Cost(t)
        /\ row' = [row EXCEPT
                     ![t.taker] = UpdateOrderFill(@, t.taker, t.quantity, seen[w].taker),
                     ![t.maker] = UpdateOrderFill(@, t.maker, t.quantity, seen[w].maker)]
        /\ settled' = settled \cup {id}
        /\ cash' = AddBalance(DeductBalance(cash, t), t)
        /\ shares' = UpsertPosition(t)
        /\ ledger' = ledger \cup InsertTransaction(t, id)
        /\ volume' = IncrementEventVolume(t)
        /\ Goto(w, "ack")
        /\ Applied(w)
        /\ UNCHANGED <<engineVars, stream, groupVars, stored>>

\* DeductBalance finds no row with enough cash: "insufficient buyer balance".
Insufficient(w) ==
    /\ pc[w] = "maker"
    /\ ~RowLocked(w, CurrentTrade(w).maker)
    /\ cash[Buyer(CurrentTrade(w))] < Cost(CurrentTrade(w))
    /\ Refuse(w)

-----------------------------------------------------------------------------
EngineStep ==
    \/ \E o \in Orders : AcceptOrder(o) \/ CancelOrder(o)
    \/ \E p \in Partitions :
          \/ \E m \in Orders : ExecutePair(p, m)
          \/ FinishMatch(p)
          \/ PublishTrade(p)

\* handleEnvelope.
Handle(w) ==
    \/ OrderCreated(w) \/ OrderOrphaned(w) \/ OrderCanceled(w)
    \/ InsertTrade(w) \/ TradeKnown(w) \/ TradeOrphaned(w)
    \/ FillTaker(w) \/ Settle(w) \/ Insufficient(w)

WorkerStep(w) == Read(w) \/ Handle(w) \/ Ack(w)

Next ==
    \/ EngineStep
    \/ \E e \in Events : DeleteEvent(e)
    \/ \E w \in Workers : Start(w) \/ WorkerStep(w) \/ WorkerFails(w)

Spec == Init /\ [][Next]_vars

\* A worker that is up goes on: every call returns, and Postgres grants a row
\* lock after finitely many others. Nothing obliges anybody to start a worker
\* again: cmd/db-worker waits for a signal when Run has returned.
FairSpec == Spec /\ \A w \in Workers : WF_vars(WorkerStep(w))

-----------------------------------------------------------------------------
(* Properties                                                              *)

\* What the settled trades of S add up to.
Quantity(S) == SumFunctionOnSet([id \in DOMAIN trades |-> trades[id].quantity], S)
Money(S) == SumFunctionOnSet([id \in DOMAIN trades |-> Cost(trades[id])], S)
Bought(u) == {id \in settled : Buyer(trades[id]) = u}
Sold(u) == {id \in settled : Seller(trades[id]) = u}
Of(S, e) == {id \in S : EventOfTrade(trades[id]) = e}

\* "A single trade settlement MUST be atomic" and "a duplicate trade_executed
\* event MUST NOT create duplicate balances or trades": fills, balances,
\* positions, volume and ledger show each settled trade exactly once, through
\* crashes between commit and XACK, redeliveries and concurrent workers.
SettledOnce ==
    /\ \A o \in DOMAIN row :
          row[o].filled =
            Quantity({id \in settled : o \in {trades[id].taker, trades[id].maker}})
    /\ \A u \in Users :
          /\ cash[u] = Balance + Money(Sold(u)) - Money(Bought(u))
          /\ \A e \in Events :
                shares[<<u, e>>] = Quantity(Of(Bought(u), e)) - Quantity(Of(Sold(u), e))
    /\ \A e \in Events : volume[e] = Money(Of(settled, e))
    /\ ledger = UNION {InsertTransaction(trades[id], id) : id \in settled}

\* A row is FILLED exactly when its whole quantity is, and its remainder is
\* right. Only one worker at a time can promise this: applyOrderFill derives
\* the status from a read that a second transaction may overtake.
FilledExact ==
    \A o \in DOMAIN row :
        /\ row[o].status = "FILLED" <=> row[o].filled = QuantityOf[o]
        /\ row[o].remaining = QuantityOf[o] - row[o].filled

\* User u's MARKET BUY has cost more than the engine had frozen for it.
Overspender(u) == \E o \in overspent \cap MarketOrders : UserOf[o] = u

\* Postgres catches up with the engine: once everything is published and
\* applied it has the rows of all orders (of events it knows), the fills are
\* the engine's and, if the events were applied in the order of the stream, so
\* are the statuses. (A MARKET order's may differ: its cancellation is never
\* announced.) The engine never has less cash for a user than Postgres, and
\* more only if a MARKET BUY of that user was executed beyond the user's cash.
ProjectionCatchesUp ==
    (\A p \in Partitions : AtRest(p)) /\ applied = 1 .. Len(stream) =>
        /\ DOMAIN row = {o \in Orders : status[o] # "NONE" /\ EventOf[o] \in stored}
        /\ \A o \in DOMAIN row : row[o].filled = got[o]
        /\ \A u \in Users :
              /\ cash[u] <= available[u] + reserved[u]
              /\ cash[u] = available[u] + reserved[u] \/ Overspender(u)
        /\ ordered => \A o \in DOMAIN row \ MarketOrders : row[o].status = status[o]

\* A trade reached the stream ahead of one that was executed before it.
Overtaken ==
    \E j \in DOMAIN stream :
        /\ stream[j].type = "TRADE_EXECUTED"
        /\ \E id \in 1 .. stream[j].trade - 1 :
              \A i \in 1 .. j - 1 : stream[i] # [type |-> "TRADE_EXECUTED", trade |-> id]

\* The event of entry i has no row.
EventMissing(i) ==
    IF stream[i].type = "TRADE_EXECUTED"
    THEN EventOfTrade(trades[stream[i].trade]) \notin stored
    ELSE EventOf[stream[i].order] \notin stored

\* Entry i is a trade whose buyer overspent in the engine.
Unpayable(i) ==
    stream[i].type = "TRADE_EXECUTED" /\ Overspender(Buyer(trades[stream[i].trade]))

\* An entry that Postgres rejects ends the worker and would end every other
\* one. There are four ways to that: its event was rolled back, its buyer's
\* MARKET BUY was executed beyond the buyer's cash, events were applied out of
\* order, or trades of two partitions overtook each other on their way to the
\* stream.
RefusalExplained ==
    \A i \in refused : EventMissing(i) \/ Unpayable(i) \/ ~ordered \/ Overtaken

\* What is acknowledged is in Postgres: an entry never leaves the pending list
\* of the group before its effects are committed.
AckedApplied == \A i \in 1 .. cursor : i \notin pending => i \in applied

\* Entry i was left pending by a worker that ended, and passed over by the
\* XAUTOCLAIM of the last start: nobody will look at it.
PassedOver(i) ==
    i \in pending /\ \A w \in Workers : pc[w] # "down" /\ i \notin batch[w]

\* Every event on the stream is applied in the end, unless a worker stays down,
\* an event is refused, or a restart comes too early to claim it.
EventsHandled ==
    \/ <>[](\E w \in Workers : pc[w] = "down")
    \/ <>(refused # {})
    \/ <>[](\A i \in DOMAIN stream : i \in applied \/ PassedOver(i))
=============================================================================
