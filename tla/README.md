# Predix: TLA+ models of an event-driven prediction market

Predix is a prediction market written in Go. Users trade shares of the `YES` and
`NO` outcomes of events. This directory holds TLA+ models of the parts of it that
carry its logic, the TLC configurations that check them on small instances, and
TLAPS proofs for all instances. Paths below are relative to `src/`.

## The system

```
 client -> API handlers -> Redis manager -> commands:<partition>  (Redis streams)
              |                 ^                  |
              v                 | reply            v   one worker goroutine per owned partition
           Postgres             +------------ matching engine + ledger (one mutex)
              ^                                    |  emitEventP: journal, XADD, PUBLISH, Reset
              |                                    v
              +-------- DB worker <- events:out <- outbox
                                                    \-> ws channel -> WebSocket hub -> clients
 lease key and fencing counter per partition decide which engine process consumes it
```

| Part | State | Operations | Talks to |
|---|---|---|---|
| order book (`internal/engine/engine.go`, `types.go`) | bids and asks, sorted slices of orders | `addToBook`, `findCounterparty`, `executePair`, `removeOrderIndex`, `removeOrderFromSlice`, `removeInvalid*`, depth | engine |
| matching engine and ledger (`engine.go`, `ledger.go`) | `markets`, `orders`, `balances`, `positions` under `e.mu` | `CREATE_EVENT`, `USER_CREATED`, `CREATE_ORDER`, `CANCEL_ORDER`, `GET_DEPTH`, `GET_OPEN_ORDERS` | outbox |
| outbox (`outbox.go`, `emitEventP`) | journal file | `Append`, `Reset`, `ReadAll`, `Recover` | stream `events:out`, ws channel |
| ownership (`worker.go`, `internal/partition`) | lease key, fencing counter, `partitionToken` | `Acquire`, `Next`, `Renew`, `Release`, `runPartition`, `renewLease` | Redis |
| command log and replay (`replay.go`, `consumeMessages`) | command stream, its consumer group | `replayCommandLog`, `consumeMessages` (`XAUTOCLAIM`, `XREADGROUP`), `processStreamEntry` (`XACK`) | engine |
| DB worker (`internal/dbworker`) | position in its consumer group, rows in Postgres | `Run`, `processStreamEntry`, `handleEnvelope`, `settleTrade`, `applyOrderFill` | `events:out`, fencing counter, Postgres |
| Redis manager (`pkg/redis/manager.go`) | subscriptions, requests under way | `SendAndAwait`, `appendCommand`, `awaitResponse`, `SendCommandFanout` | command streams |
| API handlers (`internal/handler`) | rows of users and events | `Signup`, `CreateEvent`, `CreateOrder`, `DeleteOrder`, reads | manager, Postgres |
| WebSocket hub (`internal/websocket`) | clients, subscriptions, send buffers | register, unregister, subscribe, broadcast, `close` | ws channel |
| the rest | none that the system reads back | configuration, logging, metrics, JWT, routes | |

What is hard in it:

- workers of different partitions share one engine mutex and one ledger, and a
  `CREATE_ORDER` gives the mutex up twice on its way;
- a call to Redis may fail after it took effect, and the append of a command is retried;
- any process may die between any two calls; streams redeliver what was not acknowledged;
- a lease may expire under a holder that does not know; the events of a former holder
  are still in the stream when its successor starts;
- an engine rebuilds its state by executing the whole command stream again, possibly
  into memory that is not blank;
- trades of different partitions reach the event stream in another order than they
  were executed, and Postgres has constraints of its own;
- a client stops waiting while its command goes on;
- a WebSocket client may be closed by three goroutines.

The list of hazards, each at its line and with the properties that would notice it
going wrong, is in `PROJECT.json`.

What makes each part correct:

- order book: a side is the stable price-time sort of the open orders on it, and the
  whole behaves like an exchange with a first-in first-out queue for every price;
- ledger: cash and shares are neither created nor destroyed; what is reserved is
  what open orders hold; an order can always pay for what it may still trade;
- engine: an order that is closed stays closed; the stream shows the events of an
  order in their order; every command is finished;
- outbox: what was journaled is delivered, in order, and a nil result means delivery;
- ownership: one owner, no shared token, a fence that lets the owner through and
  nobody older, and a new owner after a failure;
- command log: the owner's state is the one the log determines; no command is
  acknowledged unexecuted; every effect is announced;
- DB worker: a trade is settled once and as a whole; Postgres gets to the engine's state;
- requests: what a client is told is true; an order is taken once;
- hub: one client never stops the others; a channel is closed once; a client that is
  gone leaves nothing behind.

## Modules

| Module | What it is |
|---|---|
| `OrderBook` | one side of a book as pure operators on sequences of order ids |
| `MCOrderBook` | the side under any sequence of calls, next to a reference definition |
| `Engine` | extends `OrderBook`: the engine process, its workers, its ledger |
| `Exchange` | abstract: what the engine promises to traders |
| `EngineRefinement` | extends `Engine`: the mapping under which it implements `Exchange` |
| `Outbox` | `emitEventP` and `Recover`, call by call |
| `PartitionOwnership` | engines competing for one partition, and the DB worker behind the fence |
| `CommandLog` | the command stream of a partition: replay, claim, consumption, acknowledgement |
| `DbWorker` | the event stream of several partitions, and what DB workers make of it in Postgres |
| `Rpc` | requests of the API, the Redis manager, and the engine's answers |
| `WebSocketHub` | hub, clients with their two goroutines, and the subscriber |
| `MCEngine`, `MCOutbox`, `MCPartitionOwnership`, `MCCommandLog`, `MCDbWorker`, `MCRpc`, `MCWebSocketHub` | instances for TLC |
| `Subsequences` | `Filter`: the elements of a sequence that are in a set, as a recursive function |
| `DataTheorems` | lemmas: sums over finite sets, smallest elements, filters and cuts of sequences |
| `EngineProofs` | extends `EngineRefinement`: the sides of a book, the engine, its ledger, the depth, the refinement |
| `OutboxProofs`, `PartitionOwnershipProofs`, `CommandLogProofs`, `DbWorkerProofs`, `RpcProofs`, `WebSocketHubProofs` | theorems on these modules |

Operators whose comment begins "A fault:" are broken variants of the definition
that follows them. No specification uses them. For each property that holds there
is one that breaks it (`mutants` in `PROJECT.json`), which shows that the property
depends on the code.

Every module with a specification defines `TypeOK`. That of `Engine` is checked in the
run `books` and proved; those of `Outbox`, `PartitionOwnership`, `CommandLog`, `DbWorker`,
`Rpc` and `WebSocketHub` are part of the invariants that are proved.

### How the modules fit together

Each of the others takes from its neighbours what it can see of them:

- `CommandLog` keeps of the engine which orders of one partition are open or closed.
  Whether the user can pay for a new order depends on `e.balances`, which all partitions
  of the process share, so it is a choice that every execution of a command makes anew.
  What a taken command does is in `Engine`.
- `DbWorker` has the engine as the source of the stream: acceptance, fills, cancels, the
  cash they freeze, move and release, clamped as in `ledger.go`, and the publication of
  trades after the mutex is released. Shares, and the order of the makers, are in `Engine`.
- `Rpc` has the engine as a consumer of one stream, in order, with redelivery; why an
  entry is redelivered is in `CommandLog`. Of the ledger it counts the reservations made
  for each order; whether they can be paid is in `Engine`.
- `PartitionOwnership` has events as tokens and the DB worker as the decision to apply
  one or to drop it; what applying does is in `DbWorker`, and what happens between
  `emitEventP` and the stream is in `Outbox`.

### OrderBook and Engine

The variables of `Engine` are the fields of `Engine` in `engine.go`: `markets`,
`book` (both slices of every `OrderBook`), `orders`, `balance` with `accounts` (the
users that have an entry: whether there is one decides if `USER_CREATED` grants
anything) and `position`; `pc`, `cur` and `trades` are the local state of the worker
goroutines, and `mu` the engine mutex where it is held over several steps.

A stretch of a handler between `Lock` and `Unlock` is one action if it has no loop.
`CREATE_ORDER` is

    AcceptOrder -> EmitCreated -> BeginMatch -> MatchPair* -> FinishMatch -> PublishTrade*
               \-> EmitCreatedFails           (mutex held)

with `RefuseOrder` for a reservation that fails. Phases without the mutex
interleave with everything other workers do. `CANCEL_ORDER` is `CancelOrder` and
`EmitCanceled`. Requests that return before they change anything (unknown event,
known order id, invalid request, order that cannot be canceled) are not steps.

Decisions a reader should know of:

- The code settles the trades of a match after the loop, in the same critical
  section. The loop reads nothing the settlement writes, so `MatchPair` settles its
  trade at once.
- `UnroutedCancels`: the engine accepts a cancel without an event id, which the
  router sends to partition 0; the API always sends one. Only then can a cancel meet
  an order that is between acceptance and matching, the case `matchOrder` checks for
  (`engine.go:820`). The runs `ledger` and `progress` are without it; `books` and the
  proofs are with it.
- `LostFanout`: the signup handler ignores a failed fan-out of `USER_CREATED`, so
  an order may reach a partition first.
- `BuyTypes`: market `BUY`s break conservation (see below), so `ledger` is without
  them; `books` has them.
- `MaxInt` is the largest machine integer, and products wrap as int64 does
  (`Int64`). Only products are wrapped: sums stay below the users' total holdings.
- Shares are seeded, because no command of the engine issues them; the tests do the
  same.
- A step's outcome when an emit fails includes the case that the event is in the
  stream all the same.

### Exchange and the refinement

`Exchange` knows no slices, scans, sorts, statuses, workers or ledgers. A book is a
queue for every side and price; an order arrives, has its turn, trades with the first
of its partners (best price, oldest, other user), and rests or leaves. `EngineRefinement`
maps the slice of a side to the queues of all prices, an order to "open" from its
acceptance to its last status, and the order being matched to the one whose worker
holds the mutex. `ImplementsExchange` then says that the scan of `findCounterparty`,
the stable sort, the removal of dead orders and the critical sections together keep
price-time priority. Every step of `Engine` is a step of `Exchange` or a stutter.

### Outbox

One variable per thing that persists (`journal`, `stream`, `ws`) and one for the
place in the code (`phase`). `emitMu` makes emits one sequence, so an envelope is its
number. A write that fails or is cut off may leave part of a line (`Torn`); an
envelope written behind it shares its line, and neither can be decoded. Every call
can fail with or without effect, if `RedisFails` or `DiskFails`; `failed` remembers
that one has. `Crash` is enabled everywhere, `Recover` included. What an envelope
contains is left out; whether it is a trade decides if it is broadcast.

### PartitionOwnership

One partition (partitions share nothing at this level), any number of engines, and
DB workers. `pc[e]` is the place in `runPartition`: competing for the lease, between
`SET NX` and `INCR`, consuming, or canceled and finishing its batch
(`processStreamEntry` does not look at the context). There is no clock: a lease may
expire at any time, which covers every pause of its holder. `Fault` counts expiries
under a live holder, crashes and Redis errors. The DB worker reads the counter and
decides in two steps; an event it handled and could not acknowledge is handled again.
`byHolder`, `dropped` and `lastApplied` are history.

### CommandLog

`log`, `cursor` and `pending` are the stream and its consumer group; `lease` is the key
in Redis and `valid` the engines whose partition context is not canceled, so that an
engine in `valid` that is not `lease` is a former owner that does not know yet.
`memory[e]` outlives a lost lease and is blank after a crash: `replayCommandLog` runs
into whatever is there. An entry is executed in three places: `Replay` (nothing is
emitted), `Handle` after `Claim` (`XAUTOCLAIM`), and `Handle` after `Read`.

Faults are `Crash`, `Expire`, a failing `XRANGE` (`ReplayFails`, which the code only
logs), a consumer group that cannot be created (`GroupFails`), a lost answer to
`XREADGROUP` (`ReadLost`) and a failing `XACK` (`AckFails`). `mishaps` names the ways in
which the memory of the owner may come to differ from the log:

| Mishap | How | Where |
|---|---|---|
| `blind` | the replay fails and the engine consumes without it | `worker.go:130` |
| `changed` | an entry is taken by one execution and refused by another: in between, a replay into used memory or the commands and replays of other partitions have freed or spent the cash, in the one ledger of the process | `replay.go:19`, `ledger.go:97` |
| `shared` | a former owner reads or claims entries before its renewal tells it | `engine.go:371` |
| `lost` | entries were delivered and the answer was lost; the loop asks for the next ones | `engine.go:371` |

`StateIsLog` says that without one of them the owner's state is exactly what one
execution of the log gives, through crashes, redelivery, duplicate commands and replay
into used memory. Allowing any one of the four makes it false, as TLC shows on the
instance of `replay` (`blind` needs a second fault, for the change of owner).

### DbWorker

The engine's side says what is on the stream and how much cash the engine has for each
user. `AcceptOrder` freezes it: a limit `BUY` its cost, a `MARKET` `BUY` whatever the user
has (`ReserveAmount`). `ExecutePair` asks nothing: a `MARKET` `BUY` walks the book beyond
what it has frozen, the reservation is clamped at zero (`SettleTrade`), and the seller is
paid all the same; `overspent` (history) remembers such orders. `MutexFree` keeps the
matches of two partitions, each of several steps, apart as the engine mutex does.

`stored` are the events with a row. `DeleteEvent` is the rollback of `CREATE_EVENT` by the
API when it got no answer although the engine has the market: the rows of the event's
orders go with it, unless a trade refers to one. An `ORDER_CREATED` of such an event
violates the foreign key (`OrderOrphaned`). Then `row`, `settled`, `cash`, `shares`,
`ledger` and `volume` are tables too. `settleTrade` is a transaction at READ COMMITTED, in
three steps, at the places where the transaction of another worker can come in between:
`InsertTrade` with the read of the taker's row, `FillTaker` (which takes a row lock) with
the read of the maker's, and `Settle`. Two workers wait for each other's locks; a
deadlock that Postgres breaks is one of `WorkerFails`. `TradeOrphaned` (a foreign key
fails) and `Insufficient` (the `UPDATE ... WHERE balance >=` finds no row) end the
worker, as every error does; the entry stays pending. `Start` claims whatever part of the
pending entries was idle for long enough.

`PriceOf` of a `MARKET` order is not used: it never rests.

### Rpc

A request is a goroutine with its place in the handler and in `SendAndAwaitWithTimeout`.
`GiveUp` is the deadline, the client that leaves, or a broken subscription: it may come
at any time. `SubscribeFails`, `AppendFails` and `FanoutFails` are failing calls; an
append that failed may have taken effect. Channels are random names, so several requests
on one channel is an extreme case, and the one in which the request id alone decides
(`awaitResponse`). The rollback of `CreateEvent` runs under the request's context: when
the client has left, it fails and the row stays. `Project` is the insert of an order by
the DB worker, which needs the row of its event; the rollback takes the rows of the
event's orders along.

`ExecuteEmitFails` is `CREATE_ORDER` when `ORDER_CREATED` cannot be emitted
(`engine.go:739`): the order is deleted again and the answer is a failure, but the
reservation stays (`holds`), and the event may be on the stream all the same
(`announced`). `leaks` counts these executions. A repeated or redelivered copy of the
command is then taken, and reserved for, once more.

### WebSocketHub

A panic ends the process, so every action is disabled after it. `close()` is two steps
for whoever calls it: the flag under `c.mu`, then channel and connection outside it.
`Client.Send` does not look at the flag. `Broadcast` copies the clients of an event under
the read lock; the sends come after it is released, so that a client may unsubscribe,
unregister or be closed in between. `owed` is history: what an open client has still to
get.

## Runs

Runs that pass:

| Run | Instance | Shows |
|---|---|---|
| `orderbook` | five arrivals, three prices | `SideIsStableSort`: a side is always one stable sort of the orders left on it |
| `ledger` | three orders, two events, two workers, shared cash | `Conserved`, `ReservedBacked`, `FundsCovered`, `DepthAgrees`, `EventsInOrder` |
| `books` | three orders of all types, cancels from another worker | `TypeOK`, `FillsAccounted`, `BookExact`, `NotCrossed`, `TerminalStays`, and the refinement `ImplementsExchange` |
| `progress` | two workers, failing emits, fairness | `CommandsFinish` |
| `outbox` | three envelopes, two crashes, torn lines, failing Redis and disk, fairness | `NoneLostByCrash`, `StreamInOrder`, `AckedDelivered`, `LossOnlyBehindSuccess`, `JournaledDelivered` |
| `failover` | two engines, three faults, three events, fairness | `TokensUnique`, `AppliedMonotone`, `HolderKeepsLease`, `FailoverCompletes` |
| `replay` | two engines, three commands, one fault, fairness | `StateIsLog`, `AtLeastOnce`, `EffectsAnnounced`, `CommandsHandled` |
| `dbworker` | four orders, two partitions, one worker that fails once or one event that is rolled back, fairness | `SettledOnce`, `FilledExact`, `ProjectionCatchesUp`, `RefusalExplained`, `AckedApplied`, `EventsHandled` |
| `rpc` | three requests, one channel, two appends each, two faults | `AnswersTrue`, `TakenOnce`, `EventsAgree`, `FundedEverywhere` |
| `hub` | two clients, buffers of one, two updates, fairness | `ClosedOnce`, `NoGaps`, `BroadcastEnds`, `ClosedLeave` |

Runs in which TLC finds the violation of something the repository says (the quotes
are under `findings` in `PROJECT.json`):

| Run | What happens |
|---|---|
| `overlock` | A BUY partly filled below its limit as taker, then filled as maker, keeps the difference reserved for ever (`ClosedHoldNothing`). |
| `replaygap` | A command is appended while no engine owns the partition. The next owner executes it in its replay, with emission suppressed; when the group delivers it, the order is known and only confirmed. Its `ORDER_CREATED` never reaches Postgres (`SuppressedKnown`). |

The properties of the passing runs leave out situations in which they, or stronger
properties of the same modules, do not hold. Each can be seen by changing the
configuration:

| Configuration | Change | Property that fails, and why |
|---|---|---|
| `MCEngine_ledger` | `RedisFails = TRUE` | `ReservedBacked`: an order whose `ORDER_CREATED` cannot be emitted is deleted and its reservation is not released (`engine.go:744`) |
| `MCEngine_ledger` | `LostFanout = TRUE` | `Conserved`: an order handled before `USER_CREATED` creates an empty account, and the starting balance is never granted (`ledger.go:51`) |
| `MCEngine_ledger` | `BuyTypes <- OrderTypes` | `Conserved` (and `ReservedBacked` before it): a market BUY may cost more than the user has; the clamp at zero (`ledger.go:146`) hides it and the seller gets cash nobody had |
| `MCEngine_ledger` | `MaxInt = 3` | `FundsCovered`: `quantity * price` wraps, and the order is accepted with too little reserved (`ledger.go:103`) |
| `MCOutbox_outbox` | check `NoneLost` | a failed XADD leaves its envelope in the journal, and the `Reset` of the next emit deletes it (`engine.go:1641`), although `outbox.go:24` speaks of "no trade is lost because Redis blipped"; or it was appended behind a torn line that `Recover` skips |
| `MCPartitionOwnership_failover` | a second DB worker | `AppliedMonotone`: an older event is written after a newer one was, because the counter is read before the write (`dbworker/worker.go:608`) |
| `MCPartitionOwnership_failover` | check `HolderUnfenced` | an engine that stalls between `SET NX` and `INCR` gets a newer token than the holder of the lease (`worker.go:79`) |
| `MCPartitionOwnership_failover` | check `OnlyStaleDropped` | an event emitted by the lease holder and handled after a failover is dropped as stale (`dbworker/worker.go:191`) |
| `MCDbWorker_dbworker` | `TwoWorkers`, the orders `ThreeOrders` with the `Fill...` definitions, one event and partition, `MarketOrders = {}`, `Balance = 2`, `MaxFails = 0`, invariants only | `FilledExact`: two transactions read the same fill and both write PARTIAL to an order that is then filled (`dbworker/worker.go:552`) |
| `MCWebSocketHub_hub` | check `NoPanic` | a send meets a channel that was closed after the targets were copied, and the process ends (`client.go:246`) |

What the properties make explicit by their exceptions:

- `ProjectionCatchesUp` is silent on the status of MARKET orders: `matchOrder` cancels
  what is left of one without an `ORDER_CANCELED`, and Postgres keeps it open. And a user
  whose MARKET BUY cost more than was frozen for it may have more cash in the engine than
  in Postgres, which has subtracted the whole cost.
- `RefusalExplained`: Postgres refuses a trade ("insufficient buyer balance") that the
  engine executed, when a MARKET BUY of the buyer was executed beyond the buyer's cash,
  or when the trade that gave the buyer the cash was executed first in another partition
  and published later, or applied later; and it refuses orders and trades of an event
  whose row was rolled back. The refused entry ends every worker that gets it. TLC finds
  a counterexample on the instance of `dbworker` when any one of the four explanations is
  left out.
- `EventsHandled`: a restart within ten seconds claims nothing, and nothing is claimed
  later; such an entry waits for the next start.
- `EventsAgree`: after an unanswered `CREATE_EVENT` the row may be gone and the market
  be there, with orders whose rows can never be inserted.
- `AnswersTrue`: a command that was executed twice may be reported as refused although
  one execution took it; and one whose order could not be announced is reported as
  refused although its cash stays reserved.
- `TakenOnce`: every such execution leaves a reservation that nothing will release, and
  a retry makes another one.
- `StateIsLog`, `CommandsHandled`: the mishaps above.
- `FundedEverywhere`: a fan-out in which an append failed is not retried.

Two engines in their consume loops at once are part of the models, not an error in
them: after an expiry the old holder goes on until its renewal, although `worker.go:19`
says "Only the lease holder ever processes a partition's command stream". What is
checked is what the fence (`failover`) and the log (`replay`) then make of it.

Two observations outside any property: the BUY row of the transaction ledger always
names the taker's order and the SELL row the maker's, also when the taker sells
(`InsertTransaction`); and sequence numbers in commands and events are only logged, so
nothing detects a gap or a repetition.

### Bounds

- `Engine`: two users are needed to trade and are enough for self-trade prevention;
  quantities 1 and 2 give full and partial fills on either side; prices 1 and 2 give
  better, equal and worse; three orders give a taker against two makers, or a taker
  that rests and is then a maker, with cancels among them. Two workers are all that can
  meet at one mutex pairwise, and the proofs are for any number.
- `Outbox`: three envelopes are one lost, one that wipes it out, and one more; two
  crashes interrupt an emit and the recovery from it.
- `PartitionOwnership`: two engines and three faults allow an owner, a successor, the
  first one again, and stale events of both; the proofs are for any number.
- `CommandLog`: two orders and three commands: taken, refused for lack of cash, a cancel,
  a duplicate, each as often as it is executed. One fault is a change of owner, or a
  failing call. All four properties also hold with two faults and two commands (a million
  states). The action constraint `FirstNames` only picks names: the first order is `x`,
  and `e1` is the first to get the lease.
- `DbWorker`: four orders are one trade in each partition where the second is paid with
  the first, a partly filled order, and two MARKET orders, of which the BUY overspends
  (a balance of 2, a price of 3) unless its user's sale in the other partition came first.
  `MaxFails` is one failure of the worker or one event rolled back. The action constraint
  `EngineFirst` lets workers start, and events be rolled back, when the engine has seen
  every order and is at rest: the engine does not see them, and every state of theirs with
  part of the stream is also reached with all of it, because `Read` takes any number of
  entries.
- `Rpc`: an event, an order on it, and a third request that repeats the order, cancels
  it or signs a user up; two faults are a failed append that took effect or an emit that
  failed, and a lost reply or a redelivery.
- `WebSocketHub`: two clients are one that is slow and one that is not; with a buffer of
  one the second update meets a full buffer.

Users and orders of `ledger`, `books` and `overlock` are interchangeable (`SYMMETRY`);
runs with liveness use no symmetry (`FirstNames` picks names in the first step and leaves
the rest of the behaviour alone). Deadlock is checked in `orderbook` and
not elsewhere: with all ids, emits, commands or faults used up the bounded system really
has nothing left to do.

### Fairness

- `Engine`: strong fairness on what a worker does with a command it has accepted.
  A goroutine is scheduled again, and a `sync.Mutex` in starvation mode goes to the
  one that has waited longest, so one that tries again and again gets it. Nothing
  obliges a client to send a command.
- `Outbox`: weak fairness on the steps of a process that is up; every call to disk or
  Redis returns. None on starting a process, hence the first disjunct of
  `JournaledDelivered`.
- `PartitionOwnership`: weak fairness on competing for a free lease, on fetching the
  token, on noticing a lost lease (the renewal ticker fires), on finishing a batch,
  and on the expiry of a key nobody renews. None on restarts, and none that says who
  wins the lease.
- `CommandLog`: weak fairness on the steps of every engine and on competing for the
  lease. None on commands or faults.
- `DbWorker`: weak fairness on the steps of a worker that is up. None on `Start`:
  `cmd/db-worker` waits for a signal when `Run` has returned.
- `WebSocketHub`: weak fairness on the subscriber, on `close()`, and on reading and
  writing once the connection is closed, when they fail. Before that a peer may keep a
  goroutine waiting.
- `Rpc` has safety properties only.

## Proofs

All theorems are for every value of the constants that satisfies the `ASSUME`s of the
module (routing is a function to the partitions, amounts are naturals, null values are
no ids, limits are positive), so for any number of users, orders, workers, engines,
events, commands and failures. Some need more; what they need stands in the theorem,
and without it the property is false (finiteness aside, which sums over users need to mean
anything):

| Theorem | Property | Needs besides |
|---|---|---|
| `EngineProofs!TypeCorrect` | `TypeOK` | |
| `EngineProofs!FillsAlwaysAccounted` | `FillsAccounted` | |
| `EngineProofs!BooksAlwaysExact` | `BookExact` | |
| `EngineProofs!TerminalAlwaysStays` | `TerminalStays` | |
| `EngineProofs!NeverCrossed` | `NotCrossed` | |
| `EngineProofs!EventsAlwaysInOrder` | `EventsInOrder` | `~UnroutedCancels`: a cancel without its event overtakes the match of its order |
| `EngineProofs!FundsAlwaysCovered` | `FundsCovered` | `NoOverflow`: no `quantity * price` wraps |
| `EngineProofs!ReservationsAlwaysBacked` | `ReservedBacked` | `NoOverflow`, `LimitBuys` (no market BUY), `~RedisFails` |
| `EngineProofs!AlwaysConserved` | `Conserved` | `NoOverflow`, `LimitBuys`, `~LostFanout`, finitely many users |
| `EngineProofs!DepthAlwaysAgrees` | `DepthAgrees` | finitely many outcomes |
| `EngineProofs!SidesAlwaysSorted` | every side is sorted and every limit is a price (`SidesInv`) | |
| `EngineProofs!EngineImplementsExchange` | `ImplementsExchange` | |
| `OutboxProofs!AckedAlwaysDelivered` | `AckedDelivered` | |
| `OutboxProofs!LossAlwaysBehindSuccess` | `LossOnlyBehindSuccess` | |
| `OutboxProofs!CrashesLoseNothing` | `NoneLostByCrash` | |
| `OutboxProofs!StreamAlwaysInOrder` | `StreamInOrder` | |
| `PartitionOwnershipProofs!TokensAlwaysUnique` | `TokensUnique` | |
| `PartitionOwnershipProofs!HolderAlwaysKeepsLease` | `HolderKeepsLease` | |
| `PartitionOwnershipProofs!FencingHolds` | `AppliedMonotone` | one DB worker |
| `CommandLogProofs!TypeCorrect` | `TypeOK` | |
| `CommandLogProofs!AlwaysAtLeastOnce` | `AtLeastOnce` | |
| `CommandLogProofs!EffectsAlwaysAnnounced` | `EffectsAnnounced` | |
| `CommandLogProofs!StateAlwaysLog` | `StateIsLog` | |
| `DbWorkerProofs!TypeCorrect` | `TypeOK` | |
| `DbWorkerProofs!AckedAlwaysApplied` | `AckedApplied` | |
| `DbWorkerProofs!AlwaysSettledOnce` | `SettledOnce` | |
| `DbWorkerProofs!RefusalAlwaysExplained` | `RefusalExplained` | |
| `DbWorkerProofs!AmountsAlwaysCatchUp` | the part of `ProjectionCatchesUp` on orders, fills and cash | |
| `DbWorkerProofs!FilledAlwaysExact` | `FilledExact` | one worker |
| `DbWorkerProofs!ProjectionAlwaysCatchesUp` | `ProjectionCatchesUp` | one worker |
| `RpcProofs!RpcTypeCorrect` | `TypeOK` | |
| `RpcProofs!AnswersAreTrue` | `AnswersTrue` | |
| `RpcProofs!CommandsTakenOnce` | `TakenOnce` | |
| `RpcProofs!EventsInAgreement` | `EventsAgree` | |
| `RpcProofs!UsersFundedEverywhere` | `FundedEverywhere` | |
| `WebSocketHubProofs!HubTypeCorrect` | `TypeOK` | |
| `WebSocketHubProofs!ChannelsClosedOnce` | `ClosedOnce` | |
| `WebSocketHubProofs!NoUpdateMissed` | `NoGaps` | |

What fails without `NoOverflow`, `LimitBuys`, `~RedisFails`, `~LostFanout` or the single
worker can be seen in the table of changed configurations above. Where the runs are
smaller than the theorems (one worker in `dbworker`, no unrouted cancels in `ledger`) the
theorems are what covers the rest.

### Engine

`BookExact` is not inductive: whether the order `FinishMatch` puts on a side is there
already depends on what the workers have in hand. The inductive invariant,

    TypeOK /\ WorkersOK /\ FillsAccounted /\ RestingOK /\ NoDuplicates /\ NothingLost

adds `WorkersOK`: the worker in the matching loop is the one that holds the mutex
(`MutexOK`); an order between acceptance and the end of matching is in the order map,
is PENDING or, before matching, CANCELED, and has traded nothing before matching
(`InFlightOK`); no two workers have the same order in flight (`OwnersUnique`); busy
workers have an order and publishing ones a trade. With it one gets
`OpponentsIsBook`: the sides a match looks at hold no dead order, so
`removeInvalidBids` and `removeInvalidAsks` never remove anything. There is one lemma
per action, and lemmas on what `AddToBook`, `RemoveIndex` and `RemoveOrder` do to the
ids on a side.

`NotCrossed` speaks of the moments at which nobody matches. `Uncrossed` says it of all
moments, and is inductive: `FinishMatch` lets an order rest only when
`findCounterparty` has found nobody on the other side who would trade with it.

The order of events (`StreamOK`) rests on routing: an order in flight, one being
canceled and one whose trade is still to be published are all in the hands of the
worker of their own partition, so that none of these can overtake another.

### Ledger

`LedgerSteps` reduces every step of the engine to five kinds: an account is granted,
an order is accepted, two orders trade (`TradesPair`), an order is closed (`Closes`),
an undo after a failed emit. Three invariants are stacked on that of the engine:
`Solvent` (no negative holding, and every open order has frozen what it may have to
hand over), `Backed` (what is reserved is the sum of what orders have frozen, plus
what a failed emit left behind), and conservation. Each sum changes at one or two
users, or at one or two orders; `DataTheorems` has what that does to it.

The first part of `DataTheorems` is about `SumFunctionOnSet` of the community modules. It
proves, by minimal counterexamples over the strict inclusion of finite sets, that the
recursion behind it has exactly one solution, that a sum does not depend on the order of
the elements, and how it changes with one element, with the function and with the set.

### Depth

`DepthAgrees` compares two ways of adding up the same quantities: by levels of price on
the sides (`handleGetDepth`), and over the orders of the users (`handleGetOpenOrders`).
It holds in every state that satisfies the engine's invariant and has finitely many
orders: by `BookExact`, while no order is in flight, the open orders are exactly the ones
on the books, each on one side and once, so the sum over the open orders of an event can
be grouped by side, and the sum over a side by price (`SumGroups`, twice). That the order
map is finite needs an induction of its own (`OrdersFiniteNext`).

### The refinement

`Filter` is written as a recursive function, so that its laws can be proved
(`DataTheorems`, again by minimal counterexamples): what it keeps when a sequence is
extended, joined, cut, or loses or gains an element somewhere in the middle.

The invariant of the engine says nothing about the order on a side. `SidesInv` adds that
each side is sorted from the best price on, and that every limit is in `Prices`
(`SidesAlwaysSorted`). It is what makes `AddToBook` find one place: on a sorted side the
orders that the new one does not beat are an initial part of it (`AddToBookPlace`), so
the order is inserted behind everything at its own price and, filtered by price, is
appended to its queue (`FilterInsert`).

Each step of the engine is first reduced to what it does to orders and books
(`TradesWith`, `Rests`, `Leaves`, `Cancels`), and then shown to be a step of `Exchange`:

| Engine | Exchange |
|---|---|
| `AcceptOrder` | `Arrive` |
| `BeginMatch` | `Begin`, or none if the order was canceled |
| `MatchPair` | `TradeWith`: the first candidate on a sorted side has the best price, and by `FilterOrder` nobody ahead of it in its queue is a partner |
| `FinishMatch` | `Rest` or `Leave`: no candidate on the side means no partner in the queues (`PartnersFound`) |
| `CancelOrder` | `Withdraw` |
| `EmitCreatedFails` | `Withdraw`, or none if the order was canceled |
| everything else | none |

The order being matched is the one of the worker that holds the mutex, so steps of other
workers leave it alone (`ActiveKept`).

### Outbox

The inductive invariant says which envelope each phase is about (`CycleOK`), that a
torn line is the last one (`TornLast`), that what `Recover` has read is in the stream or
still to come (`RecoverOK`), and, as long as no call has failed, that the journal holds
at most the last envelope and everything else is in the stream (`NoFailureOK`). From the
last one gets that a crash alone neither loses nor reorders anything.

### PartitionOwnership

`TokensUnique` is strengthened with: owners have a token;
events that are still to be handled carry one that was handed out; nothing read or
applied is ahead of the counter; with one DB worker, nothing newer than the counter
value it read is applied before it decides (`ReadIsCurrent`). The last is what makes
`AppliedMonotone` true and what a second DB worker destroys.

### CommandLog

`AtLeastOnce` needs that an entry about to be acknowledged was executed (`AckOK`).
`EffectsAnnounced` speaks of the lease holder and is proved for the memory of every
engine, a former owner's too (`MemoriesAnnounced`, `LiveAnnounced`).

`StateIsLog` follows from `LogOK`: without a mishap every engine's memory is what the
first `n` commands give, for some `n` with three properties (`Agrees`): what it has at
hand goes on from `n` without a gap; a lease holder has executed or has at hand
everything that was delivered; and a command up to `n` would change nothing now, or has
been refused once (`Settled`). The third is why redelivery, duplicates and a replay into
used memory do no harm, and why an entry refused then and taken now (`changed`) does. A
fourth says that it is on record whether the user of a command up to `n` could pay, unless
that makes no difference (`Indifferent`): `Replayed` asks the record (`taken`), and without
`changed` every later execution gets the same answer, so the record of `n` commands does
not change any more (`Alike`). That `Replayed` is the fold of `Execute` over the log is
proved from its definition (`Runs`).

### DbWorker

The invariant has four layers:

- `EngineInv`, what is on the stream: each trade once and between the creation and the
  cancellation of its orders (`OrderingOK`), everything published or waiting, and fills
  the sums over the trades;
- `CashInv`, what the clamped ledger of the engine comes to: what is left of an open limit
  BUY is frozen for it (`CoveredOK`); the reservation of a user is the sum of what the
  user's orders have frozen (`BackedOK`), so the clamp takes nothing away; the engine has
  for a user what the trades have left (`HeldOK`); and the buyer of every trade could pay
  from what the trades with smaller ids had left (`SolventOK`). The last three exempt a
  user with a MARKET BUY beyond what it had frozen, except that the engine never has less
  than the trades have left;
- `ControlInv`, what workers do: two open transactions are never about the same trade,
  and none about a settled one (`TransactionOK`); what is about to be acknowledged is
  applied (`DoneOK`);
- `TableInv`, what Postgres has: a trade's entry is applied exactly when the trade is in
  its table (`AppliedOK`), the tables are the sums over the settled trades (`TablesOK`),
  and, as long as everything came in its turn, what is applied is an initial part of the
  stream (`PrefixOK`).

`RefusalExplained` needs all of them: in order and without overtaking, the settled trades
are exactly those with smaller ids (`SettledBefore`), so keys exist, as long as the event
has its row, and the buyer can pay, as long as it has not overspent. That the causes of a
refusal stay causes (`CausesStay`) carries the property over later steps: a row that was
rolled back does not come back, and no order leaves `overspent`.

With one worker there is also `ExactInv`: the status that `applyOrderFill` has computed is
the one its row still calls for when it is written (`SeenOK`), and a row has the status
that its fill and its cancellation give it (`RowStatusOK`). A second worker breaks
`SeenOK`, and with it `FilledExact`; the amounts do not depend on it
(`AmountsAlwaysCatchUp`).

### Rpc

The invariant says what every message in flight claims, and that it is so: a confirmation
means that what its request asks for is so in the engine (`Effective`), a refusal that one
execution of its command took nothing, or took an order and forgot it again (`Refused`).
Both stay true once they are, so a late, repeated or redelivered reply does no harm
(`MessagesOK`). A message claims something of the request whose id it carries, and
`awaitResponse` passes over those with another id; that is what carries the claim from the
message to the answer (`ResultsOK`).

Besides: at which steps a request of each type can be, and with which result (`StagesOK`);
a command that is not yet sent has no copy in the stream, and one being appended at most
one copy for each try (`CopiesOK`); the row of an event is there while its market is asked
for, and after success (`RowsOK`); a command whose effect stays has left its trace in the
order, so that no second execution takes (`TakesOK`, `KeptOnce`); the ledger holds the
reservation an order should have, and at least one more if it was ever forgotten
(`LedgerOK`); and the fan-out has reached the partitions in their order (`FanoutOK`).

### WebSocketHub

`ClosedOnce` needs `CloseOK`: at most one of the three goroutines that can close a client
is between the flag and the channel, and none once the channel is closed or while the flag
is not set. `NoGaps` compares what an open client is owed with what is in its buffer and
what the subscriber has still to send. It needs that the subscriber's copy has every
client once and that there is an update to send (`TargetsOK`), and that the hub knows
nothing of a client before its connection (`FreshOK`). Error messages,
which share the buffer with the updates, are filtered out, so the laws of `Filter` in
`DataTheorems` carry the steps that take from a buffer or add to it.

### Only model-checked

- liveness (`CommandsFinish`, `JournaledDelivered`, `FailoverCompletes`,
  `CommandsHandled`, `EventsHandled`, `BroadcastEnds`, `ClosedLeave`), which needs
  fairness and `ENABLED`;
- `SideIsStableSort`, which compares a side with a recursive sort: what the sort computes
  for every sequence needs an induction over data whose hypothesis is an operator. For the
  sides of the engine's books `SidesAlwaysSorted` and `EngineImplementsExchange` say what
  follows from it: sorted by price, and by arrival within a price.

Every other invariant and action property of a passing run is a theorem.

## Not modelled

- Handlers that only read (users, positions, events, orders, depth through the API) and
  the queries behind them: they change nothing.
- Hashing of event ids (a routing function is a constant), formats, ids, average prices,
  the layout of messages, metrics, health endpoints, logs, JWT, middleware,
  configuration, route tables, executables: no protocol state.
- Sequence numbers of commands and envelopes: no consumer reads them.
- The envelope record and its constructor: the modules keep the fields that decide
  something.
- The composition of all modules in one. The interfaces are narrow (see "How the modules
  fit together"), and the product of their states is out of TLC's reach. What falls
  between them: an envelope that `Recover` adds to the stream carries the token of its
  time and meets the fence; failing emits behind replayed commands.

## Plan

Written: all modules above; proofs of every safety property of the passing runs, the
refinement included, but `SideIsStableSort`.

What could be added: liveness, with a prover that has `ENABLED`; the executables
(`cmd/*`), whose order of start and stop is not modelled; issuing shares and resolving
events, once the engine has commands for them.
