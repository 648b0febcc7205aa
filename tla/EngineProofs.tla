---------------------------- MODULE EngineProofs ----------------------------
(***************************************************************************)
(* Proofs about Engine, for every set of users, events, orders, prices,    *)
(* quantities and partitions, every routing, and whatever emits fail.      *)
(*                                                                         *)
(* In order: what the operators of OrderBook do to a side; the inductive   *)
(* invariant IInv, from which types, the accounting of fills, exact and    *)
(* uncrossed books and the order of events on the stream follow; the       *)
(* ledger; the depth; sorted sides; and, step by step, that the engine     *)
(* implements Exchange.                                                    *)
(***************************************************************************)
EXTENDS EngineRefinement, DataTheorems

-----------------------------------------------------------------------------
(* The sides of a book                                                     *)

\* Inserting an id into a side gives a side with that id, at the place asked
\* for, and with all the others (append and sort in addToBook).
LEMMA InsertAfterProperties ==
    ASSUME NEW S, NEW s \in Seq(S), NEW k \in 0 .. Len(s), NEW x \in S
    PROVE  /\ InsertAfter(s, k, x) \in Seq(S)
           /\ Len(InsertAfter(s, k, x)) = Len(s) + 1
           /\ DOMAIN InsertAfter(s, k, x) = 1 .. Len(s) + 1
           /\ \A i \in 1 .. Len(s) + 1 :
                 InsertAfter(s, k, x)[i] =
                     IF i <= k THEN s[i] ELSE IF i = k + 1 THEN x ELSE s[i - 1]
    BY DEF InsertAfter

\* Removing an index gives a side without that element and with all the
\* others (removeOrderIndex).
LEMMA RemoveIndexProperties ==
    ASSUME NEW S, NEW s \in Seq(S), NEW k \in 1 .. Len(s)
    PROVE  /\ RemoveIndex(s, k) \in Seq(S)
           /\ Len(RemoveIndex(s, k)) = Len(s) - 1
           /\ DOMAIN RemoveIndex(s, k) = 1 .. Len(s) - 1
           /\ \A i \in 1 .. Len(s) - 1 :
                 RemoveIndex(s, k)[i] = IF i < k THEN s[i] ELSE s[i + 1]
    BY DEF RemoveIndex

\* Inserting an order adds it to the ids on the side, and keeps them distinct
\* if it was not there.
LEMMA InsertAfterIds ==
    ASSUME NEW S, NEW s \in Seq(S), NEW k \in 0 .. Len(s), NEW x \in S
    PROVE  /\ Ids(InsertAfter(s, k, x)) = Ids(s) \cup {x}
           /\ Distinct(s) /\ x \notin Ids(s) => Distinct(InsertAfter(s, k, x))
<1> DEFINE r == InsertAfter(s, k, x)
<1>a. Len(s) \in Nat /\ DOMAIN s = 1 .. Len(s)
    OBVIOUS
<1>b. /\ DOMAIN r = 1 .. Len(s) + 1
      /\ \A i \in 1 .. Len(s) + 1 :
            r[i] = IF i <= k THEN s[i] ELSE IF i = k + 1 THEN x ELSE s[i - 1]
    BY InsertAfterProperties
<1>1. /\ Len(s) \in Nat /\ DOMAIN s = 1 .. Len(s)
      /\ DOMAIN r = 1 .. Len(s) + 1
      /\ \A i \in 1 .. Len(s) + 1 :
            r[i] = IF i <= k THEN s[i] ELSE IF i = k + 1 THEN x ELSE s[i - 1]
    BY <1>a, <1>b
<1> HIDE DEF r
<1>2. Ids(r) \subseteq Ids(s) \cup {x}
    BY <1>1 DEF Ids
<1>3. x \in Ids(r)
    <2>1. k + 1 \in DOMAIN r /\ r[k + 1] = x
        BY <1>1
    <2> QED
        BY <2>1 DEF Ids
<1>4. ASSUME NEW j \in DOMAIN s PROVE s[j] \in Ids(r)
    <2>1. CASE j <= k
        <3>1. j \in DOMAIN r /\ r[j] = s[j]
            BY <1>1, <2>1
        <3> QED
            BY <3>1 DEF Ids
    <2>2. CASE j > k
        <3>1. j + 1 \in DOMAIN r /\ r[j + 1] = s[j]
            BY <1>1, <2>2
        <3> QED
            BY <3>1 DEF Ids
    <2> QED
        BY <1>1, <2>1, <2>2
<1>5. ASSUME Distinct(s), x \notin Ids(s) PROVE Distinct(r)
    <2> SUFFICES ASSUME NEW i \in DOMAIN r, NEW j \in DOMAIN r, i < j
                 PROVE  r[i] # r[j]
        BY <1>1 DEF Distinct
    <2>1. \A m \in DOMAIN s : s[m] # x
        BY <1>5 DEF Ids
    <2>2. \A m, n \in DOMAIN s : m # n => s[m] # s[n]
        BY <1>5 DEF Distinct
    <2>3. CASE j <= k
        BY <1>1, <2>2, <2>3
    <2>4. CASE j = k + 1
        BY <1>1, <2>1, <2>4
    <2>5. CASE j > k + 1 /\ i <= k
        BY <1>1, <2>2, <2>5
    <2>6. CASE j > k + 1 /\ i = k + 1
        BY <1>1, <2>1, <2>6
    <2>7. CASE j > k + 1 /\ i > k + 1
        <3>1. r[i] = s[i - 1] /\ r[j] = s[j - 1]
            BY <1>1, <2>7
        <3>2. i - 1 \in DOMAIN s /\ j - 1 \in DOMAIN s /\ i - 1 # j - 1
            BY <1>1, <2>7
        <3> QED
            BY <2>2, <3>1, <3>2
    <2> QED
        BY <1>1, <2>3, <2>4, <2>5, <2>6, <2>7
<1>6. Ids(r) = Ids(s) \cup {x}
    BY <1>2, <1>3, <1>4 DEF Ids
<1> QED
    BY <1>5, <1>6 DEF r

\* Removing an index from a side of distinct orders takes away exactly the
\* order that was there.
LEMMA RemoveIndexIds ==
    ASSUME NEW S, NEW s \in Seq(S), NEW k \in 1 .. Len(s), Distinct(s)
    PROVE  /\ Ids(RemoveIndex(s, k)) = Ids(s) \ {s[k]}
           /\ Distinct(RemoveIndex(s, k))
<1> DEFINE r == RemoveIndex(s, k)
<1>a. Len(s) \in Nat /\ DOMAIN s = 1 .. Len(s)
    OBVIOUS
<1>b. /\ DOMAIN r = 1 .. Len(s) - 1
      /\ \A i \in 1 .. Len(s) - 1 : r[i] = IF i < k THEN s[i] ELSE s[i + 1]
    BY RemoveIndexProperties, Zenon
<1>1. /\ Len(s) \in Nat /\ DOMAIN s = 1 .. Len(s)
      /\ DOMAIN r = 1 .. Len(s) - 1
      /\ \A i \in 1 .. Len(s) - 1 : r[i] = IF i < k THEN s[i] ELSE s[i + 1]
    BY <1>a, <1>b
<1> HIDE DEF r
<1>2. ASSUME NEW i \in DOMAIN r PROVE r[i] \in Ids(s) \ {s[k]}
    <2>1. CASE i < k
        <3>1. i \in DOMAIN s /\ r[i] = s[i] /\ s[i] # s[k]
            BY <1>1, <2>1 DEF Distinct
        <3> QED
            BY <3>1 DEF Ids
    <2>2. CASE i >= k
        <3>1. i + 1 \in DOMAIN s /\ r[i] = s[i + 1] /\ s[i + 1] # s[k]
            BY <1>1, <2>2 DEF Distinct
        <3> QED
            BY <3>1 DEF Ids
    <2> QED
        BY <1>1, <2>1, <2>2
<1>3. ASSUME NEW j \in DOMAIN s, s[j] # s[k] PROVE s[j] \in Ids(r)
    <2>1. CASE j < k
        <3>1. j \in DOMAIN r /\ r[j] = s[j]
            BY <1>1, <2>1
        <3> QED
            BY <3>1 DEF Ids
    <2>2. CASE j > k
        <3>1. j - 1 \in DOMAIN r /\ r[j - 1] = s[j]
            BY <1>1, <2>2
        <3> QED
            BY <3>1 DEF Ids
    <2>3. j # k
        BY <1>3
    <2> QED
        BY <1>1, <2>1, <2>2, <2>3
<1>4. Ids(r) = Ids(s) \ {s[k]}
    BY <1>2, <1>3 DEF Ids
<1>5. Distinct(r)
    <2> SUFFICES ASSUME NEW i \in DOMAIN r, NEW j \in DOMAIN r, i < j
                 PROVE  r[i] # r[j]
        BY <1>1 DEF Distinct
    <2>1. \A m, n \in DOMAIN s : m # n => s[m] # s[n]
        BY DEF Distinct
    <2>2. CASE j < k
        BY <1>1, <2>1, <2>2
    <2>3. CASE i < k /\ j >= k
        BY <1>1, <2>1, <2>3
    <2>4. CASE i >= k
        BY <1>1, <2>1, <2>4
    <2> QED
        BY <1>1, <2>2, <2>3, <2>4
<1> QED
    BY <1>4, <1>5 DEF r

\* addToBook inserts: there is a place for the order on the side.
LEMMA AddToBookInserts ==
    ASSUME NEW S, NEW s \in Seq(S), NEW os, NEW x \in S
    PROVE  \E k \in 0 .. Len(s) : AddToBook(os, s, x) = InsertAfter(s, k, x)
<1> DEFINE ahead == {i \in DOMAIN s :
                       ~Better(os[x].Side, os[x].Price, os[s[i]].Price)}
<1>1. Len(s) \in Nat /\ DOMAIN s = 1 .. Len(s)
    OBVIOUS
<1>2. IsFiniteSet(1 .. Len(s)) /\ Cardinality(1 .. Len(s)) = Len(s)
    BY <1>1, FS_Interval
<1>3. ahead \in SUBSET (1 .. Len(s))
    BY <1>1
<1>4. IsFiniteSet(ahead) /\ Cardinality(ahead) <= Len(s)
    BY <1>2, <1>3, FS_Subset
<1>5. Cardinality(ahead) \in Nat
    BY <1>4, FS_CardinalityType
<1>6. Cardinality(ahead) \in 0 .. Len(s)
    BY <1>1, <1>4, <1>5
<1> QED
    BY <1>6 DEF AddToBook

\* removeInvalidBids and removeInvalidAsks leave a side alone on which no
\* order is dead.
LEMMA RemoveInvalidKeeps ==
    ASSUME NEW S, NEW s \in Seq(S), NEW os,
           \A i \in DOMAIN s : ~Dead(os[s[i]])
    PROVE  RemoveInvalid(os, s) = s
<1> DEFINE alive == {i \in DOMAIN s : ~Dead(os[s[i]])}
<1>1. alive = 1 .. Len(s)
    OBVIOUS
<1>2. CASE Len(s) = 0
    <2>1. alive = {} /\ s = << >>
        BY <1>1, <1>2
    <2> QED
        BY <2>1 DEF RemoveInvalid
<1>3. CASE Len(s) # 0
    <2> DEFINE first == CHOOSE i \in alive : \A j \in alive : i <= j
    <2>1. 1 \in alive /\ \A j \in alive : 1 <= j
        BY <1>1, <1>3
    <2>2. first \in alive /\ \A j \in alive : first <= j
        BY <2>1
    <2> HIDE DEF first
    <2>3. first = 1
        BY <1>1, <2>1, <2>2
    <2>4. SubSeq(s, 1, Len(s)) = s
        OBVIOUS
    <2> QED
        BY <2>1, <2>3, <2>4 DEF RemoveInvalid, first
<1> QED
    BY <1>2, <1>3

\* removeOrderFromSlice takes exactly the order away, if it is there.
LEMMA RemoveOrderIds ==
    ASSUME NEW S, NEW s \in Seq(S), NEW x, Distinct(s)
    PROVE  /\ RemoveOrder(s, x) \in Seq(S)
           /\ Ids(RemoveOrder(s, x)) = Ids(s) \ {x}
           /\ Distinct(RemoveOrder(s, x))
<1> DEFINE at == {i \in DOMAIN s : s[i] = x}
<1>1. CASE at = {}
    <2>1. RemoveOrder(s, x) = s
        BY <1>1 DEF RemoveOrder
    <2>2. x \notin Ids(s)
        BY <1>1 DEF Ids
    <2> QED
        BY <2>1, <2>2
<1>2. CASE at # {}
    <2>1. PICK i \in DOMAIN s : s[i] = x
        BY <1>2
    <2>2. at = {i}
        BY <2>1 DEF Distinct
    <2>3. (CHOOSE m \in at : \A j \in at : m <= j) = i
        BY <2>2
    <2>4. RemoveOrder(s, x) = RemoveIndex(s, i)
        BY <1>2, <2>3 DEF RemoveOrder
    <2>5. i \in 1 .. Len(s)
        OBVIOUS
    <2> QED
        BY <2>1, <2>4, <2>5, RemoveIndexIds, RemoveIndexProperties
<1> QED
    BY <1>1, <1>2

\* addToBook adds the order to the ids on the side.
LEMMA AddToBookIds ==
    ASSUME NEW S, NEW s \in Seq(S), NEW os, NEW x \in S
    PROVE  /\ AddToBook(os, s, x) \in Seq(S)
           /\ Ids(AddToBook(os, s, x)) = Ids(s) \cup {x}
           /\ Distinct(s) /\ x \notin Ids(s) => Distinct(AddToBook(os, s, x))
    BY AddToBookInserts, InsertAfterProperties, InsertAfterIds

-----------------------------------------------------------------------------
(* The inductive invariant                                                 *)

\* The phases in which a worker has an order that is not settled yet.
InFlightPhases == {"announce", "match", "matching"}

\* A worker is in the matching loop exactly while it holds the mutex.
MutexOK == \A p \in Partitions : pc[p] = "matching" <=> mu = p

\* A worker that publishes has something to publish.
PublishOK == \A p \in Partitions : pc[p] = "publish" => trades[p] # << >>

\* A busy worker is busy with an order.
BusyOK == \A p \in Partitions : pc[p] # "idle" => cur[p] \in OrderIds

\* An order between its acceptance and the end of matchOrder is in the order
\* map. It is PENDING, or CANCELED if a cancel came in before the mutex was
\* taken, and until matching starts it has traded nothing.
InFlightOK ==
    \A p \in Partitions : pc[p] \in InFlightPhases =>
        /\ cur[p] \in DOMAIN orders
        /\ orders[cur[p]].Status \in {StatusPending, StatusCanceled}
        /\ pc[p] = "matching" => orders[cur[p]].Status = StatusPending
        /\ pc[p] # "matching" => orders[cur[p]].FilledQuantity = 0

\* No two workers have the same order in flight.
OwnersUnique ==
    \A p, q \in Partitions :
        pc[p] \in InFlightPhases /\ pc[q] \in InFlightPhases /\ cur[p] = cur[q] => p = q

\* What the workers rely on between their steps.
WorkersOK == MutexOK /\ PublishOK /\ BusyOK /\ InFlightOK /\ OwnersUnique

\* The inductive invariant.
IInv ==
    /\ TypeOK
    /\ WorkersOK
    /\ FillsAccounted
    /\ RestingOK
    /\ NoDuplicates
    /\ NothingLost

-----------------------------------------------------------------------------
(* Lemmas                                                                  *)

\* A wrapped product is an integer.
LEMMA Int64Type == \A x \in Int : Int64(x) \in Int
    BY AmountsAssumption DEF Int64

\* What the invariant says of orders, books and in-flight orders survives a
\* step that leaves all three alone.
LEMMA Frame ==
    ASSUME IInv, UNCHANGED <<orders, book>>,
           \A x \in OrderIds : InFlight(x)' <=> InFlight(x)
    PROVE  FillsAccounted' /\ RestingOK' /\ NoDuplicates' /\ NothingLost'
<1> USE DEF IInv, TypeOK
<1>1. FillsAccounted'
    BY DEF FillsAccounted
<1>2. RestingOK'
    BY DEF RestingOK, Open, BookKey
<1>3. NoDuplicates'
    BY DEF NoDuplicates
<1>4. NothingLost'
    BY DEF NothingLost, Open, BookKey
<1> QED
    BY <1>1, <1>2, <1>3, <1>4

\* What is left of a sequence without its head.
LEMMA TailProperties ==
    ASSUME NEW S, NEW s \in Seq(S), s # << >>
    PROVE  /\ Tail(s) \in Seq(S)
           /\ Len(s) # 1 => Tail(s) # << >>
<1>1. Tail(s) \in Seq(S) /\ Len(Tail(s)) = Len(s) - 1
    BY HeadTailProperties
<1>2. Len(<< >>) = 0
    BY EmptySeq
<1>3. Tail(s) = << >> => Len(Tail(s)) = 0
    BY <1>2, Zenon
<1>4. Len(s) \in Nat
    OBVIOUS
<1> QED
    BY <1>1, <1>3, <1>4

\* The ledger's arithmetic on holdings stays within the type.
LEMMA HoldingOps ==
    ASSUME NEW h \in Holding, NEW x \in Int
    PROVE  /\ Reserve(h, x) \in Holding
           /\ Release(h, x) \in Holding
           /\ Spend(h, x) \in Holding
           /\ Receive(h, x) \in Holding
    BY DEF Reserve, Release, Spend, Receive, AtLeastZero, Holding

\* The fields of a request.
LEMMA ValidOrdersFields ==
    ASSUME NEW req \in ValidOrders
    PROVE  /\ req.UserID \in Users /\ req.EventID \in Events /\ req.Outcome \in Outcomes
           /\ req.Side \in Sides /\ req.OrderType \in OrderTypes
           /\ req.Price \in Nat /\ req.Quantity \in Nat \ {0}
<1>1. req \in [UserID : Users, EventID : Events, Outcome : Outcomes, Side : Sides,
               OrderType : OrderTypes, Price : Prices \cup {0}, Quantity : Quantities]
    BY DEF ValidOrders
<1>2. req.Price \in Prices \cup {0} /\ req.Quantity \in Quantities
    BY <1>1
<1>3. req.Price \in Nat /\ req.Quantity \in Nat \ {0}
    <2>1. Prices \cup {0} \subseteq Nat
        BY AmountsAssumption
    <2>2. Quantities \subseteq Nat \ {0}
        BY AmountsAssumption
    <2>3. req.Price \in Nat
        BY <1>2, <2>1, Zenon
    <2>4. req.Quantity \in Nat \ {0}
        BY <1>2, <2>2, Zenon
    <2> QED
        BY <2>3, <2>4, Zenon
<1>4. /\ req.UserID \in Users /\ req.EventID \in Events /\ req.Outcome \in Outcomes
      /\ req.Side \in Sides /\ req.OrderType \in OrderTypes
    BY <1>1
<1> QED
    BY <1>3, <1>4

\* What is frozen for an order is an integer.
LEMMA ReserveAmountType ==
    ASSUME TypeOK, NEW req \in ValidOrders
    PROVE  ReserveAmount(NewOrder(req, 0)) \in Int
<1> DEFINE o == NewOrder(req, 0)
<1>1. /\ o.UserID \in Users /\ o.RemainingQuantity \in Nat /\ o.Price \in Nat
      /\ o.Side \in Sides
    BY ValidOrdersFields DEF NewOrder
<1>2. balance[o.UserID].Available \in Int
    BY <1>1 DEF TypeOK, Holding
<1>3. Int64(o.RemainingQuantity * o.Price) \in Int
    BY <1>1, Int64Type
<1> HIDE DEF o
<1> QED
    BY <1>1, <1>2, <1>3 DEF ReserveAmount, o

\* The record of a new order.
LEMMA NewOrderType ==
    ASSUME NEW req \in ValidOrders, NEW amount \in Int
    PROVE  /\ NewOrder(req, amount) \in Order
           /\ PositionKey(NewOrder(req, amount)) \in PositionKeys
    BY ValidOrdersFields
       DEF NewOrder, Order, Statuses, StatusPending, PositionKey, PositionKeys

\* An engine that newEngine has just built satisfies the invariant.
LEMMA InitOK == Init => IInv
<1> SUFFICES ASSUME Init PROVE IInv
    OBVIOUS
<1> USE DEF Init
<1>1. TypeOK
    BY AmountsAssumption DEF TypeOK, Phases, Zero, Holding
<1>2. WorkersOK
    BY NullsAssumption DEF WorkersOK, MutexOK, PublishOK, BusyOK, InFlightOK,
           OwnersUnique, InFlightPhases
<1>3. FillsAccounted /\ NothingLost
    BY DEF FillsAccounted, NothingLost
<1>4. \A k \in BookKeys : DOMAIN book[k] = {}
    BY EmptySeq
<1>5. RestingOK /\ NoDuplicates
    BY <1>4 DEF RestingOK, NoDuplicates, Ids, Distinct
<1> QED
    BY <1>1, <1>2, <1>3, <1>5 DEF IInv

-----------------------------------------------------------------------------
(* Steps that change neither orders nor books                              *)

\* handleCreateEvent keeps the invariant.
LEMMA CreateEventOK ==
    ASSUME IInv, NEW p \in Partitions, NEW e \in Events, CreateEvent(p, e)
    PROVE  IInv'
<1> USE DEF IInv, CreateEvent, ledgerVars, workerVars, historyVars
<1>1. TypeOK'
    BY DEF TypeOK
<1>2. WorkersOK'
    BY DEF WorkersOK, MutexOK, PublishOK, BusyOK, InFlightOK, OwnersUnique
<1>3. FillsAccounted' /\ RestingOK' /\ NoDuplicates' /\ NothingLost'
    BY Frame DEF InFlight
<1> QED
    BY <1>1, <1>2, <1>3

\* handleUserCreated keeps the invariant.
LEMMA UserCreatedOK ==
    ASSUME IInv, NEW p \in Partitions, NEW u \in Users, UserCreated(p, u)
    PROVE  IInv'
<1> USE DEF IInv, UserCreated, marketVars, workerVars
<1>1. TypeOK'
    <2>1. [Zero EXCEPT !.Available = StartingBalance] \in Holding
        BY AmountsAssumption DEF Zero, Holding
    <2>2. balance' \in [Users -> Holding]
        BY <2>1 DEF TypeOK
    <2> QED
        BY <2>2 DEF TypeOK
<1>2. WorkersOK'
    BY DEF WorkersOK, MutexOK, PublishOK, BusyOK, InFlightOK, OwnersUnique
<1>3. FillsAccounted' /\ RestingOK' /\ NoDuplicates' /\ NothingLost'
    BY Frame DEF InFlight
<1> QED
    BY <1>1, <1>2, <1>3

\* A refusal of handleCreateOrderCore keeps the invariant.
LEMMA RefuseOrderOK ==
    ASSUME IInv, NEW p \in Partitions, NEW x \in OrderIds, NEW req \in ValidOrders,
           RefuseOrder(p, x, req)
    PROVE  IInv'
<1> USE DEF IInv, RefuseOrder, marketVars, workerVars, historyVars
<1>1. TypeOK'
    BY DEF TypeOK, Touch, NewOrder, ValidOrders
<1>2. WorkersOK'
    BY DEF WorkersOK, MutexOK, PublishOK, BusyOK, InFlightOK, OwnersUnique
<1>3. FillsAccounted' /\ RestingOK' /\ NoDuplicates' /\ NothingLost'
    BY Frame DEF InFlight
<1> QED
    BY <1>1, <1>2, <1>3

\* The emit of ORDER_CREATED keeps the invariant.
LEMMA EmitCreatedOK ==
    ASSUME IInv, NEW p \in Partitions, EmitCreated(p)
    PROVE  IInv'
<1> USE DEF IInv, EmitCreated, Goto, marketVars, ledgerVars
<1>1. TypeOK'
    BY DEF TypeOK, Phases, WorkersOK, BusyOK
<1>2. WorkersOK'
    BY DEF WorkersOK, MutexOK, PublishOK, BusyOK, InFlightOK, OwnersUnique,
           TypeOK, InFlightPhases
<1>3. \A y \in OrderIds : InFlight(y)' <=> InFlight(y)
    BY DEF InFlight, TypeOK
<1>4. FillsAccounted' /\ RestingOK' /\ NoDuplicates' /\ NothingLost'
    BY <1>3, Frame
<1> QED
    BY <1>1, <1>2, <1>4

\* publishTrade keeps the invariant.
LEMMA PublishTradeOK ==
    ASSUME IInv, NEW p \in Partitions, PublishTrade(p)
    PROVE  IInv'
<1> USE DEF IInv, PublishTrade, Goto, marketVars, ledgerVars, historyVars
<1>0. /\ trades[p] \in Seq(Trade)
      /\ Tail(trades[p]) \in Seq(Trade)
      /\ Len(trades[p]) # 1 => Tail(trades[p]) # << >>
    BY TailProperties DEF TypeOK, WorkersOK, PublishOK
<1>1. TypeOK'
    <2>1. pc' \in [Partitions -> Phases] /\ cur' \in [Partitions -> OrderIds \cup {NoOrder}]
        BY DEF TypeOK, Phases
    <2>2. trades' \in [Partitions -> Seq(Trade)]
        BY <1>0 DEF TypeOK
    <2> QED
        BY <2>1, <2>2 DEF TypeOK
<1>2. WorkersOK'
    <2>1. MutexOK' /\ BusyOK'
        BY DEF WorkersOK, MutexOK, BusyOK, TypeOK
    <2>2. PublishOK'
        BY <1>0 DEF WorkersOK, PublishOK, TypeOK
    <2>3. InFlightOK' /\ OwnersUnique'
        <3>1. \A q \in Partitions : pc'[q] \in InFlightPhases =>
                 pc'[q] = pc[q] /\ cur'[q] = cur[q]
            BY DEF TypeOK, InFlightPhases
        <3>2. orders' = orders
            OBVIOUS
        <3> HIDE DEF PublishTrade
        <3> QED
            BY <3>1, <3>2 DEF WorkersOK, InFlightOK, OwnersUnique
    <2> QED
        BY <2>1, <2>2, <2>3 DEF WorkersOK, MutexOK, PublishOK, BusyOK, InFlightOK, OwnersUnique
<1>3. \A y \in OrderIds : InFlight(y)' <=> InFlight(y)
    BY DEF InFlight, TypeOK
<1>4. FillsAccounted' /\ RestingOK' /\ NoDuplicates' /\ NothingLost'
    BY <1>3, Frame
<1> QED
    BY <1>1, <1>2, <1>4

\* The emit of ORDER_CANCELED keeps the invariant.
LEMMA EmitCanceledOK ==
    ASSUME IInv, NEW p \in Partitions, EmitCanceled(p)
    PROVE  IInv'
<1> USE DEF IInv, EmitCanceled, Goto, marketVars, ledgerVars
<1>1. TypeOK'
    <2>1. CASE canceledOut' = canceledOut
        BY <2>1 DEF TypeOK, Phases
    <2>2. CASE canceledOut' # canceledOut
        BY <2>2 DEF TypeOK, Phases, WorkersOK, BusyOK
    <2> QED
        BY <2>1, <2>2
<1>2. WorkersOK'
    BY DEF WorkersOK, MutexOK, PublishOK, BusyOK, InFlightOK, OwnersUnique,
           TypeOK, InFlightPhases
<1>3. \A y \in OrderIds : InFlight(y)' <=> InFlight(y)
    BY DEF InFlight, TypeOK
<1>4. FillsAccounted' /\ RestingOK' /\ NoDuplicates' /\ NothingLost'
    BY <1>3, Frame
<1> QED
    BY <1>1, <1>2, <1>4

-----------------------------------------------------------------------------
(* Accepting an order                                                      *)

\* handleCreateOrderCore keeps the invariant: the new id is nowhere in use.
LEMMA AcceptOrderOK ==
    ASSUME IInv, NEW p \in Partitions, NEW x \in OrderIds, NEW req \in ValidOrders,
           AcceptOrder(p, x, req)
    PROVE  IInv'
<1> DEFINE o == NewOrder(req, 0)
           amount == ReserveAmount(o)
           new == NewOrder(req, amount)
<1>1. /\ amount \in Int
      /\ new \in Order
      /\ o \in Order
      /\ PositionKey(o) \in PositionKeys
    BY ReserveAmountType, NewOrderType DEF IInv
<1>2. /\ new.Status = StatusPending
      /\ new.FilledQuantity = 0
      /\ new.RemainingQuantity = new.Quantity
      /\ new.Quantity \in Nat \ {0}
    BY ValidOrdersFields DEF NewOrder
<1>3. /\ pc[p] = "idle" /\ mu = Free
      /\ x \notin DOMAIN orders
      /\ orders' = Store(x, new)
      /\ pc' = [pc EXCEPT ![p] = "announce"]
      /\ cur' = [cur EXCEPT ![p] = x]
      /\ UNCHANGED <<mu, markets, book, trades, welcomed, createdOut, canceledOut>>
    BY DEF AcceptOrder, Submitted, Idle, Goto, historyVars
<1>4. /\ DOMAIN orders' = DOMAIN orders \cup {x}
      /\ orders'[x] = new
      /\ \A y \in DOMAIN orders : orders'[y] = orders[y]
    BY <1>3 DEF Store
<1>5. /\ accounts' \subseteq Users
      /\ balance' \in [Users -> Holding]
      /\ position' \in [PositionKeys -> Holding]
    <2>1. accounts' \subseteq Users
        BY <1>1 DEF AcceptOrder, Touch, IInv, TypeOK, Order
    <2>2. CASE o.Side = SideBuy
        <3>1. balance' = [balance EXCEPT ![o.UserID] = Reserve(@, amount)]
            BY <2>2 DEF AcceptOrder
        <3>2. o.UserID \in Users
            BY <1>1 DEF Order
        <3>3. Reserve(balance[o.UserID], amount) \in Holding
            BY <1>1, <3>2, HoldingOps DEF IInv, TypeOK
        <3> QED
            BY <2>1, <2>2, <3>1, <3>2, <3>3 DEF AcceptOrder, IInv, TypeOK
    <2>3. CASE o.Side # SideBuy
        <3>1. position' = [position EXCEPT ![PositionKey(o)] = Reserve(@, amount)]
            BY <2>3 DEF AcceptOrder
        <3>2. Reserve(position[PositionKey(o)], amount) \in Holding
            BY <1>1, HoldingOps DEF IInv, TypeOK
        <3> QED
            BY <1>1, <2>1, <2>3, <3>1, <3>2 DEF AcceptOrder, IInv, TypeOK
    <2> QED
        BY <2>2, <2>3
<1> HIDE DEF o, amount, new
<1> USE DEF IInv
<1>6. TypeOK'
    <2>1. orders' \in [DOMAIN orders' -> Order] /\ DOMAIN orders' \subseteq OrderIds
        <3>1. orders' = [y \in DOMAIN orders' |-> orders'[y]]
            BY <1>3, <1>4 DEF Store
        <3>2. \A y \in DOMAIN orders' : orders'[y] \in Order
            BY <1>1, <1>4 DEF TypeOK
        <3> QED
            BY <1>4, <3>1, <3>2 DEF TypeOK
    <2>2. pc' \in [Partitions -> Phases] /\ cur' \in [Partitions -> OrderIds \cup {NoOrder}]
        BY <1>3 DEF TypeOK, Phases
    <2> QED
        BY <1>3, <1>5, <2>1, <2>2 DEF TypeOK
<1>7. \A q \in Partitions : pc[q] \in InFlightPhases => cur[q] # x
    BY <1>3 DEF WorkersOK, InFlightOK
<1>8. WorkersOK'
    <2>1. MutexOK' /\ PublishOK' /\ BusyOK'
        BY <1>3 DEF WorkersOK, MutexOK, PublishOK, BusyOK, TypeOK
    <2>2. InFlightOK'
        BY <1>2, <1>3, <1>4 DEF WorkersOK, InFlightOK, TypeOK, InFlightPhases
    <2>3. OwnersUnique'
        BY <1>3, <1>7 DEF WorkersOK, OwnersUnique, TypeOK
    <2> QED
        BY <2>1, <2>2, <2>3 DEF WorkersOK
<1>9. \A y \in OrderIds : InFlight(y)' <=> InFlight(y) \/ y = x
    BY <1>3 DEF InFlight, TypeOK
<1>10. FillsAccounted'
    <2>1. FillsAccounted /\ DOMAIN orders \subseteq OrderIds
        BY DEF TypeOK
    <2>2. SUFFICES ASSUME NEW y \in DOMAIN orders'
                   PROVE  FillsAccounted!(y)'
        BY DEF FillsAccounted
    <2>3. CASE y = x
        BY <1>2, <1>4, <2>3, <1>9 DEF StatusPending, StatusFilled, StatusPartial
    <2>4. CASE y # x
        BY <1>4, <1>9, <2>1, <2>4 DEF FillsAccounted
    <2> QED
        BY <2>3, <2>4
<1>11. RestingOK'
    BY <1>3, <1>4, <1>9 DEF RestingOK, TypeOK, Open, BookKey
<1>12. NoDuplicates'
    BY <1>3 DEF NoDuplicates
<1>13. NothingLost'
    BY <1>3, <1>4, <1>9 DEF NothingLost, TypeOK, Open, BookKey
<1> QED
    BY <1>6, <1>8, <1>10, <1>11, <1>12, <1>13

\* An order in flight is on no side of any book, and is in flight once.
LEMMA InFlightProperties ==
    ASSUME IInv, NEW p \in Partitions, pc[p] \in InFlightPhases
    PROVE  /\ InFlight(cur[p])
           /\ cur[p] \in DOMAIN orders
           /\ cur[p] \in OrderIds
           /\ \A k \in BookKeys : cur[p] \notin Ids(book[k])
           /\ \A q \in Partitions :
                 pc[q] \in InFlightPhases /\ cur[q] = cur[p] => q = p
<1>1. InFlight(cur[p])
    BY DEF InFlight, InFlightPhases
<1> QED
    BY <1>1 DEF IInv, WorkersOK, InFlightOK, OwnersUnique, RestingOK, TypeOK

\* The undo of handleCreateOrderCore keeps the invariant: nothing refers to the
\* order it deletes.
LEMMA EmitCreatedFailsOK ==
    ASSUME IInv, NEW p \in Partitions, EmitCreatedFails(p)
    PROVE  IInv'
<1> DEFINE x == cur[p]
<1>1. /\ pc[p] = "announce" /\ mu = Free
      /\ orders' = Without(x)
      /\ pc' = [pc EXCEPT ![p] = "idle"]
      /\ cur' = [cur EXCEPT ![p] = NoOrder]
      /\ createdOut' \in {createdOut, createdOut \cup {x}}
      /\ UNCHANGED <<mu, markets, book, accounts, balance, position, trades,
                     welcomed, canceledOut>>
    BY DEF EmitCreatedFails, Goto, ledgerVars
<1>2. /\ DOMAIN orders' = DOMAIN orders \ {x}
      /\ \A y \in DOMAIN orders' : orders'[y] = orders[y]
    BY <1>1 DEF Without
<1>3. /\ x \in OrderIds
      /\ \A k \in BookKeys : x \notin Ids(book[k])
      /\ \A q \in Partitions : pc[q] \in InFlightPhases /\ cur[q] = x => q = p
    BY <1>1, InFlightProperties DEF InFlightPhases
<1>4. orders' = [y \in DOMAIN orders' |-> orders'[y]]
    BY <1>1, <1>2 DEF Without
<1> HIDE DEF x
<1> USE DEF IInv
<1>5. TypeOK'
    <2>1. orders' \in [DOMAIN orders' -> Order] /\ DOMAIN orders' \subseteq OrderIds
        BY <1>2, <1>4 DEF TypeOK
    <2>2. pc' \in [Partitions -> Phases] /\ cur' \in [Partitions -> OrderIds \cup {NoOrder}]
        BY <1>1 DEF TypeOK, Phases
    <2>3. createdOut' \subseteq OrderIds
        BY <1>1, <1>3 DEF TypeOK
    <2> QED
        BY <1>1, <2>1, <2>2, <2>3 DEF TypeOK
<1>6. WorkersOK'
    <2>1. MutexOK' /\ PublishOK' /\ BusyOK'
        BY <1>1 DEF WorkersOK, MutexOK, PublishOK, BusyOK, TypeOK
    <2>2. InFlightOK' /\ OwnersUnique'
        <3>1. \A q \in Partitions : pc'[q] \in InFlightPhases =>
                 q # p /\ pc'[q] = pc[q] /\ cur'[q] = cur[q]
            BY <1>1 DEF TypeOK, InFlightPhases
        <3> QED
            BY <1>2, <1>3, <3>1 DEF WorkersOK, InFlightOK, OwnersUnique
    <2> QED
        BY <2>1, <2>2 DEF WorkersOK
<1>7. \A y \in OrderIds : y # x => (InFlight(y)' <=> InFlight(y))
    <2>1. cur[p] = x
        BY DEF x
    <2> QED
        BY <1>1, <2>1 DEF InFlight, TypeOK
<1>8. DOMAIN orders \subseteq OrderIds
    BY DEF TypeOK
<1>9. FillsAccounted'
    BY <1>2, <1>7, <1>8 DEF FillsAccounted
<1>10. RestingOK'
    BY <1>1, <1>2, <1>3, <1>7, <1>8 DEF RestingOK, Open, BookKey
<1>11. NoDuplicates'
    BY <1>1 DEF NoDuplicates
<1>12. NothingLost'
    BY <1>1, <1>2, <1>7, <1>8 DEF NothingLost, Open, BookKey
<1> QED
    BY <1>5, <1>6, <1>9, <1>10, <1>11, <1>12

-----------------------------------------------------------------------------
(* Matching                                                                *)

\* matchOrder's first steps keep the invariant.
LEMMA BeginMatchOK ==
    ASSUME IInv, NEW p \in Partitions, BeginMatch(p)
    PROVE  IInv'
<1> DEFINE x == cur[p]
<1>1. /\ pc[p] = "match" /\ mu = Free
      /\ UNCHANGED <<markets, book, orders, accounts, balance, position, trades,
                     welcomed, createdOut, canceledOut>>
    BY DEF BeginMatch, ledgerVars, historyVars
<1>2. /\ x \in OrderIds /\ x \in DOMAIN orders /\ InFlight(x)
      /\ orders[x].Status \in {StatusPending, StatusCanceled}
      /\ orders[x].FilledQuantity = 0
    BY <1>1, InFlightProperties DEF InFlightPhases, IInv, WorkersOK, InFlightOK
<1>3. CASE orders[x].Status = StatusCanceled
    <2>1. /\ pc' = [pc EXCEPT ![p] = "idle"]
          /\ cur' = [cur EXCEPT ![p] = NoOrder]
          /\ mu' = mu
        BY <1>3 DEF BeginMatch, Goto
    <2>2. cur[p] = x
        OBVIOUS
    <2> HIDE DEF x
    <2> USE DEF IInv
    <2>3. TypeOK'
        BY <1>1, <2>1 DEF TypeOK, Phases
    <2>4. \A q \in Partitions : pc'[q] \in InFlightPhases =>
             pc'[q] = pc[q] /\ cur'[q] = cur[q]
        BY <2>1 DEF TypeOK, InFlightPhases
    <2>5. MutexOK' /\ PublishOK' /\ BusyOK'
        BY <1>1, <2>1 DEF WorkersOK, MutexOK, PublishOK, BusyOK, TypeOK
    <2>6. InFlightOK' /\ OwnersUnique'
        BY <1>1, <2>4 DEF WorkersOK, InFlightOK, OwnersUnique
    <2>7. \A y \in OrderIds : y # x => (InFlight(y)' <=> InFlight(y))
        BY <1>1, <2>1, <2>2 DEF InFlight, TypeOK
    <2>8. ~Open(orders[x]) /\ orders[x].RemainingQuantity # 0
        <3>1. orders[x].RemainingQuantity = orders[x].Quantity
            BY <1>2 DEF FillsAccounted, TypeOK, Order
        <3>2. orders[x].Quantity # 0
            BY <1>2 DEF TypeOK, Order
        <3> QED
            BY <1>3, <3>1, <3>2
               DEF Open, StatusCanceled, StatusPending, StatusPartial
    <2>9. DOMAIN orders \subseteq OrderIds
        BY DEF TypeOK
    <2>10. FillsAccounted'
        BY <1>1, <2>7, <2>8, <2>9 DEF FillsAccounted
    <2>11. RestingOK'
        BY <1>1, <1>2, <2>7, <2>9 DEF RestingOK, Open, BookKey
    <2>12. NoDuplicates'
        BY <1>1 DEF NoDuplicates
    <2>13. NothingLost'
        <3> SUFFICES ASSUME NEW y \in DOMAIN orders, Open(orders[y]), ~InFlight(y)'
                     PROVE  y \in Ids(book[BookKey(orders[y])])
            BY <1>1 DEF NothingLost, Open, BookKey
        <3>1. y # x
            BY <2>8
        <3> QED
            BY <2>7, <2>9, <3>1 DEF NothingLost
    <2> QED
        BY <2>3, <2>5, <2>6, <2>10, <2>11, <2>12, <2>13 DEF WorkersOK
<1>4. CASE orders[x].Status # StatusCanceled
    <2>1. /\ pc' = [pc EXCEPT ![p] = "matching"]
          /\ cur' = [cur EXCEPT ![p] = x]
          /\ mu' = p
        BY <1>4 DEF BeginMatch, Goto
    <2>2. orders[x].Status = StatusPending
        BY <1>2, <1>4
    <2> USE DEF IInv
    <2>3. TypeOK'
        BY <1>1, <1>2, <2>1 DEF TypeOK, Phases
    <2>4. \A q \in Partitions :
             /\ cur'[q] = cur[q]
             /\ q # p => pc'[q] = pc[q]
        BY <2>1 DEF TypeOK
    <2>5. pc'[p] = "matching"
        BY <2>1 DEF TypeOK
    <2>6. MutexOK' /\ PublishOK' /\ BusyOK'
        BY <1>1, <2>1, <2>4, <2>5, NullsAssumption
           DEF WorkersOK, MutexOK, PublishOK, BusyOK
    <2>7. InFlightOK'
        BY <1>1, <1>2, <2>2, <2>4, <2>5 DEF WorkersOK, InFlightOK
    <2>8. OwnersUnique'
        BY <1>1, <2>4, <2>5 DEF WorkersOK, OwnersUnique, InFlightPhases
    <2>9. \A y \in OrderIds : InFlight(y)' <=> InFlight(y)
        BY <1>1, <2>4, <2>5 DEF InFlight
    <2>10. FillsAccounted' /\ RestingOK' /\ NoDuplicates' /\ NothingLost'
        BY <1>1, <2>9, Frame
    <2> QED
        BY <2>3, <2>6, <2>7, <2>8, <2>10 DEF WorkersOK
<1> QED
    BY <1>3, <1>4
-----------------------------------------------------------------------------
(* Cancellation                                                            *)

\* The keys of an order are keys of the books and of the positions.
LEMMA KeysOK ==
    ASSUME NEW o \in Order
    PROVE  /\ BookKey(o) \in BookKeys
           /\ OppositeKey(o) \in BookKeys
           /\ BookKey(o) # OppositeKey(o)
           /\ PositionKey(o) \in PositionKeys
    BY DEF BookKey, OppositeKey, Opposite, PositionKey, BookKeys, PositionKeys,
           Order, Sides, SideBuy, SideSell

\* releaseOrderLocked keeps balances and positions typed.
LEMMA ReleaseOrderType ==
    ASSUME TypeOK, NEW o \in Order, ReleaseOrder(o) \/ UNCHANGED <<balance, position>>
    PROVE  balance' \in [Users -> Holding] /\ position' \in [PositionKeys -> Holding]
<1>1. o.UserID \in Users /\ o.LockedFunds \in Int /\ PositionKey(o) \in PositionKeys
    BY KeysOK DEF Order
<1>2. /\ Release(balance[o.UserID], o.LockedFunds) \in Holding
      /\ Release(position[PositionKey(o)], o.LockedFunds) \in Holding
    BY <1>1, HoldingOps DEF TypeOK
<1>3. CASE UNCHANGED <<balance, position>>
    BY <1>3 DEF TypeOK
<1>4. CASE ReleaseOrder(o)
    BY <1>1, <1>2, <1>4 DEF TypeOK, ReleaseOrder
<1> QED
    BY <1>3, <1>4

\* handleCancelOrderP keeps the invariant, also for an order in flight.
LEMMA CancelOrderOK ==
    ASSUME IInv, NEW p \in Partitions, NEW x \in OrderIds, CancelOrder(p, x)
    PROVE  IInv'
<1> DEFINE o == orders[x]
           k == BookKey(o)
<1>1. /\ pc[p] = "idle" /\ mu = Free /\ x \in DOMAIN orders /\ Open(o)
      /\ book' = [book EXCEPT ![k] = RemoveOrder(@, x)]
      /\ orders' = [orders EXCEPT ![x].Status = StatusCanceled,
                                  ![x].LockedFunds = IF @ > 0 THEN 0 ELSE @]
      /\ pc' = [pc EXCEPT ![p] = "cancelEmit"]
      /\ cur' = [cur EXCEPT ![p] = x]
      /\ UNCHANGED <<mu, markets, accounts, trades, welcomed, createdOut, canceledOut>>
    BY DEF CancelOrder, Idle, Goto, historyVars
<1>2. ReleaseOrder(o) \/ UNCHANGED <<balance, position>>
    BY DEF CancelOrder
<1>3. o \in Order /\ k \in BookKeys
    BY <1>1, KeysOK DEF IInv, TypeOK
<1>4. balance' \in [Users -> Holding] /\ position' \in [PositionKeys -> Holding]
    BY <1>2, <1>3, ReleaseOrderType DEF IInv
<1>5. /\ DOMAIN orders' = DOMAIN orders
      /\ \A y \in DOMAIN orders : y # x => orders'[y] = orders[y]
      /\ orders'[x] \in Order
      /\ orders'[x].Status = StatusCanceled
      /\ orders'[x].FilledQuantity = o.FilledQuantity
      /\ orders'[x].RemainingQuantity = o.RemainingQuantity
      /\ orders'[x].Quantity = o.Quantity
    <2> DEFINE locked == IF o.LockedFunds > 0 THEN 0 ELSE o.LockedFunds
    <2>1. orders'[x] = [o EXCEPT !.Status = StatusCanceled, !.LockedFunds = locked]
        BY <1>1, <1>3 DEF IInv, TypeOK, Order
    <2>2. DOMAIN orders' = DOMAIN orders
        BY <1>1
    <2>3. \A y \in DOMAIN orders : y # x => orders'[y] = orders[y]
        BY <1>1
    <2>4. locked \in Int /\ StatusCanceled \in Statuses
        BY <1>3 DEF Order, Statuses
    <2> HIDE DEF o, locked
    <2> QED
        BY <1>3, <2>1, <2>2, <2>3, <2>4 DEF Order
<1>6. orders' = [y \in DOMAIN orders' |-> orders'[y]]
    BY <1>1 DEF IInv, TypeOK
<1>7. /\ book'[k] \in Seq(OrderIds) /\ Distinct(book'[k])
      /\ Ids(book'[k]) = Ids(book[k]) \ {x}
    BY <1>1, <1>3, RemoveOrderIds DEF IInv, TypeOK, NoDuplicates
<1>8. \A j \in BookKeys : j # k => book'[j] = book[j]
    BY <1>1 DEF IInv, TypeOK
<1>9. \A j \in BookKeys : x \in Ids(book[j]) => j = k
    BY DEF IInv, RestingOK
<1>10. book' = [j \in BookKeys |-> book'[j]]
    BY <1>1 DEF IInv, TypeOK
<1>11. FillsAccounted!(x)
    BY <1>1 DEF IInv, FillsAccounted
<1>12. \A y \in DOMAIN orders : y # x => BookKey(orders'[y]) = BookKey(orders[y])
    BY <1>5
<1> HIDE DEF o, k
<1> USE DEF IInv
<1>13. TypeOK'
    <2>1. orders' \in [DOMAIN orders' -> Order] /\ DOMAIN orders' \subseteq OrderIds
        BY <1>5, <1>6 DEF TypeOK
    <2>2. book' \in [BookKeys -> Seq(OrderIds)]
        BY <1>7, <1>8, <1>10 DEF TypeOK
    <2>3. pc' \in [Partitions -> Phases] /\ cur' \in [Partitions -> OrderIds \cup {NoOrder}]
        BY <1>1 DEF TypeOK, Phases
    <2> QED
        BY <1>1, <1>4, <2>1, <2>2, <2>3 DEF TypeOK
<1>14. \A q \in Partitions : pc'[q] \in InFlightPhases =>
          pc'[q] = pc[q] /\ cur'[q] = cur[q]
    BY <1>1 DEF TypeOK, InFlightPhases
<1>15. \A q \in Partitions : pc[q] # "matching"
    BY <1>1, NullsAssumption DEF WorkersOK, MutexOK
<1>16. WorkersOK'
    <2>1. MutexOK' /\ PublishOK' /\ BusyOK'
        BY <1>1, <1>15, NullsAssumption
           DEF WorkersOK, MutexOK, PublishOK, BusyOK, TypeOK
    <2>2. InFlightOK'
        BY <1>5, <1>14, <1>15 DEF WorkersOK, InFlightOK, o
    <2>3. OwnersUnique'
        BY <1>14 DEF WorkersOK, OwnersUnique
    <2> QED
        BY <2>1, <2>2, <2>3 DEF WorkersOK
<1>17. \A y \in OrderIds : InFlight(y)' <=> InFlight(y)
    BY <1>1 DEF InFlight, TypeOK
<1>18. DOMAIN orders \subseteq OrderIds
    BY DEF TypeOK
<1>19. FillsAccounted'
    <2> SUFFICES ASSUME NEW y \in DOMAIN orders'
                 PROVE  FillsAccounted!(y)'
        BY DEF FillsAccounted
    <2>1. CASE y = x
        <3>1. o.Status # StatusFilled
            BY <1>1 DEF Open, StatusPending, StatusPartial, StatusFilled
        <3> QED
            BY <1>5, <1>11, <1>17, <2>1, <3>1
               DEF StatusCanceled, StatusFilled, StatusPartial, o
    <2>2. CASE y # x
        BY <1>5, <1>17, <1>18, <2>2 DEF FillsAccounted
    <2> QED
        BY <2>1, <2>2
<1>20. RestingOK'
    <2> SUFFICES ASSUME NEW j \in BookKeys, NEW y \in Ids(book'[j])
                 PROVE  RestingOK!(j)!(y)'
        BY DEF RestingOK
    <2>1. y # x /\ y \in Ids(book[j])
        BY <1>7, <1>8, <1>9
    <2>2. RestingOK!(j)!(y)
        BY <2>1 DEF RestingOK
    <2> QED
        BY <1>5, <1>12, <1>17, <1>18, <2>1, <2>2
<1>21. NoDuplicates'
    BY <1>7, <1>8 DEF NoDuplicates
<1>22. NothingLost'
    <2> SUFFICES ASSUME NEW y \in DOMAIN orders', Open(orders'[y]), ~InFlight(y)'
                 PROVE  y \in Ids(book'[BookKey(orders'[y])])
        BY DEF NothingLost
    <2>1. y # x
        BY <1>5 DEF Open, StatusCanceled, StatusPending, StatusPartial
    <2>2. y \in Ids(book[BookKey(orders[y])]) /\ BookKey(orders[y]) \in BookKeys
        BY <1>5, <1>17, <1>18, <2>1, KeysOK DEF NothingLost, TypeOK
    <2> QED
        BY <1>5, <1>7, <1>8, <1>12, <2>1, <2>2
<1> QED
    BY <1>13, <1>16, <1>19, <1>20, <1>21, <1>22
-----------------------------------------------------------------------------
(* The matching loop                                                       *)

\* While an order is matched, the side it matches against is clean already:
\* removeInvalidBids and removeInvalidAsks find nothing to remove.
LEMMA OpponentsIsBook ==
    ASSUME IInv, NEW p \in Partitions, pc[p] = "matching"
    PROVE  /\ orders[cur[p]] \in Order
           /\ OppositeKey(orders[cur[p]]) \in BookKeys
           /\ Opponents(p) = book[OppositeKey(orders[cur[p]])]
<1> DEFINE k == OppositeKey(orders[cur[p]])
<1>1. orders[cur[p]] \in Order
    BY DEF IInv, TypeOK, WorkersOK, InFlightOK, InFlightPhases
<1>2. k \in BookKeys
    BY <1>1, KeysOK
<1>3. book[k] \in Seq(OrderIds)
    BY <1>2 DEF IInv, TypeOK
<1>4. ASSUME NEW i \in DOMAIN book[k]
      PROVE  ~Dead(orders[book[k][i]])
    <2>1. book[k][i] \in Ids(book[k])
        BY DEF Ids
    <2>2. /\ Open(orders[book[k][i]])
          /\ orders[book[k][i]].RemainingQuantity > 0
          /\ orders[book[k][i]].RemainingQuantity \in Nat
        BY <1>2, <2>1 DEF IInv, RestingOK, TypeOK, Order
    <2> QED
        BY <2>2 DEF Dead, Open, StatusPending, StatusPartial, StatusFilled, StatusCanceled
<1> HIDE DEF k
<1>5. RemoveInvalid(orders, book[k]) = book[k]
    BY <1>3, <1>4, RemoveInvalidKeeps
<1> QED
    BY <1>1, <1>2, <1>5 DEF Opponents, k

\* A fill of at most what remains keeps an order well formed.
LEMMA FillProperties ==
    ASSUME NEW o \in Order, NEW q \in Nat \ {0}, q <= o.RemainingQuantity, NEW cost \in Int
    PROVE  /\ Fill(o, q, cost) \in Order
           /\ Fill(o, q, cost).RemainingQuantity = o.RemainingQuantity - q
           /\ Fill(o, q, cost).FilledQuantity = o.FilledQuantity + q
           /\ Fill(o, q, cost).Quantity = o.Quantity
           /\ Fill(o, q, cost).Status = o.Status
           /\ Fill(o, q, cost).OrderType = o.OrderType
           /\ BookKey(Fill(o, q, cost)) = BookKey(o)
<1> DEFINE locked == AtLeastZero(o.LockedFunds - IF o.Side = SideBuy THEN cost ELSE q)
<1>1. locked \in Int
    BY DEF AtLeastZero, Order
<1>2. Fill(o, q, cost) = [o EXCEPT !.RemainingQuantity = o.RemainingQuantity - q,
                                   !.FilledQuantity = o.FilledQuantity + q,
                                   !.LockedFunds = locked]
    BY DEF Fill, Order
<1>3. o.RemainingQuantity - q \in Nat /\ o.FilledQuantity + q \in Nat
    BY DEF Order
<1> HIDE DEF locked
<1> QED
    BY <1>1, <1>2, <1>3 DEF Order, BookKey

\* And so does a fill of a resting order, which sets its status as well.
LEMMA FillRestingProperties ==
    ASSUME NEW o \in Order, NEW q \in Nat \ {0}, q <= o.RemainingQuantity, NEW cost \in Int
    PROVE  /\ FillResting(o, q, cost) \in Order
           /\ FillResting(o, q, cost).RemainingQuantity = o.RemainingQuantity - q
           /\ FillResting(o, q, cost).FilledQuantity = o.FilledQuantity + q
           /\ FillResting(o, q, cost).Quantity = o.Quantity
           /\ FillResting(o, q, cost).Status =
                 IF o.RemainingQuantity = q THEN StatusFilled ELSE StatusPartial
           /\ FillResting(o, q, cost).OrderType = o.OrderType
           /\ BookKey(FillResting(o, q, cost)) = BookKey(o)
<1> DEFINE f == Fill(o, q, cost)
           status == IF o.RemainingQuantity = q THEN StatusFilled ELSE StatusPartial
<1>1. /\ f \in Order
      /\ f.RemainingQuantity = o.RemainingQuantity - q
      /\ f.FilledQuantity = o.FilledQuantity + q
      /\ f.Quantity = o.Quantity
      /\ f.OrderType = o.OrderType
      /\ BookKey(f) = BookKey(o)
    BY FillProperties
<1>2. FillResting(o, q, cost) = [f EXCEPT !.Status = status]
    BY DEF FillResting
<1>3. status \in Statuses
    BY DEF Statuses
<1> HIDE DEF f
<1> QED
    BY <1>1, <1>2, <1>3 DEF Order, BookKey

\* settleTradeLocked keeps the ledger typed.
LEMMA SettleTradeType ==
    ASSUME TypeOK, NEW t \in Trade, SettleTrade(t)
    PROVE  /\ accounts' \subseteq Users
           /\ balance' \in [Users -> Holding]
           /\ position' \in [PositionKeys -> Holding]
<1> DEFINE cost == Int64(t.Quantity * t.Price)
           b == <<t.BuyerID, t.EventID, t.Outcome>>
           s == <<t.SellerID, t.EventID, t.Outcome>>
<1>1. /\ t.BuyerID \in Users /\ t.SellerID \in Users
      /\ b \in PositionKeys /\ s \in PositionKeys
      /\ t.Quantity \in Nat /\ t.Price \in Nat
    BY DEF Trade, PositionKeys
<1>2. cost \in Int
    BY <1>1, Int64Type
<1>3. accounts' \subseteq Users
    BY <1>1 DEF SettleTrade, TypeOK
<1>4. /\ balance' = [balance EXCEPT ![t.BuyerID] = Spend(@, cost),
                                    ![t.SellerID] = Receive(@, cost)]
      /\ position' = [position EXCEPT ![b] = Receive(@, t.Quantity),
                                      ![s] = Spend(@, t.Quantity)]
    BY DEF SettleTrade
<1> HIDE DEF cost, b, s
<1>5. balance' \in [Users -> Holding]
    <2>1. \A h \in Holding : Spend(h, cost) \in Holding /\ Receive(h, cost) \in Holding
        BY <1>2, HoldingOps
    <2> QED
        BY <1>1, <1>4, <2>1 DEF TypeOK
<1>6. position' \in [PositionKeys -> Holding]
    <2>1. \A h \in Holding :
             Spend(h, t.Quantity) \in Holding /\ Receive(h, t.Quantity) \in Holding
        <3>1. t.Quantity \in Int
            BY <1>1
        <3> QED
            BY <3>1, HoldingOps
    <2> QED
        BY <1>1, <1>4, <2>1 DEF TypeOK
<1> QED
    BY <1>3, <1>5, <1>6

\* An iteration of matchAgainstBook keeps the invariant.
LEMMA MatchPairOK ==
    ASSUME IInv, NEW p \in Partitions, MatchPair(p)
    PROVE  IInv'
<1> DEFINE x == cur[p]
           k == OppositeKey(orders[x])
           s == book[k]
<1>1. /\ pc[p] = "matching" /\ orders[x].RemainingQuantity > 0
      /\ UNCHANGED <<mu, markets, pc, cur, welcomed, createdOut, canceledOut>>
    BY DEF MatchPair, historyVars
<1>2. orders[x] \in Order /\ k \in BookKeys /\ Opponents(p) = s
    BY <1>1, OpponentsIsBook
<1>3. PICK i \in DOMAIN s :
         FindCounterparty(orders, s, orders[x], i) /\ ExecutePair(p, i)
    BY <1>2 DEF MatchPair
<1> DEFINE y == s[i]
           q == Min2(orders[x].RemainingQuantity, orders[y].RemainingQuantity)
           t == BuildTrade(x, y, q)
           cost == Int64(q * orders[y].Price)
<1>4. /\ trades' = [trades EXCEPT ![p] = Append(@, t)]
      /\ orders' = [orders EXCEPT ![x] = Fill(@, q, cost), ![y] = FillResting(@, q, cost)]
      /\ book' = [book EXCEPT ![k] =
                    IF orders[y].RemainingQuantity = q THEN RemoveIndex(s, i) ELSE s]
      /\ SettleTrade(t)
    BY <1>2, <1>3 DEF ExecutePair
<1>5. /\ x \in OrderIds /\ x \in DOMAIN orders /\ InFlight(x)
      /\ \A j \in BookKeys : x \notin Ids(book[j])
      /\ orders[x].Status = StatusPending
    BY <1>1, InFlightProperties DEF InFlightPhases, IInv, WorkersOK, InFlightOK
<1>6. /\ s \in Seq(OrderIds) /\ Distinct(s)
      /\ y \in Ids(s) /\ y \in OrderIds /\ y \in DOMAIN orders
      /\ y # x /\ orders[y] \in Order
      /\ Open(orders[y]) /\ orders[y].RemainingQuantity > 0
      /\ orders[y].OrderType = OrderTypeLimit
      /\ BookKey(orders[y]) = k /\ ~InFlight(y)
    <2>1. s \in Seq(OrderIds) /\ Distinct(s)
        BY <1>2 DEF IInv, TypeOK, NoDuplicates
    <2>2. y \in Ids(s)
        BY DEF Ids
    <2>3. RestingOK!(k)!(y)
        BY <1>2, <2>2 DEF IInv, RestingOK
    <2>4. y \in DOMAIN orders => y \in OrderIds /\ orders[y] \in Order
        BY DEF IInv, TypeOK
    <2>5. y # x
        BY <1>2, <1>5, <2>2
    <2> QED
        BY <2>1, <2>2, <2>3, <2>4, <2>5
<1> HIDE DEF y
<1>7. /\ q \in Nat \ {0}
      /\ q <= orders[x].RemainingQuantity /\ q <= orders[y].RemainingQuantity
    <2>1. orders[x].RemainingQuantity \in Nat \ {0} /\ orders[y].RemainingQuantity \in Nat \ {0}
        BY <1>1, <1>2, <1>6 DEF Order
    <2> QED
        BY <2>1 DEF Min2
<1>8. cost \in Int
    BY <1>6, <1>7, Int64Type DEF Order
<1>9. t \in Trade
    BY <1>2, <1>5, <1>6, <1>7 DEF BuildTrade, Trade, Order
<1> DEFINE fx == Fill(orders[x], q, cost)
           fy == FillResting(orders[y], q, cost)
<1> HIDE DEF q, t, cost
<1>10. /\ fx \in Order
       /\ fx.RemainingQuantity = orders[x].RemainingQuantity - q
       /\ fx.FilledQuantity = orders[x].FilledQuantity + q
       /\ fx.Quantity = orders[x].Quantity
       /\ fx.Status = StatusPending
    BY <1>2, <1>5, <1>7, <1>8, FillProperties
<1>11. /\ fy \in Order
       /\ fy.RemainingQuantity = orders[y].RemainingQuantity - q
       /\ fy.FilledQuantity = orders[y].FilledQuantity + q
       /\ fy.Quantity = orders[y].Quantity
       /\ fy.Status = IF orders[y].RemainingQuantity = q THEN StatusFilled ELSE StatusPartial
       /\ fy.OrderType = OrderTypeLimit
       /\ BookKey(fy) = k
    BY <1>6, <1>7, <1>8, FillRestingProperties
<1> HIDE DEF fx, fy
<1>12. /\ DOMAIN orders' = DOMAIN orders
       /\ orders'[x] = fx /\ orders'[y] = fy
       /\ \A z \in DOMAIN orders : z # x /\ z # y => orders'[z] = orders[z]
       /\ orders' = [z \in DOMAIN orders |-> orders'[z]]
    BY <1>4, <1>5, <1>6 DEF fx, fy
<1>13. /\ book'[k] \in Seq(OrderIds) /\ Distinct(book'[k])
       /\ orders[y].RemainingQuantity = q => Ids(book'[k]) = Ids(s) \ {y}
       /\ orders[y].RemainingQuantity # q => Ids(book'[k]) = Ids(s)
    <2>1. i \in 1 .. Len(s) /\ y = s[i]
        BY <1>6 DEF y
    <2>2. /\ RemoveIndex(s, i) \in Seq(OrderIds)
          /\ Ids(RemoveIndex(s, i)) = Ids(s) \ {y}
          /\ Distinct(RemoveIndex(s, i))
        BY <1>6, <2>1, RemoveIndexProperties, RemoveIndexIds
    <2>3. book'[k] = IF orders[y].RemainingQuantity = q THEN RemoveIndex(s, i) ELSE s
        BY <1>2, <1>4 DEF IInv, TypeOK
    <2> HIDE DEF s
    <2> QED
        BY <1>6, <2>2, <2>3
<1>14. /\ \A j \in BookKeys : j # k => book'[j] = book[j]
       /\ book' = [j \in BookKeys |-> book'[j]]
    BY <1>4 DEF IInv, TypeOK
<1>15. /\ DOMAIN orders \subseteq OrderIds
       /\ \A j \in BookKeys : y \in Ids(book[j]) => j = k
    BY <1>6 DEF IInv, TypeOK, RestingOK
<1>16. \A z \in OrderIds : InFlight(z)' <=> InFlight(z)
    BY <1>1 DEF InFlight
<1>17. FillsAccounted!(x) /\ FillsAccounted!(y)
    BY <1>5, <1>6 DEF IInv, FillsAccounted
<1>18. s = book[k]
    OBVIOUS
<1> HIDE DEF x, k, s
<1> USE DEF IInv
<1>19. TypeOK'
    <2>1. orders' \in [DOMAIN orders' -> Order] /\ DOMAIN orders' \subseteq OrderIds
        BY <1>10, <1>11, <1>12 DEF TypeOK
    <2>2. book' \in [BookKeys -> Seq(OrderIds)]
        BY <1>13, <1>14 DEF TypeOK
    <2>3. trades' \in [Partitions -> Seq(Trade)]
        BY <1>4, <1>9 DEF TypeOK
    <2>4. accounts' \subseteq Users /\ balance' \in [Users -> Holding]
          /\ position' \in [PositionKeys -> Holding]
        BY <1>4, <1>9, SettleTradeType
    <2> QED
        BY <1>1, <2>1, <2>2, <2>3, <2>4 DEF TypeOK
<1>20. WorkersOK'
    <2>1. MutexOK' /\ BusyOK' /\ OwnersUnique'
        BY <1>1 DEF WorkersOK, MutexOK, BusyOK, OwnersUnique
    <2>2. PublishOK'
        <3>1. \A r \in Partitions : r # p => trades'[r] = trades[r]
            BY <1>4 DEF TypeOK
        <3> QED
            BY <1>1, <3>1 DEF WorkersOK, PublishOK
    <2>3. InFlightOK'
        <3> SUFFICES ASSUME NEW r \in Partitions, pc[r] \in InFlightPhases
                     PROVE  InFlightOK!(r)'
            BY <1>1 DEF InFlightOK
        <3>1. cur[r] # y
            BY <1>6 DEF InFlight, InFlightPhases
        <3>2. CASE r = p
            BY <1>1, <1>5, <1>10, <1>12, <3>2 DEF x
        <3>3. CASE r # p
            <4>1. cur[r] # x
                BY <1>1, <3>3 DEF x, WorkersOK, OwnersUnique, InFlightPhases
            <4> QED
                BY <1>1, <1>12, <3>1, <4>1 DEF WorkersOK, InFlightOK
        <3> QED
            BY <3>2, <3>3
    <2> QED
        BY <2>1, <2>2, <2>3 DEF WorkersOK
<1>21. FillsAccounted'
    <2> SUFFICES ASSUME NEW z \in DOMAIN orders'
                 PROVE  FillsAccounted!(z)'
        BY DEF FillsAccounted
    <2>1. CASE z = x
        BY <1>2, <1>5, <1>7, <1>10, <1>12, <1>16, <1>17, <2>1
           DEF Order, StatusPending, StatusPartial, StatusFilled
    <2>2. CASE z = y
        <3>1. /\ orders[y].RemainingQuantity \in Nat /\ orders[y].FilledQuantity \in Nat
              /\ orders[y].Quantity \in Nat
            BY <1>6 DEF Order
        <3>2. orders[y].FilledQuantity + orders[y].RemainingQuantity = orders[y].Quantity
            BY <1>17
        <3>3. orders'[z] = fy
            BY <1>12, <2>2
        <3> QED
            BY <1>7, <1>11, <3>1, <3>2, <3>3 DEF StatusPartial, StatusFilled
    <2>3. CASE z # x /\ z # y
        BY <1>12, <1>15, <1>16, <2>3 DEF FillsAccounted
    <2> QED
        BY <2>1, <2>2, <2>3
<1>22. RestingOK'
    <2> SUFFICES ASSUME NEW j \in BookKeys, NEW z \in Ids(book'[j])
                 PROVE  RestingOK!(j)!(z)'
        BY DEF RestingOK
    <2>1. z \in Ids(book[j])
        BY <1>13, <1>14, <1>18
    <2>2. RestingOK!(j)!(z) /\ z # x
        BY <1>5, <2>1 DEF RestingOK
    <2>3. CASE z = y
        <3>1. j = k /\ orders[y].RemainingQuantity # q
            BY <1>13, <1>15, <2>1, <2>3
        <3>2. fy.RemainingQuantity > 0 /\ Open(fy)
            BY <1>6, <1>7, <1>11, <3>1 DEF Order, Open
        <3> QED
            BY <1>6, <1>11, <1>12, <1>16, <2>3, <3>1, <3>2
    <2>4. CASE z # y
        BY <1>12, <1>15, <1>16, <2>2, <2>4
    <2> QED
        BY <2>3, <2>4
<1>23. NoDuplicates'
    BY <1>13, <1>14 DEF NoDuplicates
<1>24. NothingLost'
    <2> SUFFICES ASSUME NEW z \in DOMAIN orders', Open(orders'[z]), ~InFlight(z)'
                 PROVE  z \in Ids(book'[BookKey(orders'[z])])
        BY DEF NothingLost
    <2>1. z # x
        BY <1>5, <1>16
    <2>2. CASE z = y
        <3>1. orders[y].RemainingQuantity # q
            BY <1>11, <1>12, <2>2 DEF Open, StatusFilled, StatusPending, StatusPartial
        <3> QED
            BY <1>6, <1>11, <1>12, <1>13, <2>2, <3>1
    <2>3. CASE z # y
        <3>1. orders'[z] = orders[z]
            BY <1>12, <2>1, <2>3
        <3>2. z \in Ids(book[BookKey(orders[z])]) /\ BookKey(orders[z]) \in BookKeys
            BY <1>12, <1>15, <1>16, <3>1, KeysOK DEF NothingLost, TypeOK
        <3> QED
            BY <1>13, <1>14, <1>18, <2>3, <3>1, <3>2
    <2> QED
        BY <2>2, <2>3
<1> QED
    BY <1>19, <1>20, <1>21, <1>22, <1>23, <1>24

\* The end of matchOrder keeps the invariant.
LEMMA FinishMatchOK ==
    ASSUME IInv, NEW p \in Partitions, FinishMatch(p)
    PROVE  IInv'
<1> DEFINE x == cur[p]
           o == orders[x]
           k == BookKey(o)
           final == FinalStatus(o)
           done == final \in {StatusFilled, StatusCanceled}
           locked == IF done /\ o.LockedFunds > 0 THEN 0 ELSE o.LockedFunds
<1>1. pc[p] = "matching" /\ UNCHANGED <<markets, accounts, trades, welcomed,
                                        createdOut, canceledOut>>
    BY DEF FinishMatch, historyVars
<1>2. /\ o \in Order /\ k \in BookKeys
      /\ OppositeKey(o) \in BookKeys /\ Opponents(p) = book[OppositeKey(o)]
    BY <1>1, OpponentsIsBook, KeysOK
<1>3. /\ orders' = [orders EXCEPT ![x].Status = final,
                                  ![x].LockedFunds = IF done /\ @ > 0 THEN 0 ELSE @]
      /\ ReleaseOrder(o) \/ UNCHANGED <<balance, position>>
      /\ mu' = Free
      /\ \/ trades[p] = << >> /\ Goto(p, "idle", NoOrder)
         \/ trades[p] # << >> /\ Goto(p, "publish", x)
    BY DEF FinishMatch
<1>4. book' = IF done THEN book ELSE [book EXCEPT ![k] = AddToBook(orders, @, x)]
    <2>1. [book EXCEPT ![OppositeKey(o)] = Opponents(p)] = book
        BY <1>2 DEF IInv, TypeOK
    <2> QED
        BY <2>1 DEF FinishMatch
<1>5. /\ x \in OrderIds /\ x \in DOMAIN orders /\ InFlight(x)
      /\ \A j \in BookKeys : x \notin Ids(book[j])
      /\ \A r \in Partitions : pc[r] \in InFlightPhases /\ cur[r] = x => r = p
    BY <1>1, InFlightProperties DEF InFlightPhases
<1>6. /\ final \in Statuses
      /\ final = StatusFilled <=> o.RemainingQuantity = 0
      /\ final = StatusPartial => o.FilledQuantity > 0
      /\ ~done => o.OrderType = OrderTypeLimit /\ final \in {StatusPending, StatusPartial}
    BY <1>2 DEF FinalStatus, Statuses, Order, OrderTypes, OrderTypeLimit, OrderTypeMarket,
                StatusFilled, StatusCanceled, StatusPartial, StatusPending
<1>7. balance' \in [Users -> Holding] /\ position' \in [PositionKeys -> Holding]
    BY <1>2, <1>3, ReleaseOrderType DEF IInv
<1>8. FillsAccounted!(x)
    BY <1>5 DEF IInv, FillsAccounted
<1> DEFINE new == [o EXCEPT !.Status = final, !.LockedFunds = locked]
<1>9. /\ DOMAIN orders' = DOMAIN orders
      /\ orders'[x] = new
      /\ \A y \in DOMAIN orders : y # x => orders'[y] = orders[y]
      /\ orders' = [y \in DOMAIN orders |-> orders'[y]]
    <2> HIDE DEF final, done
    <2>1. orders'[x] = new
        BY <1>2, <1>3, <1>5 DEF Order
    <2> QED
        BY <1>3, <1>5, <2>1 DEF IInv, TypeOK
<1>10. /\ new \in Order
       /\ new.Status = final
       /\ new.RemainingQuantity = o.RemainingQuantity
       /\ new.FilledQuantity = o.FilledQuantity
       /\ new.Quantity = o.Quantity
       /\ new.OrderType = o.OrderType
       /\ BookKey(new) = k
    <2>1. locked \in Int
        BY <1>2 DEF Order
    <2> HIDE DEF final, done, locked
    <2> QED
        BY <1>2, <1>6, <2>1 DEF Order, BookKey
<1>11. /\ book'[k] \in Seq(OrderIds) /\ Distinct(book'[k])
       /\ Ids(book'[k]) = IF done THEN Ids(book[k]) ELSE Ids(book[k]) \cup {x}
    <2>1. book[k] \in Seq(OrderIds) /\ Distinct(book[k]) /\ x \notin Ids(book[k])
        BY <1>2, <1>5 DEF IInv, TypeOK, NoDuplicates
    <2>2. /\ AddToBook(orders, book[k], x) \in Seq(OrderIds)
          /\ Ids(AddToBook(orders, book[k], x)) = Ids(book[k]) \cup {x}
          /\ Distinct(AddToBook(orders, book[k], x))
        BY <1>5, <2>1, AddToBookIds
    <2>3. book'[k] = IF done THEN book[k] ELSE AddToBook(orders, book[k], x)
        BY <1>2, <1>4 DEF IInv, TypeOK
    <2> HIDE DEF done, k
    <2> QED
        BY <2>1, <2>2, <2>3
<1>12. /\ \A j \in BookKeys : j # k => book'[j] = book[j]
       /\ book' = [j \in BookKeys |-> book'[j]]
    BY <1>4 DEF IInv, TypeOK
<1>13. /\ pc' \in [Partitions -> Phases]
       /\ cur' \in [Partitions -> OrderIds \cup {NoOrder}]
       /\ \A r \in Partitions : r # p => pc'[r] = pc[r] /\ cur'[r] = cur[r]
       /\ pc'[p] \in {"idle", "publish"}
       /\ pc'[p] = "publish" => cur'[p] = x /\ trades[p] # << >>
    BY <1>3, <1>5 DEF Goto, IInv, TypeOK, Phases
<1>14. done \/ ~done
    OBVIOUS
<1>15. cur[p] = x /\ o = orders[x]
    OBVIOUS
<1>16. done <=> final \in {StatusFilled, StatusCanceled}
    OBVIOUS
<1> HIDE DEF x, o, k, final, done, locked, new
<1> USE DEF IInv
<1>17. TypeOK'
    <2>1. orders' \in [DOMAIN orders' -> Order] /\ DOMAIN orders' \subseteq OrderIds
        BY <1>9, <1>10 DEF TypeOK
    <2>2. book' \in [BookKeys -> Seq(OrderIds)]
        BY <1>11, <1>12 DEF TypeOK
    <2> QED
        BY <1>1, <1>3, <1>7, <1>13, <2>1, <2>2 DEF TypeOK
<1>18. \A r \in Partitions : pc'[r] \in InFlightPhases =>
          r # p /\ pc'[r] = pc[r] /\ cur'[r] = cur[r]
    BY <1>13 DEF InFlightPhases
<1>19. WorkersOK'
    <2>1. MutexOK'
        BY <1>1, <1>3, <1>13, NullsAssumption DEF WorkersOK, MutexOK
    <2>2. PublishOK' /\ BusyOK'
        BY <1>1, <1>5, <1>13 DEF WorkersOK, PublishOK, BusyOK
    <2>3. InFlightOK' /\ OwnersUnique'
        BY <1>5, <1>9, <1>18 DEF WorkersOK, InFlightOK, OwnersUnique
    <2> QED
        BY <2>1, <2>2, <2>3 DEF WorkersOK
<1>20. \A y \in OrderIds : InFlight(y)' <=> InFlight(y) /\ y # x
    BY <1>1, <1>5, <1>13, <1>15, <1>18 DEF InFlight, InFlightPhases
<1>21. DOMAIN orders \subseteq OrderIds
    BY DEF TypeOK
<1>22. FillsAccounted'
    <2> SUFFICES ASSUME NEW y \in DOMAIN orders'
                 PROVE  FillsAccounted!(y)'
        BY DEF FillsAccounted
    <2>1. CASE y = x
        <3>1. final = StatusPartial => o.RemainingQuantity > 0
            BY <1>2, <1>6 DEF Order, StatusPartial, StatusFilled
        <3> QED
            BY <1>6, <1>8, <1>9, <1>10, <1>15, <2>1, <3>1
    <2>2. CASE y # x
        BY <1>9, <1>20, <1>21, <2>2 DEF FillsAccounted
    <2> QED
        BY <2>1, <2>2
<1>23. RestingOK'
    <2> SUFFICES ASSUME NEW j \in BookKeys, NEW y \in Ids(book'[j])
                 PROVE  RestingOK!(j)!(y)'
        BY DEF RestingOK
    <2>1. CASE y = x
        <3>1. j = k /\ ~done
            BY <1>5, <1>11, <1>12, <2>1
        <3>2. Open(new) /\ new.RemainingQuantity > 0
            BY <1>2, <1>6, <1>10, <1>16, <3>1 DEF Open, Order
        <3> QED
            BY <1>5, <1>6, <1>9, <1>10, <1>20, <2>1, <3>1, <3>2
    <2>2. CASE y # x
        <3>1. RestingOK!(j)!(y)
            BY <1>11, <1>12, <2>2 DEF RestingOK
        <3> QED
            BY <1>9, <1>20, <1>21, <2>2, <3>1
    <2> QED
        BY <2>1, <2>2
<1>24. NoDuplicates'
    BY <1>11, <1>12 DEF NoDuplicates
<1>25. NothingLost'
    <2> SUFFICES ASSUME NEW y \in DOMAIN orders', Open(orders'[y]), ~InFlight(y)'
                 PROVE  y \in Ids(book'[BookKey(orders'[y])])
        BY DEF NothingLost
    <2>1. CASE y = x
        <3>1. ~done
            BY <1>9, <1>10, <1>16, <2>1
               DEF Open, StatusFilled, StatusCanceled, StatusPending, StatusPartial
        <3> QED
            BY <1>9, <1>10, <1>11, <2>1, <3>1
    <2>2. CASE y # x
        <3>1. orders'[y] = orders[y]
            BY <1>9, <2>2
        <3>2. y \in Ids(book[BookKey(orders[y])]) /\ BookKey(orders[y]) \in BookKeys
            BY <1>9, <1>20, <1>21, <2>2, <3>1, KeysOK DEF NothingLost, TypeOK
        <3> QED
            BY <1>11, <1>12, <3>1, <3>2
    <2> QED
        BY <2>1, <2>2
<1> QED
    BY <1>17, <1>19, <1>22, <1>23, <1>24, <1>25

-----------------------------------------------------------------------------
(* The theorems                                                            *)

\* Every step of every worker keeps the inductive invariant.
LEMMA NextOK == IInv /\ [Next]_vars => IInv'
<1> SUFFICES ASSUME IInv, [Next]_vars PROVE IInv'
    OBVIOUS
<1>1. CASE UNCHANGED vars
    <2>1. /\ TypeOK' /\ WorkersOK'
        BY <1>1 DEF IInv, TypeOK, WorkersOK, MutexOK, PublishOK, BusyOK, InFlightOK,
                OwnersUnique, vars, marketVars, ledgerVars, workerVars, historyVars
    <2>2. FillsAccounted' /\ RestingOK' /\ NoDuplicates' /\ NothingLost'
        BY <1>1, Frame DEF InFlight, vars, marketVars, workerVars
    <2> QED
        BY <2>1, <2>2 DEF IInv
<1>2. CASE Next
    <2>1. PICK p \in Partitions :
             \/ \E e \in Events : CreateEvent(p, e)
             \/ \E u \in Users : UserCreated(p, u)
             \/ Submit(p)
             \/ \E x \in OrderIds : CancelOrder(p, x)
             \/ Continue(p)
        BY <1>2 DEF Next
    <2>2. CASE \E e \in Events : CreateEvent(p, e)
        BY <2>2, CreateEventOK
    <2>3. CASE \E u \in Users : UserCreated(p, u)
        BY <2>3, UserCreatedOK
    <2>4. CASE Submit(p)
        BY <2>4, AcceptOrderOK, RefuseOrderOK DEF Submit
    <2>5. CASE \E x \in OrderIds : CancelOrder(p, x)
        BY <2>5, CancelOrderOK
    <2>6. CASE Continue(p)
        BY <2>6, EmitCreatedOK, EmitCreatedFailsOK, BeginMatchOK, MatchPairOK,
           FinishMatchOK, PublishTradeOK, EmitCanceledOK DEF Continue
    <2> QED
        BY <2>1, <2>2, <2>3, <2>4, <2>5, <2>6
<1> QED
    BY <1>1, <1>2

\* IInv holds in every reachable state of the engine.
THEOREM Invariance == Spec => []IInv
    BY InitOK, NextOK, PTL DEF Spec

\* Every variable keeps its type, whatever the workers of handleMessage do.
THEOREM TypeCorrect == Spec => []TypeOK
<1>1. IInv => TypeOK
    BY DEF IInv
<1> QED
    BY <1>1, Invariance, PTL

\* No quantity is lost or filled twice: executePair, matchOrder and
\* handleCancelOrderP keep every order's fills, remainder and status consistent.
THEOREM FillsAlwaysAccounted == Spec => []FillsAccounted
<1>1. IInv => FillsAccounted
    BY DEF IInv
<1> QED
    BY <1>1, Invariance, PTL

\* The books hold exactly the open orders that have been through matchOrder,
\* once each and on their own side, whichever way commands interleave.
THEOREM BooksAlwaysExact == Spec => []BookExact
<1>1. IInv => BookExact
    BY DEF IInv, BookExact
<1> QED
    BY <1>1, Invariance, PTL
\* An order that is FILLED or CANCELED stays so: neither the status write at
\* the end of matchOrder nor executePair nor a second cancel touches it.
THEOREM TerminalAlwaysStays == Spec => TerminalStays
<1> DEFINE Kept(x) == ~Open(orders[x]) =>
                         /\ orders'[x].Status = orders[x].Status
                         /\ orders'[x].FilledQuantity = orders[x].FilledQuantity
<1>1. IInv /\ [Next]_vars => [\A x \in DOMAIN orders \cap DOMAIN orders' : Kept(x)]_vars
    <2> SUFFICES ASSUME IInv, Next, NEW z \in DOMAIN orders, z \in DOMAIN orders'
                 PROVE  Kept(z)
        OBVIOUS
    <2>1. CASE orders' = orders
        BY <2>1
    <2>2. ASSUME NEW p \in Partitions, NEW x \in OrderIds, NEW req \in ValidOrders,
                 AcceptOrder(p, x, req)
          PROVE  Kept(z)
        BY <2>2 DEF AcceptOrder, Submitted, Store
    <2>3. ASSUME NEW p \in Partitions, EmitCreatedFails(p) PROVE Kept(z)
        BY <2>3 DEF EmitCreatedFails, Without
    <2>4. ASSUME NEW p \in Partitions, NEW x \in OrderIds, CancelOrder(p, x) PROVE Kept(z)
        <3>1. Open(orders[x]) /\ z # x => orders'[z] = orders[z]
            BY <2>4 DEF CancelOrder
        <3>2. Open(orders[x])
            BY <2>4 DEF CancelOrder
        <3> QED
            BY <3>1, <3>2
    <2>5. ASSUME NEW p \in Partitions, MatchPair(p) PROVE Kept(z)
        <3> DEFINE k == OppositeKey(orders[cur[p]])
        <3>1. pc[p] = "matching" /\ k \in BookKeys /\ Opponents(p) = book[k]
            BY <2>5, OpponentsIsBook DEF MatchPair
        <3>2. PICK i \in DOMAIN book[k] : ExecutePair(p, i)
            BY <2>5, <3>1 DEF MatchPair
        <3>3. Open(orders[cur[p]])
            BY <3>1 DEF IInv, WorkersOK, InFlightOK, InFlightPhases, Open
        <3>4. Open(orders[book[k][i]])
            BY <3>1 DEF IInv, RestingOK, Ids
        <3>5. z # cur[p] /\ z # book[k][i] => orders'[z] = orders[z]
            BY <3>1, <3>2 DEF ExecutePair
        <3> QED
            BY <3>3, <3>4, <3>5
    <2>6. ASSUME NEW p \in Partitions, FinishMatch(p) PROVE Kept(z)
        <3>1. Open(orders[cur[p]])
            BY <2>6 DEF FinishMatch, IInv, WorkersOK, InFlightOK, InFlightPhases, Open
        <3>2. z # cur[p] => orders'[z] = orders[z]
            BY <2>6 DEF FinishMatch
        <3> QED
            BY <3>1, <3>2
    <2> HIDE DEF Kept
    <2>7. ASSUME NEW p \in Partitions, Continue(p) PROVE Kept(z)
        <3>1. CASE EmitCreated(p) \/ BeginMatch(p) \/ PublishTrade(p) \/ EmitCanceled(p)
            BY <2>1, <3>1 DEF EmitCreated, BeginMatch, PublishTrade, EmitCanceled, marketVars
        <3> QED
            BY <2>3, <2>5, <2>6, <2>7, <3>1 DEF Continue
    <2>8. ASSUME NEW p \in Partitions, Submit(p) PROVE Kept(z)
        <3>1. ASSUME NEW x \in OrderIds, NEW req \in ValidOrders, RefuseOrder(p, x, req)
              PROVE  Kept(z)
            BY <2>1, <3>1 DEF RefuseOrder, marketVars
        <3> QED
            BY <2>2, <2>8, <3>1 DEF Submit
    <2>9. ASSUME NEW p \in Partitions, NEW e \in Events, CreateEvent(p, e) PROVE Kept(z)
        BY <2>1, <2>9 DEF CreateEvent
    <2>10. ASSUME NEW p \in Partitions, NEW u \in Users, UserCreated(p, u) PROVE Kept(z)
        BY <2>1, <2>10 DEF UserCreated, marketVars
    <2> QED
        BY <2>4, <2>7, <2>8, <2>9, <2>10 DEF Next
<1>2. IInv /\ [Next]_vars =>
         [\A x \in DOMAIN orders \cap DOMAIN orders' :
             ~Open(orders[x]) => orders'[x].Status = orders[x].Status
                                 /\ orders'[x].FilledQuantity = orders[x].FilledQuantity]_vars
    BY <1>1
<1> QED
    BY <1>2, Invariance, PTL DEF Spec, TerminalStays

-----------------------------------------------------------------------------
(* What the steps do to orders and ledger                                  *)

\* What one iteration of matchAgainstBook does, seen from the two orders that
\* trade: b buys and s sells, q shares at the resting order's price.
TradesPair(p, b, s, q, price) ==
    /\ cur[p] \in {b, s} /\ b # s
    /\ orders[b] \in Order /\ orders[s] \in Order
    /\ Open(orders[b]) /\ Open(orders[s])
    /\ orders[b].Side = SideBuy /\ orders[s].Side = SideSell
    /\ orders[b].EventID = orders[s].EventID /\ orders[b].Outcome = orders[s].Outcome
    /\ orders[b].UserID # orders[s].UserID
    /\ q \in Nat \ {0} /\ q <= orders[b].RemainingQuantity /\ q <= orders[s].RemainingQuantity
    /\ \/ price = orders[b].Price /\ orders[b].OrderType = OrderTypeLimit
       \/ price = orders[s].Price /\ orders[s].OrderType = OrderTypeLimit
    /\ orders[b].OrderType = OrderTypeLimit => price <= orders[b].Price
    /\ DOMAIN orders' = DOMAIN orders
    /\ orders'[b] \in Order /\ orders'[s] \in Order
    /\ \A z \in DOMAIN orders : z # b /\ z # s => orders'[z] = orders[z]
    /\ \A z \in {b, s} :
          /\ orders'[z].UserID = orders[z].UserID
          /\ orders'[z].EventID = orders[z].EventID
          /\ orders'[z].Outcome = orders[z].Outcome
          /\ orders'[z].Side = orders[z].Side
          /\ orders'[z].OrderType = orders[z].OrderType
          /\ orders'[z].Price = orders[z].Price
          /\ orders'[z].Quantity = orders[z].Quantity
          /\ orders'[z].RemainingQuantity = orders[z].RemainingQuantity - q
    /\ orders'[b].LockedFunds = AtLeastZero(orders[b].LockedFunds - Int64(q * price))
    /\ orders'[s].LockedFunds = AtLeastZero(orders[s].LockedFunds - q)
    /\ accounts' = accounts \cup {orders[b].UserID, orders[s].UserID}
    /\ balance' = [balance EXCEPT ![orders[b].UserID] = Spend(@, Int64(q * price)),
                                  ![orders[s].UserID] = Receive(@, Int64(q * price))]
    /\ position' = [position EXCEPT ![PositionKey(orders[b])] = Receive(@, q),
                                    ![PositionKey(orders[s])] = Spend(@, q)]
    /\ \A j \in BookKeys : Ids(book'[j]) \subseteq Ids(book[j])
    /\ \E t \in Trade : /\ trades' = [trades EXCEPT ![p] = Append(@, t)]
                        /\ {t.OrderID, t.MatchOrderID} = {b, s}
    /\ \A z \in {b, s} : z # cur[p] => ~InFlight(z)
    /\ pc[p] = "matching"
    /\ UNCHANGED <<mu, markets, pc, cur, welcomed, createdOut, canceledOut>>

\* What a fill leaves alone, and what it takes out of the reservation.
LEMMA FillFields ==
    ASSUME NEW o \in Order, NEW q \in Nat \ {0}, q <= o.RemainingQuantity, NEW cost \in Int,
           NEW f \in {Fill(o, q, cost), FillResting(o, q, cost)}
    PROVE  /\ f.UserID = o.UserID /\ f.EventID = o.EventID /\ f.Outcome = o.Outcome
           /\ f.Side = o.Side /\ f.OrderType = o.OrderType /\ f.Price = o.Price
           /\ f.Quantity = o.Quantity
           /\ f.LockedFunds = AtLeastZero(o.LockedFunds - IF o.Side = SideBuy THEN cost ELSE q)
<1> DEFINE locked == AtLeastZero(o.LockedFunds - IF o.Side = SideBuy THEN cost ELSE q)
           g == Fill(o, q, cost)
<1>1. g = [o EXCEPT !.RemainingQuantity = o.RemainingQuantity - q,
                    !.FilledQuantity = o.FilledQuantity + q,
                    !.LockedFunds = locked]
    BY DEF Fill, Order
<1>2. g \in Order
    BY FillProperties
<1>3. /\ g.UserID = o.UserID /\ g.EventID = o.EventID /\ g.Outcome = o.Outcome
      /\ g.Side = o.Side /\ g.OrderType = o.OrderType /\ g.Price = o.Price
      /\ g.Quantity = o.Quantity /\ g.LockedFunds = locked
    <2> HIDE DEF locked, g
    <2> QED
        BY <1>1 DEF Order
<1>4. f = g \/ \E st \in Statuses : f = [g EXCEPT !.Status = st]
    BY DEF FillResting, Statuses
<1> HIDE DEF locked, g
<1> QED
    BY <1>2, <1>3, <1>4 DEF Order, locked

\* MatchPair is a trade of a BUY with a SELL order, whichever of the two is taker.
LEMMA MatchPairEffect ==
    ASSUME IInv, NEW p \in Partitions, MatchPair(p)
    PROVE  \E b, s \in DOMAIN orders, q, price \in Nat : TradesPair(p, b, s, q, price)
<1> DEFINE x == cur[p]
           k == OppositeKey(orders[x])
<1>1. /\ pc[p] = "matching" /\ orders[x].RemainingQuantity > 0
      /\ UNCHANGED <<mu, markets, pc, cur, welcomed, createdOut, canceledOut>>
    BY DEF MatchPair, historyVars
<1>2. orders[x] \in Order /\ k \in BookKeys /\ Opponents(p) = book[k]
    BY <1>1, OpponentsIsBook
<1>3. PICK i \in DOMAIN book[k] :
         FindCounterparty(orders, book[k], orders[x], i) /\ ExecutePair(p, i)
    BY <1>2 DEF MatchPair
<1> DEFINE y == book[k][i]
           q == Min2(orders[x].RemainingQuantity, orders[y].RemainingQuantity)
           price == orders[y].Price
           cost == Int64(q * price)
           t == BuildTrade(x, y, q)
<1>4. /\ orders' = [orders EXCEPT ![x] = Fill(@, q, cost), ![y] = FillResting(@, q, cost)]
      /\ SettleTrade(t)
      /\ trades' = [trades EXCEPT ![p] = Append(@, t)]
      /\ book' = [book EXCEPT ![k] =
                    IF orders[y].RemainingQuantity = q THEN RemoveIndex(book[k], i) ELSE book[k]]
    BY <1>2, <1>3 DEF ExecutePair
<1>5. x \in DOMAIN orders /\ Open(orders[x]) /\ \A j \in BookKeys : x \notin Ids(book[j])
    BY <1>1, InFlightProperties DEF InFlightPhases, IInv, WorkersOK, InFlightOK, Open
<1>6. /\ y \in DOMAIN orders /\ y # x /\ orders[y] \in Order
      /\ Open(orders[y]) /\ orders[y].RemainingQuantity > 0
      /\ orders[y].OrderType = OrderTypeLimit /\ BookKey(orders[y]) = k /\ ~InFlight(y)
    <2>1. y \in Ids(book[k])
        BY DEF Ids
    <2>2. RestingOK!(k)!(y)
        BY <1>2, <2>1 DEF IInv, RestingOK
    <2> QED
        BY <1>2, <1>5, <2>1, <2>2 DEF IInv, TypeOK
<1>7. CanMatch(orders[x], orders[y]) /\ orders[y].UserID # orders[x].UserID
    BY <1>3 DEF FindCounterparty, Candidates
<1>8. \A j \in BookKeys : Ids(book'[j]) \subseteq Ids(book[j])
    <2>1. book[k] \in Seq(OrderIds) /\ Distinct(book[k]) /\ i \in 1 .. Len(book[k])
        BY <1>2 DEF IInv, TypeOK, NoDuplicates
    <2>2. Ids(RemoveIndex(book[k], i)) \subseteq Ids(book[k])
        BY <2>1, RemoveIndexIds
    <2>3. book'[k] \in {RemoveIndex(book[k], i), book[k]}
        BY <1>2, <1>4 DEF IInv, TypeOK
    <2>4. \A j \in BookKeys : j # k => book'[j] = book[j]
        BY <1>4 DEF IInv, TypeOK
    <2> HIDE DEF k
    <2> QED
        BY <2>2, <2>3, <2>4
<1> HIDE DEF x, y, k
<1>9. /\ q \in Nat \ {0}
      /\ q <= orders[x].RemainingQuantity /\ q <= orders[y].RemainingQuantity
    <2>1. orders[x].RemainingQuantity \in Nat \ {0} /\ orders[y].RemainingQuantity \in Nat \ {0}
        BY <1>1, <1>2, <1>6 DEF Order
    <2> QED
        BY <2>1 DEF Min2
<1>10. price \in Nat /\ cost \in Int
    BY <1>6, <1>9, Int64Type DEF Order
<1>11. /\ orders[y].EventID = orders[x].EventID /\ orders[y].Outcome = orders[x].Outcome
       /\ orders[y].Side = Opposite(orders[x].Side)
    BY <1>6 DEF BookKey, OppositeKey, k
<1> DEFINE fx == Fill(orders[x], q, cost)
           fy == FillResting(orders[y], q, cost)
<1>12. /\ fx \in Order /\ fy \in Order
       /\ fx.RemainingQuantity = orders[x].RemainingQuantity - q
       /\ fy.RemainingQuantity = orders[y].RemainingQuantity - q
    <2> HIDE DEF q, cost
    <2> QED
        BY <1>2, <1>6, <1>9, <1>10, FillProperties, FillRestingProperties
<1>13. /\ fx.UserID = orders[x].UserID /\ fx.EventID = orders[x].EventID
       /\ fx.Outcome = orders[x].Outcome /\ fx.Side = orders[x].Side
       /\ fx.OrderType = orders[x].OrderType /\ fx.Price = orders[x].Price
       /\ fx.Quantity = orders[x].Quantity
       /\ fx.LockedFunds =
            AtLeastZero(orders[x].LockedFunds - IF orders[x].Side = SideBuy THEN cost ELSE q)
    <2> HIDE DEF q, cost
    <2> QED
        BY <1>2, <1>9, <1>10, FillFields
<1>14. /\ fy.UserID = orders[y].UserID /\ fy.EventID = orders[y].EventID
       /\ fy.Outcome = orders[y].Outcome /\ fy.Side = orders[y].Side
       /\ fy.OrderType = orders[y].OrderType /\ fy.Price = orders[y].Price
       /\ fy.Quantity = orders[y].Quantity
       /\ fy.LockedFunds =
            AtLeastZero(orders[y].LockedFunds - IF orders[y].Side = SideBuy THEN cost ELSE q)
    <2> HIDE DEF q, cost
    <2> QED
        BY <1>6, <1>9, <1>10, FillFields
<1>15. /\ DOMAIN orders' = DOMAIN orders
       /\ orders'[x] = fx /\ orders'[y] = fy
       /\ \A z \in DOMAIN orders : z # x /\ z # y => orders'[z] = orders[z]
    <2> HIDE DEF q, cost
    <2> QED
        BY <1>4, <1>5, <1>6
<1> DEFINE b == IF orders[x].Side = SideBuy THEN x ELSE y
           s == IF orders[x].Side = SideBuy THEN y ELSE x
<1>16. /\ t.BuyerID = orders[b].UserID /\ t.SellerID = orders[s].UserID
       /\ t.EventID = orders[x].EventID /\ t.Outcome = orders[x].Outcome
       /\ t.Quantity = q /\ t.Price = price
       /\ t.OrderID = x /\ t.MatchOrderID = y
    BY DEF BuildTrade
<1>17. t \in Trade
    <2>1. x \in OrderIds /\ y \in OrderIds
        BY <1>5, <1>6 DEF IInv, TypeOK
    <2> HIDE DEF q, cost
    <2> QED
        BY <1>2, <1>6, <1>9, <2>1 DEF BuildTrade, Trade, Order
<1>18. trades' = [trades EXCEPT ![p] = Append(@, t)]
    BY <1>4
<1>19. /\ orders[b].Side = SideBuy /\ orders[s].Side = SideSell
    BY <1>2, <1>11 DEF Order, Sides, Opposite, SideBuy, SideSell
<1>20. /\ accounts' = accounts \cup {orders[b].UserID, orders[s].UserID}
       /\ balance' = [balance EXCEPT ![orders[b].UserID] = Spend(@, cost),
                                     ![orders[s].UserID] = Receive(@, cost)]
       /\ position' = [position EXCEPT ![PositionKey(orders[b])] = Receive(@, q),
                                       ![PositionKey(orders[s])] = Spend(@, q)]
    <2>1. /\ PositionKey(orders[b]) = <<t.BuyerID, t.EventID, t.Outcome>>
          /\ PositionKey(orders[s]) = <<t.SellerID, t.EventID, t.Outcome>>
        BY <1>11, <1>16 DEF PositionKey
    <2>2. cost = Int64(t.Quantity * t.Price)
        BY <1>16
    <2> HIDE DEF t, b, s, q, cost
    <2> QED
        BY <1>4, <1>16, <2>1, <2>2 DEF SettleTrade
<1> HIDE DEF t
<1>21. orders[b].OrderType = OrderTypeLimit => price <= orders[b].Price
    <2>1. CASE orders[x].Side = SideBuy
        BY <1>7, <2>1 DEF CanMatch, OrderTypeLimit, OrderTypeMarket, SideBuy, SideSell
    <2>2. CASE orders[x].Side # SideBuy
        BY <1>10, <2>2
    <2> QED
        BY <2>1, <2>2
<1>22. (b = x /\ s = y) \/ (b = y /\ s = x)
    OBVIOUS
<1>23. cur[p] = x /\ x # y
    BY <1>6 DEF x
<1>24. q \in Nat /\ cost = Int64(q * price)
    BY <1>9
<1>25. \/ price = orders[b].Price /\ orders[b].OrderType = OrderTypeLimit
       \/ price = orders[s].Price /\ orders[s].OrderType = OrderTypeLimit
    BY <1>6, <1>22
<1>26. \E u \in Trade : /\ trades' = [trades EXCEPT ![p] = Append(@, u)]
                        /\ {u.OrderID, u.MatchOrderID} = {b, s}
    <2>1. {t.OrderID, t.MatchOrderID} = {b, s}
        BY <1>16, <1>22
    <2> HIDE DEF b, s
    <2> QED
        BY <1>17, <1>18, <2>1
<1> HIDE DEF b, s, q, cost, price, fx, fy
<1>27. /\ cur[p] \in {b, s} /\ b # s
       /\ orders[b] \in Order /\ orders[s] \in Order
       /\ Open(orders[b]) /\ Open(orders[s])
       /\ orders[b].EventID = orders[s].EventID /\ orders[b].Outcome = orders[s].Outcome
       /\ orders[b].UserID # orders[s].UserID
       /\ q <= orders[b].RemainingQuantity /\ q <= orders[s].RemainingQuantity
       /\ \A z \in {b, s} : z # cur[p] => ~InFlight(z)
    BY <1>2, <1>5, <1>6, <1>7, <1>9, <1>11, <1>22, <1>23
<1>28. /\ DOMAIN orders' = DOMAIN orders
       /\ \A z \in DOMAIN orders : z # b /\ z # s => orders'[z] = orders[z]
       /\ orders'[b] \in Order /\ orders'[s] \in Order
    BY <1>12, <1>15, <1>22
<1>29. ASSUME NEW z \in {b, s}
       PROVE  /\ orders'[z].UserID = orders[z].UserID
              /\ orders'[z].EventID = orders[z].EventID
              /\ orders'[z].Outcome = orders[z].Outcome
              /\ orders'[z].Side = orders[z].Side
              /\ orders'[z].OrderType = orders[z].OrderType
              /\ orders'[z].Price = orders[z].Price
              /\ orders'[z].Quantity = orders[z].Quantity
              /\ orders'[z].RemainingQuantity = orders[z].RemainingQuantity - q
    BY <1>12, <1>13, <1>14, <1>15, <1>22
<1>30. ASSUME NEW z \in {b, s}
       PROVE  orders'[z].LockedFunds =
                AtLeastZero(orders[z].LockedFunds - IF orders[z].Side = SideBuy THEN cost ELSE q)
    BY <1>13, <1>14, <1>15, <1>22
<1>31. /\ orders'[b].LockedFunds = AtLeastZero(orders[b].LockedFunds - cost)
       /\ orders'[s].LockedFunds = AtLeastZero(orders[s].LockedFunds - q)
    BY <1>19, <1>30 DEF SideBuy, SideSell
<1>32. TradesPair(p, b, s, q, price)
    BY <1>1, <1>9, <1>19, <1>20, <1>21, <1>24, <1>25, <1>27, <1>8, <1>26, <1>28, <1>29, <1>31
       DEF TradesPair
<1>33. b \in DOMAIN orders /\ s \in DOMAIN orders
    BY <1>5, <1>6, <1>22
<1> QED
    BY <1>10, <1>24, <1>32, <1>33

\* What closing order x does, at the end of matchOrder and in a cancel: its
\* status is written, and what it has still locked is released or kept.
Closes(x) ==
    /\ orders[x] \in Order /\ Open(orders[x])
    /\ DOMAIN orders' = DOMAIN orders
    /\ orders'[x] \in Order
    /\ \A z \in DOMAIN orders : z # x => orders'[z] = orders[z]
    /\ orders'[x].UserID = orders[x].UserID
    /\ orders'[x].EventID = orders[x].EventID
    /\ orders'[x].Outcome = orders[x].Outcome
    /\ orders'[x].Side = orders[x].Side
    /\ orders'[x].OrderType = orders[x].OrderType
    /\ orders'[x].Price = orders[x].Price
    /\ orders'[x].Quantity = orders[x].Quantity
    /\ orders'[x].RemainingQuantity = orders[x].RemainingQuantity
    /\ \/ /\ orders[x].LockedFunds > 0 /\ orders'[x].LockedFunds = 0
          /\ ~Open(orders'[x])
          /\ ReleaseOrder(orders[x])
       \/ /\ orders'[x].LockedFunds = orders[x].LockedFunds
          /\ UNCHANGED <<balance, position>>
    /\ UNCHANGED <<accounts, welcomed>>

\* Writing the status and the locked amount of an order leaves the rest alone.
LEMMA CloseFields ==
    ASSUME NEW o \in Order, NEW st \in Statuses, NEW l \in Int
    PROVE  LET c == [o EXCEPT !.Status = st, !.LockedFunds = l]
           IN  /\ c \in Order
               /\ c.UserID = o.UserID /\ c.EventID = o.EventID /\ c.Outcome = o.Outcome
               /\ c.Side = o.Side /\ c.OrderType = o.OrderType /\ c.Price = o.Price
               /\ c.Quantity = o.Quantity /\ c.RemainingQuantity = o.RemainingQuantity
               /\ c.Status = st /\ c.LockedFunds = l
    BY DEF Order

\* handleCancelOrderP closes one order and gives back what it had frozen.
LEMMA CancelEffect ==
    ASSUME IInv, NEW p \in Partitions, NEW x \in OrderIds, CancelOrder(p, x)
    PROVE  x \in DOMAIN orders /\ Closes(x)
<1> DEFINE o == orders[x]
           l == IF o.LockedFunds > 0 THEN 0 ELSE o.LockedFunds
<1>1. /\ x \in DOMAIN orders /\ Open(o)
      /\ orders' = [orders EXCEPT ![x].Status = StatusCanceled,
                                  ![x].LockedFunds = IF @ > 0 THEN 0 ELSE @]
      /\ IF o.LockedFunds > 0 THEN ReleaseOrder(o) ELSE UNCHANGED <<balance, position>>
      /\ UNCHANGED <<accounts, welcomed>>
    BY DEF CancelOrder, historyVars
<1>2. o \in Order
    BY <1>1 DEF IInv, TypeOK
<1> DEFINE c == [o EXCEPT !.Status = StatusCanceled, !.LockedFunds = l]
<1>3. /\ DOMAIN orders' = DOMAIN orders
      /\ orders'[x] = c
      /\ \A z \in DOMAIN orders : z # x => orders'[z] = orders[z]
    BY <1>1, <1>2 DEF Order, IInv, TypeOK
<1>4. l \in Int /\ StatusCanceled \in Statuses
    BY <1>2 DEF Order, Statuses
<1>5. /\ c \in Order
      /\ c.UserID = o.UserID /\ c.EventID = o.EventID /\ c.Outcome = o.Outcome
      /\ c.Side = o.Side /\ c.OrderType = o.OrderType /\ c.Price = o.Price
      /\ c.Quantity = o.Quantity /\ c.RemainingQuantity = o.RemainingQuantity
      /\ c.Status = StatusCanceled /\ c.LockedFunds = l
    <2> HIDE DEF o, l
    <2> QED
        BY <1>2, <1>4, CloseFields
<1>6. ~Open(c)
    BY <1>5 DEF Open, StatusCanceled, StatusPending, StatusPartial
<1> HIDE DEF c
<1> QED
    BY <1>1, <1>2, <1>3, <1>5, <1>6 DEF Closes

\* The end of matchOrder closes the taker, or leaves it open with what it froze.
LEMMA FinishMatchEffect ==
    ASSUME IInv, NEW p \in Partitions, FinishMatch(p)
    PROVE  cur[p] \in DOMAIN orders /\ Closes(cur[p])
<1> DEFINE x == cur[p]
           o == orders[x]
           final == FinalStatus(o)
           done == final \in {StatusFilled, StatusCanceled}
           l == IF done /\ o.LockedFunds > 0 THEN 0 ELSE o.LockedFunds
<1>1. /\ pc[p] = "matching"
      /\ orders' = [orders EXCEPT ![x].Status = final,
                                  ![x].LockedFunds = IF done /\ @ > 0 THEN 0 ELSE @]
      /\ IF done /\ o.LockedFunds > 0
         THEN ReleaseOrder(o) ELSE UNCHANGED <<balance, position>>
      /\ UNCHANGED <<accounts, welcomed>>
    BY DEF FinishMatch, historyVars
<1>2. x \in DOMAIN orders /\ o \in Order /\ Open(o)
    BY <1>1 DEF IInv, TypeOK, WorkersOK, InFlightOK, InFlightPhases, Open
<1> DEFINE c == [o EXCEPT !.Status = final, !.LockedFunds = l]
<1>3. l \in Int /\ final \in Statuses
    BY <1>2 DEF Order, Statuses, FinalStatus
<1>4. done => final \notin {StatusPending, StatusPartial}
    BY DEF StatusFilled, StatusCanceled, StatusPending, StatusPartial
<1>5. l = IF done /\ o.LockedFunds > 0 THEN 0 ELSE o.LockedFunds
    OBVIOUS
<1> HIDE DEF final, done
<1>6. /\ DOMAIN orders' = DOMAIN orders
      /\ orders'[x] = c
      /\ \A z \in DOMAIN orders : z # x => orders'[z] = orders[z]
    BY <1>1, <1>2 DEF Order, IInv, TypeOK
<1> HIDE DEF l
<1>7. /\ c \in Order
      /\ c.UserID = o.UserID /\ c.EventID = o.EventID /\ c.Outcome = o.Outcome
      /\ c.Side = o.Side /\ c.OrderType = o.OrderType /\ c.Price = o.Price
      /\ c.Quantity = o.Quantity /\ c.RemainingQuantity = o.RemainingQuantity
      /\ c.Status = final /\ c.LockedFunds = l
    <2> HIDE DEF o
    <2> QED
        BY <1>2, <1>3, CloseFields
<1>8. done => ~Open(c)
    BY <1>4, <1>7 DEF Open
<1> HIDE DEF c
<1> QED
    BY <1>1, <1>2, <1>5, <1>6, <1>7, <1>8 DEF Closes

\* The ledger and the orders stay as they are.
Quiet == UNCHANGED <<orders, accounts, balance, position, welcomed>>

\* Everything the engine does is, to the ledger, one of these.
LEMMA LedgerSteps ==
    ASSUME IInv, [Next]_vars
    PROVE  \/ Quiet
           \/ \E p \in Partitions, u \in Users : UserCreated(p, u)
           \/ \E p \in Partitions, x \in OrderIds, req \in ValidOrders :
                 AcceptOrder(p, x, req) \/ RefuseOrder(p, x, req)
           \/ \E p \in Partitions : EmitCreatedFails(p)
           \/ \E p \in Partitions, b, s \in DOMAIN orders, q, price \in Nat :
                 TradesPair(p, b, s, q, price)
           \/ \E x \in DOMAIN orders : Closes(x)
<1>1. CASE UNCHANGED vars
    BY <1>1 DEF Quiet, vars, marketVars, ledgerVars, historyVars
<1>2. ASSUME NEW p \in Partitions, NEW e \in Events, CreateEvent(p, e) PROVE Quiet
    BY <1>2 DEF CreateEvent, Quiet, ledgerVars, historyVars
<1>3. ASSUME NEW p \in Partitions,
             EmitCreated(p) \/ BeginMatch(p) \/ PublishTrade(p) \/ EmitCanceled(p)
      PROVE  Quiet
    BY <1>3 DEF EmitCreated, BeginMatch, PublishTrade, EmitCanceled, Quiet, marketVars,
            ledgerVars, historyVars
<1>4. ASSUME NEW p \in Partitions, MatchPair(p)
      PROVE  \E b, s \in DOMAIN orders, q, price \in Nat : TradesPair(p, b, s, q, price)
    BY <1>4, MatchPairEffect
<1>5. ASSUME NEW p \in Partitions, FinishMatch(p) PROVE \E x \in DOMAIN orders : Closes(x)
    BY <1>5, FinishMatchEffect
<1>6. ASSUME NEW p \in Partitions, NEW y \in OrderIds, CancelOrder(p, y)
      PROVE  \E x \in DOMAIN orders : Closes(x)
    BY <1>6, CancelEffect
<1> QED
    BY <1>1, <1>2, <1>3, <1>4, <1>5, <1>6, Zenon DEF Next, Submit, Continue

-----------------------------------------------------------------------------
(* No book stays crossed                                                   *)

\* NotCrossed at all times, also while a worker is in the matching loop: the
\* order it matches is not on the book yet.
Uncrossed ==
    \A e \in Events, c \in Outcomes :
        \A x \in Ids(book[<<e, c, SideBuy>>]), y \in Ids(book[<<e, c, SideSell>>]) :
            orders[x].UserID # orders[y].UserID => orders[x].Price < orders[y].Price

\* A step that puts nothing on a book, and changes neither owner nor price of
\* what stays there, crosses no book.
LEMMA UncrossedKept ==
    ASSUME IInv, Uncrossed,
           \A k \in BookKeys : Ids(book'[k]) \subseteq Ids(book[k]),
           \A z \in DOMAIN orders \cap DOMAIN orders' :
              orders'[z].UserID = orders[z].UserID /\ orders'[z].Price = orders[z].Price,
           \A k \in BookKeys : Ids(book'[k]) \subseteq DOMAIN orders'
    PROVE  Uncrossed'
<1> SUFFICES ASSUME NEW e \in Events, NEW c \in Outcomes,
                    NEW x \in Ids(book'[<<e, c, SideBuy>>]),
                    NEW y \in Ids(book'[<<e, c, SideSell>>])
             PROVE  orders'[x].UserID # orders'[y].UserID => orders'[x].Price < orders'[y].Price
    BY DEF Uncrossed
<1>1. <<e, c, SideBuy>> \in BookKeys /\ <<e, c, SideSell>> \in BookKeys
    BY DEF BookKeys, Sides
<1>2. x \in Ids(book[<<e, c, SideBuy>>]) /\ y \in Ids(book[<<e, c, SideSell>>])
    BY <1>1
<1>3. orders[x].UserID # orders[y].UserID => orders[x].Price < orders[y].Price
    BY <1>2 DEF Uncrossed
<1>4. x \in DOMAIN orders \cap DOMAIN orders' /\ y \in DOMAIN orders \cap DOMAIN orders'
    BY <1>1, <1>2 DEF IInv, RestingOK
<1> QED
    BY <1>3, <1>4

\* What matchOrder's end does to the books: an order that is not done is put
\* on its own side, and then nothing on the other side could trade with it.
LEMMA FinishMatchBooks ==
    ASSUME IInv, NEW p \in Partitions, FinishMatch(p)
    PROVE  LET x == cur[p]
               o == orders[x]
           IN  /\ x \in DOMAIN orders /\ o \in Order
               /\ BookKey(o) \in BookKeys /\ OppositeKey(o) \in BookKeys
               /\ \A j \in BookKeys : j # BookKey(o) => book'[j] = book[j]
               /\ \/ book' = book
                  \/ /\ Ids(book'[BookKey(o)]) = Ids(book[BookKey(o)]) \cup {x}
                     /\ \A y \in Ids(book[OppositeKey(o)]) :
                           orders[y].UserID # o.UserID => ~CanMatch(o, orders[y])
<1> DEFINE x == cur[p]
           o == orders[x]
           k == BookKey(o)
           m == OppositeKey(o)
           done == FinalStatus(o) \in {StatusFilled, StatusCanceled}
<1>1. pc[p] = "matching"
    BY DEF FinishMatch
<1>2. /\ o \in Order /\ k \in BookKeys /\ m \in BookKeys /\ Opponents(p) = book[m]
      /\ x \in DOMAIN orders /\ x \in OrderIds
    BY <1>1, OpponentsIsBook, KeysOK, InFlightProperties DEF InFlightPhases
<1>3. book' = IF done THEN book ELSE [book EXCEPT ![k] = AddToBook(orders, @, x)]
    <2>1. [book EXCEPT ![m] = Opponents(p)] = book
        BY <1>2 DEF IInv, TypeOK
    <2> QED
        BY <2>1 DEF FinishMatch
<1>4. ~done => o.RemainingQuantity # 0
    BY DEF FinalStatus
<1>5. ASSUME ~done, NEW y \in Ids(book[m]), orders[y].UserID # o.UserID
      PROVE  ~CanMatch(o, orders[y])
    <2>1. Candidates(orders, book[m], o) = {}
        BY <1>2, <1>4, <1>5 DEF FinishMatch
    <2>2. PICK i \in DOMAIN book[m] : y = book[m][i]
        BY <1>5 DEF Ids
    <2>3. Open(orders[y]) /\ orders[y].RemainingQuantity > 0 /\ orders[y].RemainingQuantity \in Nat
        BY <1>2, <1>5 DEF IInv, RestingOK, TypeOK, Order
    <2>4. ~Dead(orders[y])
        BY <2>3 DEF Dead, Open, StatusPending, StatusPartial, StatusFilled, StatusCanceled
    <2> HIDE DEF o, m
    <2> QED
        BY <1>5, <2>1, <2>2, <2>4 DEF Candidates
<1>6. ~done => Ids(book'[k]) = Ids(book[k]) \cup {x}
    <2>1. book[k] \in Seq(OrderIds)
        BY <1>2 DEF IInv, TypeOK
    <2>2. Ids(AddToBook(orders, book[k], x)) = Ids(book[k]) \cup {x}
        BY <1>2, <2>1, AddToBookIds
    <2>3. ~done => book'[k] = AddToBook(orders, book[k], x)
        BY <1>2, <1>3 DEF IInv, TypeOK
    <2> QED
        BY <2>2, <2>3
<1>7. \A j \in BookKeys : j # k => book'[j] = book[j]
    BY <1>3 DEF IInv, TypeOK
<1> HIDE DEF done, k, m, o, x
<1> QED
    BY <1>2, <1>3, <1>5, <1>6, <1>7 DEF k, m, o, x

\* An order put on the book by matchOrder crosses nothing: findCounterparty
\* found no order there that it could have traded with.
LEMMA FinishMatchUncrossed ==
    ASSUME IInv, Uncrossed, NEW p \in Partitions, FinishMatch(p)
    PROVE  Uncrossed'
<1> DEFINE x == cur[p]
           o == orders[x]
<1>1. /\ x \in DOMAIN orders /\ o \in Order
      /\ BookKey(o) \in BookKeys /\ OppositeKey(o) \in BookKeys
      /\ \A j \in BookKeys : j # BookKey(o) => book'[j] = book[j]
      /\ \/ book' = book
         \/ /\ Ids(book'[BookKey(o)]) = Ids(book[BookKey(o)]) \cup {x}
            /\ \A y \in Ids(book[OppositeKey(o)]) :
                  orders[y].UserID # o.UserID => ~CanMatch(o, orders[y])
    BY FinishMatchBooks
<1>2. /\ DOMAIN orders' = DOMAIN orders
      /\ \A z \in DOMAIN orders :
            orders'[z].UserID = orders[z].UserID /\ orders'[z].Price = orders[z].Price
    BY FinishMatchEffect DEF Closes
<1>3. CASE book' = book
    <2>1. \A k \in BookKeys : Ids(book[k]) \subseteq DOMAIN orders
        BY DEF IInv, RestingOK
    <2> QED
        BY <1>2, <1>3, <2>1, UncrossedKept
<1>4. CASE /\ Ids(book'[BookKey(o)]) = Ids(book[BookKey(o)]) \cup {x}
           /\ \A y \in Ids(book[OppositeKey(o)]) :
                 orders[y].UserID # o.UserID => ~CanMatch(o, orders[y])
    <2> SUFFICES ASSUME NEW e \in Events, NEW c \in Outcomes,
                        NEW a \in Ids(book'[<<e, c, SideBuy>>]),
                        NEW b \in Ids(book'[<<e, c, SideSell>>]),
                        orders'[a].UserID # orders'[b].UserID
                 PROVE  orders'[a].Price < orders'[b].Price
        BY DEF Uncrossed
    <2> DEFINE kb == <<e, c, SideBuy>>
               ks == <<e, c, SideSell>>
    <2>1. kb \in BookKeys /\ ks \in BookKeys /\ kb # ks
        BY DEF BookKeys, Sides, SideBuy, SideSell
    <2>2. ASSUME NEW j \in BookKeys, NEW z \in Ids(book[j])
          PROVE  z \in DOMAIN orders /\ orders[z] \in Order /\ BookKey(orders[z]) = j
        BY <2>2 DEF IInv, RestingOK, TypeOK
    <2>3. BookKey(o) = kb => OppositeKey(o) = ks /\ o.Side = SideBuy /\ o.Outcome = c
        BY DEF BookKey, OppositeKey, Opposite
    <2>4. BookKey(o) = ks => OppositeKey(o) = kb /\ o.Side = SideSell /\ o.Outcome = c
        BY DEF BookKey, OppositeKey, Opposite, SideBuy, SideSell
    <2>5. \A z \in Ids(book[kb]) \cup Ids(book[ks]) : orders[z].Outcome = c
        BY <2>1, <2>2 DEF BookKey
    <2>6. CASE a \in Ids(book[kb]) /\ b \in Ids(book[ks])
        <3>1. orders[a].UserID # orders[b].UserID => orders[a].Price < orders[b].Price
            BY <2>6 DEF Uncrossed
        <3>2. a \in DOMAIN orders /\ b \in DOMAIN orders
            BY <2>1, <2>2, <2>6
        <3> QED
            BY <1>2, <3>1, <3>2
    <2>7. CASE BookKey(o) = kb /\ a = x /\ b \in Ids(book[ks])
        <3>1. b \in DOMAIN orders /\ orders[b] \in Order /\ orders[b].Outcome = c
            BY <2>1, <2>2, <2>5, <2>7
        <3>2. orders[b].UserID # o.UserID
            BY <1>1, <1>2, <2>7, <3>1
        <3>3. ~CanMatch(o, orders[b])
            BY <1>4, <2>3, <2>7, <3>2
        <3>4. o.Price < orders[b].Price
            BY <1>1, <2>3, <2>7, <3>1, <3>3 DEF CanMatch, Order
        <3> QED
            BY <1>1, <1>2, <2>7, <3>1, <3>4
    <2>8. CASE BookKey(o) = ks /\ b = x /\ a \in Ids(book[kb])
        <3>1. a \in DOMAIN orders /\ orders[a] \in Order /\ orders[a].Outcome = c
            BY <2>1, <2>2, <2>5, <2>8
        <3>2. orders[a].UserID # o.UserID
            BY <1>1, <1>2, <2>8, <3>1
        <3>3. ~CanMatch(o, orders[a])
            BY <1>4, <2>4, <2>8, <3>2
        <3>4. orders[a].Price < o.Price
            BY <1>1, <2>4, <2>8, <3>1, <3>3 DEF CanMatch, Order
        <3> QED
            BY <1>1, <1>2, <2>8, <3>1, <3>4
    <2> HIDE DEF kb, ks, o, x
    <2>9. \/ a \in Ids(book[kb]) /\ b \in Ids(book[ks])
          \/ BookKey(o) = kb /\ a = x /\ b \in Ids(book[ks])
          \/ BookKey(o) = ks /\ b = x /\ a \in Ids(book[kb])
        BY <1>1, <1>4, <2>1 DEF kb, ks
    <2> QED
        BY <2>6, <2>7, <2>8, <2>9
<1> QED
    BY <1>1, <1>3, <1>4

\* No step crosses a book.
LEMMA UncrossedNext ==
    ASSUME IInv, Uncrossed, [Next]_vars
    PROVE  Uncrossed'
<1> DEFINE Resting == \A k \in BookKeys : Ids(book[k]) \subseteq DOMAIN orders
<1>1. Resting
    BY DEF IInv, RestingOK
<1>2. CASE UNCHANGED vars
    BY <1>2 DEF vars, marketVars, Uncrossed
<1>3. ASSUME NEW p \in Partitions,
             \/ \E e \in Events : CreateEvent(p, e)
             \/ \E u \in Users : UserCreated(p, u)
             \/ \E x \in OrderIds, req \in ValidOrders : RefuseOrder(p, x, req)
             \/ EmitCreated(p) \/ BeginMatch(p) \/ PublishTrade(p) \/ EmitCanceled(p)
      PROVE  Uncrossed'
    <2>1. UNCHANGED <<book, orders>>
        BY <1>3 DEF CreateEvent, UserCreated, RefuseOrder, EmitCreated, BeginMatch,
                    PublishTrade, EmitCanceled, marketVars
    <2> QED
        BY <2>1 DEF Uncrossed
<1>4. ASSUME NEW p \in Partitions, NEW x \in OrderIds, NEW req \in ValidOrders,
             AcceptOrder(p, x, req)
      PROVE  Uncrossed'
    <2>1. /\ book' = book /\ DOMAIN orders \subseteq DOMAIN orders'
          /\ \A z \in DOMAIN orders : orders'[z] = orders[z]
        BY <1>4 DEF AcceptOrder, Submitted, Store
    <2> QED
        BY <1>1, <2>1, UncrossedKept
<1>5. ASSUME NEW p \in Partitions, EmitCreatedFails(p)
      PROVE  Uncrossed'
    <2>1. /\ book' = book /\ DOMAIN orders' = DOMAIN orders \ {cur[p]}
          /\ \A z \in DOMAIN orders' : orders'[z] = orders[z]
        BY <1>5 DEF EmitCreatedFails, Without
    <2>2. \A k \in BookKeys : Ids(book[k]) \subseteq DOMAIN orders'
        BY <1>1, <1>5, <2>1, InFlightProperties DEF EmitCreatedFails, InFlightPhases
    <2> QED
        BY <2>1, <2>2, UncrossedKept
<1>6. ASSUME NEW p \in Partitions, MatchPair(p)
      PROVE  Uncrossed'
    <2>1. PICK b \in DOMAIN orders, s \in DOMAIN orders, q \in Nat, price \in Nat :
             TradesPair(p, b, s, q, price)
        BY <1>6, MatchPairEffect
    <2>2. /\ DOMAIN orders' = DOMAIN orders
          /\ \A k \in BookKeys : Ids(book'[k]) \subseteq Ids(book[k])
          /\ \A z \in DOMAIN orders :
                orders'[z].UserID = orders[z].UserID /\ orders'[z].Price = orders[z].Price
        BY <2>1 DEF TradesPair
    <2> QED
        BY <1>1, <2>2, UncrossedKept
<1>7. ASSUME NEW p \in Partitions, NEW x \in OrderIds, CancelOrder(p, x)
      PROVE  Uncrossed'
    <2>1. /\ x \in DOMAIN orders /\ DOMAIN orders' = DOMAIN orders
          /\ \A z \in DOMAIN orders :
                orders'[z].UserID = orders[z].UserID /\ orders'[z].Price = orders[z].Price
        BY <1>7, CancelEffect DEF Closes
    <2>2. BookKey(orders[x]) \in BookKeys
        BY <2>1, KeysOK DEF IInv, TypeOK
    <2>3. \A k \in BookKeys : Ids(book'[k]) \subseteq Ids(book[k])
        <3> DEFINE k == BookKey(orders[x])
        <3>1. book' = [book EXCEPT ![k] = RemoveOrder(@, x)]
            BY <1>7 DEF CancelOrder
        <3>2. Ids(RemoveOrder(book[k], x)) \subseteq Ids(book[k])
            BY <2>2, RemoveOrderIds DEF IInv, TypeOK, NoDuplicates
        <3> HIDE DEF k
        <3>3. \A j \in BookKeys : book'[j] \in {book[j], RemoveOrder(book[k], x)}
                                  /\ (j # k => book'[j] = book[j])
            BY <3>1 DEF IInv, TypeOK
        <3> QED
            BY <3>2, <3>3
    <2> QED
        BY <1>1, <2>1, <2>3, UncrossedKept
<1>8. ASSUME NEW p \in Partitions, FinishMatch(p)
      PROVE  Uncrossed'
    BY <1>8, FinishMatchUncrossed
<1> QED
    BY <1>2, <1>3, <1>4, <1>5, <1>6, <1>7, <1>8, Zenon DEF Next, Submit, Continue

\* Whatever orders, cancels and partitions interleave, no two resting orders
\* of different users are left that findCounterparty should have matched.
THEOREM NeverCrossed == Spec => []NotCrossed
<1>1. Init => Uncrossed
    BY DEF Init, Uncrossed, Ids, BookKeys, Sides
<1>2. IInv /\ Uncrossed /\ [Next]_vars => Uncrossed'
    BY UncrossedNext
<1>3. Uncrossed => NotCrossed
    <2> SUFFICES ASSUME Uncrossed, NEW e \in Events, NEW c \in Outcomes,
                        NEW i \in DOMAIN book[<<e, c, SideBuy>>],
                        NEW j \in DOMAIN book[<<e, c, SideSell>>]
                 PROVE  LET bid == orders[book[<<e, c, SideBuy>>][i]]
                            ask == orders[book[<<e, c, SideSell>>][j]]
                        IN  bid.UserID # ask.UserID => bid.Price < ask.Price
        BY DEF NotCrossed
    <2>1. /\ book[<<e, c, SideBuy>>][i] \in Ids(book[<<e, c, SideBuy>>])
          /\ book[<<e, c, SideSell>>][j] \in Ids(book[<<e, c, SideSell>>])
        BY DEF Ids
    <2> QED
        BY <2>1 DEF Uncrossed
<1> QED
    BY <1>1, <1>2, <1>3, Invariance, PTL DEF Spec

-----------------------------------------------------------------------------
(* The order of the events                                                 *)

\* The workers that hold an order by its id, from acceptance to the end of the
\* match or of the cancel, hold one that is routed to them.
RoutedOK ==
    \A p \in Partitions : pc[p] \in InFlightPhases \cup {"cancelEmit"} =>
        /\ cur[p] \in DOMAIN orders
        /\ PartitionOf[orders[cur[p]].EventID] = p

\* Every stored order has been announced, or is about to be.
AnnouncedOK ==
    \A x \in DOMAIN orders :
        x \in createdOut \/ \E p \in Partitions : pc[p] = "announce" /\ cur[p] = x

\* A cancellation is announced for an announced, canceled order.
CancelingOK ==
    \A p \in Partitions : pc[p] = "cancelEmit" =>
        cur[p] \in createdOut /\ orders[cur[p]].Status = StatusCanceled

\* An order whose cancellation is announced is stored and canceled.
CanceledOK ==
    \A x \in canceledOut : x \in DOMAIN orders /\ orders[x].Status = StatusCanceled

\* With every cancel routed by its event, nobody cancels an order in flight.
PendingOK ==
    \A p \in Partitions : pc[p] \in InFlightPhases => orders[cur[p]].Status = StatusPending

\* The orders of a trade that is still to be published are announced, not
\* announced as canceled, and routed to the worker that will publish it.
TradesOK ==
    \A p \in Partitions : \A i \in DOMAIN trades[p] :
        \A z \in {trades[p][i].OrderID, trades[p][i].MatchOrderID} :
            /\ z \in createdOut /\ z \notin canceledOut
            /\ z \in DOMAIN orders
            /\ PartitionOf[orders[z].EventID] = p

\* Only a worker that matches or publishes has trades to publish.
HoldsTradesOK ==
    \A p \in Partitions : trades[p] # << >> => pc[p] \in {"matching", "publish"}

\* The inductive invariant behind the order of the events.
StreamOK ==
    /\ RoutedOK /\ AnnouncedOK /\ CancelingOK /\ CanceledOK
    /\ PendingOK /\ TradesOK /\ HoldsTradesOK

\* Nothing has been announced when the engine starts.
LEMMA StreamInit == Init => StreamOK
    BY DEF Init, StreamOK, RoutedOK, AnnouncedOK, CancelingOK, CanceledOK, PendingOK, TradesOK,
           HoldsTradesOK, InFlightPhases

\* A worker that gets on with an order it already holds, and touches no order.
LEMMA StreamFrame ==
    ASSUME IInv, StreamOK, UNCHANGED <<orders, pc, cur, trades, createdOut, canceledOut>>
    PROVE  StreamOK'
    BY DEF StreamOK, RoutedOK, AnnouncedOK, CancelingOK, CanceledOK, PendingOK, TradesOK,
           HoldsTradesOK

\* A stored order is one that is about to be announced.
LEMMA StreamAccept ==
    ASSUME IInv, StreamOK, NEW p \in Partitions, NEW x \in OrderIds, NEW req \in ValidOrders,
           AcceptOrder(p, x, req)
    PROVE  StreamOK'
<1>1. /\ pc[p] = "idle" /\ PartitionOf[req.EventID] = p /\ x \notin DOMAIN orders
      /\ pc' = [pc EXCEPT ![p] = "announce"] /\ cur' = [cur EXCEPT ![p] = x]
      /\ UNCHANGED <<trades, createdOut, canceledOut>>
      /\ \E a : orders' = Store(x, NewOrder(req, a))
    BY DEF AcceptOrder, Submitted, Idle, Goto, historyVars
<1>2. /\ DOMAIN orders' = DOMAIN orders \cup {x}
      /\ \A z \in DOMAIN orders : orders'[z] = orders[z]
      /\ orders'[x].EventID = req.EventID /\ orders'[x].Status = StatusPending
    BY <1>1 DEF Store, NewOrder
<1>3. /\ pc'[p] = "announce" /\ cur'[p] = x
      /\ \A r \in Partitions : r # p => pc'[r] = pc[r] /\ cur'[r] = cur[r]
    BY <1>1 DEF IInv, TypeOK
<1>4. RoutedOK'
    BY <1>1, <1>2, <1>3 DEF StreamOK, RoutedOK
<1>5. AnnouncedOK'
    BY <1>1, <1>2, <1>3 DEF StreamOK, AnnouncedOK
<1>6. CancelingOK'
    BY <1>1, <1>2, <1>3 DEF StreamOK, CancelingOK, RoutedOK
<1>7. CanceledOK'
    BY <1>1, <1>2 DEF StreamOK, CanceledOK
<1>8. PendingOK'
    BY <1>1, <1>2, <1>3 DEF StreamOK, PendingOK, RoutedOK
<1>9. TradesOK'
    BY <1>1, <1>2 DEF StreamOK, TradesOK
<1>10. HoldsTradesOK'
    BY <1>1, <1>3 DEF StreamOK, HoldsTradesOK
<1> QED
    BY <1>4, <1>5, <1>6, <1>7, <1>8, <1>9, <1>10 DEF StreamOK

\* A worker that leaves the phases in which it holds an order, or goes on to
\* the next with the same one, when no order changes.
LEMMA StreamEmit ==
    ASSUME IInv, StreamOK, NEW p \in Partitions,
           EmitCreated(p) \/ BeginMatch(p) \/ EmitCanceled(p)
    PROVE  StreamOK'
<1>1. /\ orders' = orders /\ trades' = trades
      /\ \A r \in Partitions : r # p => pc'[r] = pc[r] /\ cur'[r] = cur[r]
    BY DEF EmitCreated, BeginMatch, EmitCanceled, Goto, marketVars, IInv, TypeOK
<1>2. trades[p] = << >>
    BY DEF EmitCreated, BeginMatch, EmitCanceled, StreamOK, HoldsTradesOK
<1>3. \/ pc'[p] = "idle"
      \/ pc'[p] \in {"match", "matching"} /\ pc[p] \in InFlightPhases /\ cur'[p] = cur[p]
    BY DEF EmitCreated, BeginMatch, EmitCanceled, Goto, IInv, TypeOK, InFlightPhases
<1>4. createdOut \subseteq createdOut' /\ (pc[p] = "announce" => cur[p] \in createdOut')
    BY DEF EmitCreated, BeginMatch, EmitCanceled, historyVars
<1>5. \A x \in canceledOut' \ canceledOut : pc[p] = "cancelEmit" /\ x = cur[p]
    BY DEF EmitCreated, BeginMatch, EmitCanceled, historyVars
<1>6. RoutedOK'
    BY <1>1, <1>3 DEF StreamOK, RoutedOK, InFlightPhases
<1>7. AnnouncedOK'
    BY <1>1, <1>4 DEF StreamOK, AnnouncedOK
<1>8. CancelingOK'
    BY <1>1, <1>3, <1>4 DEF StreamOK, CancelingOK
<1>9. CanceledOK'
    BY <1>1, <1>5 DEF StreamOK, CanceledOK, CancelingOK, RoutedOK
<1>10. PendingOK'
    BY <1>1, <1>3 DEF StreamOK, PendingOK, InFlightPhases
<1>11. TradesOK'
    <2> SUFFICES ASSUME NEW r \in Partitions, NEW i \in DOMAIN trades[r],
                        NEW z \in {trades[r][i].OrderID, trades[r][i].MatchOrderID}
                 PROVE  /\ z \in createdOut' /\ z \notin canceledOut'
                        /\ z \in DOMAIN orders
                        /\ PartitionOf[orders[z].EventID] = r
        BY <1>1 DEF TradesOK
    <2>1. /\ z \in createdOut /\ z \notin canceledOut
          /\ z \in DOMAIN orders
          /\ PartitionOf[orders[z].EventID] = r
        BY DEF StreamOK, TradesOK
    <2>2. r # p
        BY <1>2
    <2>3. z \notin canceledOut'
        BY <1>5, <2>1, <2>2 DEF StreamOK, RoutedOK
    <2> QED
        BY <1>4, <2>1, <2>3
<1>12. HoldsTradesOK'
    BY <1>1, <1>2 DEF StreamOK, HoldsTradesOK
<1> QED
    BY <1>6, <1>7, <1>8, <1>9, <1>10, <1>11, <1>12 DEF StreamOK

\* The undo of a failed announcement deletes an order of which nothing else
\* has been announced.
LEMMA StreamUndo ==
    ASSUME IInv, StreamOK, NEW p \in Partitions, EmitCreatedFails(p)
    PROVE  StreamOK'
<1> DEFINE x == cur[p]
<1>1. /\ pc[p] = "announce" /\ orders' = Without(x)
      /\ createdOut \subseteq createdOut' /\ trades' = trades /\ canceledOut' = canceledOut
      /\ pc' = [pc EXCEPT ![p] = "idle"] /\ cur' = [cur EXCEPT ![p] = NoOrder]
    BY DEF EmitCreatedFails, Goto
<1>2. /\ DOMAIN orders' = DOMAIN orders \ {x}
      /\ \A z \in DOMAIN orders' : orders'[z] = orders[z]
    BY <1>1 DEF Without
<1>3. /\ pc'[p] = "idle"
      /\ \A r \in Partitions : r # p => pc'[r] = pc[r] /\ cur'[r] = cur[r]
    BY <1>1 DEF IInv, TypeOK
<1>4. x \in DOMAIN orders /\ PartitionOf[orders[x].EventID] = p /\ orders[x].Status = StatusPending
    BY <1>1 DEF StreamOK, RoutedOK, PendingOK, InFlightPhases
<1>5. \A r \in Partitions :
         pc[r] \in InFlightPhases \cup {"cancelEmit"} /\ cur[r] = x => r = p
    BY <1>4 DEF StreamOK, RoutedOK
<1>6. trades[p] = << >>
    BY <1>1 DEF StreamOK, HoldsTradesOK
<1> HIDE DEF x
<1>7. RoutedOK'
    BY <1>2, <1>3, <1>5 DEF StreamOK, RoutedOK, InFlightPhases
<1>8. AnnouncedOK'
    BY <1>1, <1>2, <1>3 DEF StreamOK, AnnouncedOK, x
<1>9. CancelingOK'
    BY <1>1, <1>2, <1>3, <1>5 DEF StreamOK, CancelingOK, RoutedOK
<1>10. CanceledOK'
    BY <1>1, <1>2, <1>4 DEF StreamOK, CanceledOK, StatusPending, StatusCanceled
<1>11. PendingOK'
    BY <1>2, <1>3, <1>5 DEF StreamOK, PendingOK, RoutedOK, InFlightPhases
<1>12. TradesOK'
    BY <1>1, <1>2, <1>4, <1>6 DEF StreamOK, TradesOK
<1>13. HoldsTradesOK'
    BY <1>1, <1>3, <1>6 DEF StreamOK, HoldsTradesOK
<1> QED
    BY <1>7, <1>8, <1>9, <1>10, <1>11, <1>12, <1>13 DEF StreamOK

\* A trade is of orders that are announced and not canceled: the one being
\* matched, and one that rests on a book.
LEMMA StreamMatch ==
    ASSUME IInv, IInv', StreamOK, NEW p \in Partitions, MatchPair(p)
    PROVE  StreamOK'
<1>1. PICK b \in DOMAIN orders, s \in DOMAIN orders, q \in Nat, price \in Nat :
         TradesPair(p, b, s, q, price)
    BY MatchPairEffect
<1>2. /\ pc[p] = "matching" /\ cur[p] \in {b, s} /\ b # s
      /\ Open(orders[b]) /\ Open(orders[s])
      /\ orders[b].EventID = orders[s].EventID
      /\ \A z \in {b, s} : z # cur[p] => ~InFlight(z)
      /\ UNCHANGED <<pc, cur, createdOut, canceledOut>>
    BY <1>1 DEF TradesPair
<1>3. /\ DOMAIN orders' = DOMAIN orders
      /\ \A z \in DOMAIN orders : orders'[z].EventID = orders[z].EventID
      /\ \A z \in DOMAIN orders : z \notin {b, s} => orders'[z] = orders[z]
    BY <1>1 DEF TradesPair
<1>4. PICK t \in Trade : /\ trades' = [trades EXCEPT ![p] = Append(@, t)]
                         /\ {t.OrderID, t.MatchOrderID} = {b, s}
    BY <1>1 DEF TradesPair
<1>5. /\ trades[p] \in Seq(Trade) /\ trades'[p] = Append(trades[p], t)
      /\ \A r \in Partitions : r # p => trades'[r] = trades[r]
    BY <1>4 DEF IInv, TypeOK
<1>6. \A z \in {b, s} : orders[z].Status # StatusCanceled
    BY <1>2 DEF Open, StatusPending, StatusPartial, StatusCanceled
<1>7. \A z \in {b, s} : z \in createdOut /\ z \notin canceledOut
    <2>1. \A z \in {b, s} : z \notin canceledOut
        BY <1>6 DEF StreamOK, CanceledOK
    <2>2. \A z \in {b, s} : \A r \in Partitions : ~(pc[r] = "announce" /\ cur[r] = z)
        BY <1>2, InFlightProperties DEF InFlight, InFlightPhases
    <2> QED
        BY <2>1, <2>2 DEF StreamOK, AnnouncedOK
<1>8. \A z \in {b, s} : PartitionOf[orders[z].EventID] = p
    BY <1>2 DEF StreamOK, RoutedOK, InFlightPhases
<1>9. RoutedOK'
    BY <1>2, <1>3 DEF StreamOK, RoutedOK
<1>10. AnnouncedOK'
    BY <1>2, <1>3 DEF StreamOK, AnnouncedOK
<1>11. CancelingOK'
    BY <1>2, <1>3, <1>6 DEF StreamOK, CancelingOK, RoutedOK
<1>12. CanceledOK'
    BY <1>2, <1>3, <1>6 DEF StreamOK, CanceledOK
<1>13. PendingOK'
    <2> SUFFICES ASSUME NEW r \in Partitions, pc[r] \in InFlightPhases
                 PROVE  orders'[cur[r]].Status = StatusPending
        BY <1>2 DEF PendingOK
    <2>1. CASE r = p
        BY <1>2, <2>1 DEF IInv, WorkersOK, InFlightOK, InFlightPhases
    <2>2. CASE r # p
        <3>1. cur[r] \notin {b, s}
            BY <1>2, <2>2, InFlightProperties DEF InFlight, InFlightPhases
        <3> QED
            BY <1>3, <3>1 DEF StreamOK, PendingOK, RoutedOK
    <2> QED
        BY <2>1, <2>2
<1>14. TradesOK'
    <2> SUFFICES ASSUME NEW r \in Partitions, NEW i \in DOMAIN trades'[r],
                        NEW z \in {trades'[r][i].OrderID, trades'[r][i].MatchOrderID}
                 PROVE  /\ z \in createdOut /\ z \notin canceledOut
                        /\ z \in DOMAIN orders
                        /\ PartitionOf[orders[z].EventID] = r
        BY <1>2, <1>3 DEF TradesOK
    <2>1. CASE r # p \/ i \in DOMAIN trades[p]
        <3>1. i \in DOMAIN trades[r] /\ trades'[r][i] = trades[r][i]
            BY <1>5, <2>1
        <3> QED
            BY <3>1 DEF StreamOK, TradesOK
    <2>2. CASE r = p /\ i \notin DOMAIN trades[p]
        <3>1. trades'[r][i] = t
            BY <1>5, <2>2
        <3>2. z \in {b, s}
            BY <1>4, <3>1
        <3> QED
            BY <1>7, <1>8, <2>2, <3>2
    <2> QED
        BY <2>1, <2>2
<1>15. HoldsTradesOK'
    BY <1>2, <1>5 DEF StreamOK, HoldsTradesOK
<1> QED
    BY <1>9, <1>10, <1>11, <1>12, <1>13, <1>14, <1>15 DEF StreamOK

\* When the match is over the order is let go of, and its trades are kept.
LEMMA StreamFinish ==
    ASSUME IInv, StreamOK, NEW p \in Partitions, FinishMatch(p)
    PROVE  StreamOK'
<1> DEFINE x == cur[p]
<1>1. /\ pc[p] = "matching" /\ UNCHANGED <<trades, createdOut, canceledOut>>
      /\ \A r \in Partitions : r # p => pc'[r] = pc[r] /\ cur'[r] = cur[r]
      /\ pc'[p] = IF trades[p] = << >> THEN "idle" ELSE "publish"
    BY DEF FinishMatch, Goto, historyVars, IInv, TypeOK
<1>2. /\ x \in DOMAIN orders
      /\ DOMAIN orders' = DOMAIN orders
      /\ \A z \in DOMAIN orders : orders'[z].EventID = orders[z].EventID
      /\ \A z \in DOMAIN orders : z # x => orders'[z] = orders[z]
    BY FinishMatchEffect DEF Closes
<1>3. orders[x].Status = StatusPending
    BY <1>1 DEF StreamOK, PendingOK, InFlightPhases
<1>4. \A r \in Partitions :
         r # p /\ pc[r] \in InFlightPhases \cup {"cancelEmit"} => cur[r] # x
    BY <1>1 DEF StreamOK, RoutedOK, InFlightPhases
<1> HIDE DEF x
<1>5. RoutedOK'
    BY <1>1, <1>2 DEF StreamOK, RoutedOK, InFlightPhases
<1>6. AnnouncedOK'
    BY <1>1, <1>2 DEF StreamOK, AnnouncedOK
<1>7. CancelingOK'
    BY <1>1, <1>2, <1>4 DEF StreamOK, CancelingOK, RoutedOK
<1>8. CanceledOK'
    BY <1>1, <1>2, <1>3 DEF StreamOK, CanceledOK, StatusPending, StatusCanceled
<1>9. PendingOK'
    BY <1>1, <1>2, <1>4 DEF StreamOK, PendingOK, RoutedOK, InFlightPhases
<1>10. TradesOK'
    BY <1>1, <1>2 DEF StreamOK, TradesOK
<1>11. HoldsTradesOK'
    BY <1>1 DEF StreamOK, HoldsTradesOK
<1> QED
    BY <1>5, <1>6, <1>7, <1>8, <1>9, <1>10, <1>11 DEF StreamOK

\* Publishing takes the first trade away.
LEMMA StreamPublish ==
    ASSUME IInv, StreamOK, NEW p \in Partitions, PublishTrade(p)
    PROVE  StreamOK'
<1>1. /\ pc[p] = "publish" /\ UNCHANGED <<orders, createdOut, canceledOut>>
      /\ trades' = [trades EXCEPT ![p] = Tail(@)]
      /\ \A r \in Partitions : r # p => pc'[r] = pc[r] /\ cur'[r] = cur[r]
      /\ IF Len(trades[p]) = 1 THEN pc'[p] = "idle" ELSE pc'[p] = "publish"
    BY DEF PublishTrade, Goto, marketVars, historyVars, IInv, TypeOK
<1>2. trades[p] \in Seq(Trade) /\ trades[p] # << >>
    BY <1>1 DEF IInv, TypeOK, WorkersOK, PublishOK
<1>3. /\ Len(Tail(trades[p])) = Len(trades[p]) - 1
      /\ DOMAIN Tail(trades[p]) = 1 .. (Len(trades[p]) - 1)
      /\ \A i \in 1 .. (Len(trades[p]) - 1) : Tail(trades[p])[i] = trades[p][i + 1]
    BY <1>2
<1>4. /\ trades'[p] = Tail(trades[p])
      /\ \A r \in Partitions : r # p => trades'[r] = trades[r]
    BY <1>1 DEF IInv, TypeOK
<1>5. RoutedOK'
    BY <1>1 DEF StreamOK, RoutedOK, InFlightPhases
<1>6. AnnouncedOK' /\ CanceledOK'
    BY <1>1 DEF StreamOK, AnnouncedOK, CanceledOK
<1>7. CancelingOK'
    BY <1>1 DEF StreamOK, CancelingOK
<1>8. PendingOK'
    BY <1>1 DEF StreamOK, PendingOK, InFlightPhases
<1>9. \A r \in Partitions : \A i \in DOMAIN trades'[r] :
         \E j \in DOMAIN trades[r] : trades'[r][i] = trades[r][j]
    <2> SUFFICES ASSUME NEW r \in Partitions, NEW i \in DOMAIN trades'[r]
                 PROVE  \E j \in DOMAIN trades[r] : trades'[r][i] = trades[r][j]
        OBVIOUS
    <2>1. CASE r # p
        BY <1>4, <2>1
    <2>2. CASE r = p
        <3>1. i \in 1 .. (Len(trades[p]) - 1) /\ i + 1 \in DOMAIN trades[p]
            <4> DEFINE n == Len(trades[p])
            <4>1. n \in Nat /\ DOMAIN trades[p] = 1 .. n
                BY <1>2
            <4>2. i \in 1 .. (n - 1)
                BY <1>3, <1>4, <2>2
            <4> HIDE DEF n
            <4>3. i + 1 \in 1 .. n
                BY <4>1, <4>2
            <4> QED
                BY <4>1, <4>2, <4>3 DEF n
        <3> QED
            BY <1>3, <1>4, <2>2, <3>1
    <2> QED
        BY <2>1, <2>2
<1>10. TradesOK'
    <2> SUFFICES ASSUME NEW r \in Partitions, NEW i \in DOMAIN trades'[r],
                        NEW z \in {trades'[r][i].OrderID, trades'[r][i].MatchOrderID}
                 PROVE  /\ z \in createdOut /\ z \notin canceledOut
                        /\ z \in DOMAIN orders
                        /\ PartitionOf[orders[z].EventID] = r
        BY <1>1 DEF TradesOK
    <2>1. PICK j \in DOMAIN trades[r] : trades'[r][i] = trades[r][j]
        BY <1>9
    <2> QED
        BY <2>1 DEF StreamOK, TradesOK
<1>11. HoldsTradesOK'
    <2>1. Len(trades[p]) = 1 => Tail(trades[p]) = << >>
        BY <1>2, <1>3
    <2> QED
        BY <1>1, <1>4, <2>1 DEF StreamOK, HoldsTradesOK
<1> QED
    BY <1>5, <1>6, <1>7, <1>8, <1>10, <1>11 DEF StreamOK

\* A cancel that is routed by its event finds no order in flight, because the
\* worker that would have it in flight is the one that handles the cancel.
LEMMA StreamCancel ==
    ASSUME IInv, StreamOK, ~UnroutedCancels,
           NEW p \in Partitions, NEW x \in OrderIds, CancelOrder(p, x)
    PROVE  StreamOK'
<1>1. /\ pc[p] = "idle" /\ x \in DOMAIN orders /\ p = PartitionOf[orders[x].EventID]
      /\ orders' = [orders EXCEPT ![x].Status = StatusCanceled,
                                  ![x].LockedFunds = IF @ > 0 THEN 0 ELSE @]
      /\ UNCHANGED <<trades, createdOut, canceledOut>>
      /\ pc'[p] = "cancelEmit" /\ cur'[p] = x
      /\ \A r \in Partitions : r # p => pc'[r] = pc[r] /\ cur'[r] = cur[r]
    BY DEF CancelOrder, Idle, Goto, historyVars, IInv, TypeOK
<1>2. /\ DOMAIN orders' = DOMAIN orders
      /\ \A z \in DOMAIN orders : orders'[z].EventID = orders[z].EventID
      /\ \A z \in DOMAIN orders : z # x => orders'[z] = orders[z]
    BY CancelEffect DEF Closes
<1>3. orders'[x].Status = StatusCanceled
    BY <1>1 DEF IInv, TypeOK, Order
<1>4. \A r \in Partitions : r # p => ~(pc[r] \in InFlightPhases \cup {"cancelEmit"} /\ cur[r] = x)
    BY <1>1 DEF StreamOK, RoutedOK
<1>5. x \in createdOut
    BY <1>1, <1>4 DEF StreamOK, AnnouncedOK, InFlightPhases
<1>6. RoutedOK'
    BY <1>1, <1>2 DEF StreamOK, RoutedOK
<1>7. AnnouncedOK'
    BY <1>1, <1>2, <1>5 DEF StreamOK, AnnouncedOK
<1>8. CancelingOK'
    BY <1>1, <1>2, <1>3, <1>4, <1>5 DEF StreamOK, CancelingOK, RoutedOK
<1>9. CanceledOK'
    BY <1>1, <1>2, <1>3 DEF StreamOK, CanceledOK
<1>10. PendingOK'
    BY <1>1, <1>2, <1>4 DEF StreamOK, PendingOK, RoutedOK, InFlightPhases
<1>11. TradesOK'
    BY <1>1, <1>2 DEF StreamOK, TradesOK
<1>12. HoldsTradesOK'
    BY <1>1 DEF StreamOK, HoldsTradesOK
<1> QED
    BY <1>6, <1>7, <1>8, <1>9, <1>10, <1>11, <1>12 DEF StreamOK

\* Every step keeps the invariant.
LEMMA StreamNext ==
    ASSUME IInv, IInv', StreamOK, ~UnroutedCancels, [Next]_vars
    PROVE  StreamOK'
<1>1. CASE UNCHANGED vars
    BY <1>1, StreamFrame DEF vars, marketVars, workerVars, historyVars
<1>2. ASSUME NEW p \in Partitions,
             \/ \E e \in Events : CreateEvent(p, e)
             \/ \E u \in Users : UserCreated(p, u)
             \/ \E x \in OrderIds, req \in ValidOrders : RefuseOrder(p, x, req)
      PROVE  StreamOK'
    <2>1. UNCHANGED <<orders, pc, cur, trades, createdOut, canceledOut>>
        BY <1>2 DEF CreateEvent, UserCreated, RefuseOrder, marketVars, workerVars, historyVars
    <2> QED
        BY <2>1, StreamFrame
<1>3. ASSUME NEW p \in Partitions, NEW x \in OrderIds, NEW req \in ValidOrders,
             AcceptOrder(p, x, req)
      PROVE  StreamOK'
    BY <1>3, StreamAccept
<1>4. ASSUME NEW p \in Partitions, EmitCreated(p) \/ BeginMatch(p) \/ EmitCanceled(p)
      PROVE  StreamOK'
    BY <1>4, StreamEmit
<1>5. ASSUME NEW p \in Partitions, EmitCreatedFails(p) PROVE StreamOK'
    BY <1>5, StreamUndo
<1>6. ASSUME NEW p \in Partitions, MatchPair(p) PROVE StreamOK'
    BY <1>6, StreamMatch
<1>7. ASSUME NEW p \in Partitions, FinishMatch(p) PROVE StreamOK'
    BY <1>7, StreamFinish
<1>8. ASSUME NEW p \in Partitions, PublishTrade(p) PROVE StreamOK'
    BY <1>8, StreamPublish
<1>9. ASSUME NEW p \in Partitions, NEW x \in OrderIds, CancelOrder(p, x) PROVE StreamOK'
    BY <1>9, StreamCancel
<1> QED
    BY <1>1, <1>2, <1>3, <1>4, <1>5, <1>6, <1>7, <1>8, <1>9, Zenon DEF Next, Submit, Continue

\* Only publishing a trade takes one away, and only emitEventP(ORDER_CANCELED)
\* announces a cancellation.
LEMMA StreamGrows ==
    ASSUME IInv, [Next]_vars
    PROVE  /\ \A p \in Partitions : Len(trades'[p]) < Len(trades[p]) => trades[p] # << >>
           /\ \A x \in canceledOut' \ canceledOut :
                 \E p \in Partitions : pc[p] = "cancelEmit" /\ cur[p] = x
<1>1. ASSUME NEW p \in Partitions, Len(trades'[p]) < Len(trades[p]), trades[p] = << >>
      PROVE  FALSE
    <2>1. trades'[p] \in Seq(Trade)
        BY NextOK DEF IInv, TypeOK
    <2> QED
        BY <1>1, <2>1
<1>2. ASSUME NEW x \in canceledOut' \ canceledOut
      PROVE  \E p \in Partitions : pc[p] = "cancelEmit" /\ cur[p] = x
    <2>1. PICK p \in Partitions : EmitCanceled(p)
        BY <1>2 DEF Next, Submit, Continue, CreateEvent, UserCreated, AcceptOrder, RefuseOrder,
                    EmitCreated, EmitCreatedFails, BeginMatch, MatchPair, FinishMatch,
                    PublishTrade, CancelOrder, vars, historyVars
    <2> QED
        BY <1>2, <2>1 DEF EmitCanceled
<1> QED
    BY <1>1, <1>2

\* As long as every cancel carries its event, the stream sees ORDER_CREATED
\* ahead of every TRADE_EXECUTED and ORDER_CANCELED of an order, and no trade
\* of an order behind its ORDER_CANCELED, whichever emits fail.
THEOREM EventsAlwaysInOrder ==
    ASSUME ~UnroutedCancels
    PROVE  Spec => EventsInOrder
<1>1. Init => StreamOK
    BY StreamInit
<1>2. IInv /\ IInv' /\ StreamOK /\ [Next]_vars => StreamOK'
    BY StreamNext
<1>3. IInv /\ StreamOK /\ [Next]_vars =>
         [/\ \A p \in Partitions :
               Len(trades'[p]) < Len(trades[p]) =>
                   LET t == Head(trades[p])
                   IN  /\ {t.OrderID, t.MatchOrderID} \subseteq createdOut
                       /\ {t.OrderID, t.MatchOrderID} \cap canceledOut = {}
          /\ canceledOut' \ canceledOut \subseteq createdOut]_vars
    <2> SUFFICES ASSUME IInv, StreamOK, [Next]_vars
                 PROVE  /\ \A p \in Partitions :
                             Len(trades'[p]) < Len(trades[p]) =>
                                 LET t == Head(trades[p])
                                 IN  /\ {t.OrderID, t.MatchOrderID} \subseteq createdOut
                                     /\ {t.OrderID, t.MatchOrderID} \cap canceledOut = {}
                        /\ canceledOut' \ canceledOut \subseteq createdOut
        OBVIOUS
    <2>1. ASSUME NEW p \in Partitions, Len(trades'[p]) < Len(trades[p]),
                 NEW z \in {Head(trades[p]).OrderID, Head(trades[p]).MatchOrderID}
          PROVE  z \in createdOut /\ z \notin canceledOut
        <3>1. trades[p] # << >> /\ trades[p] \in Seq(Trade)
            BY <2>1, StreamGrows DEF IInv, TypeOK
        <3>2. 1 \in DOMAIN trades[p] /\ Head(trades[p]) = trades[p][1]
            BY <3>1
        <3> QED
            BY <2>1, <3>2 DEF StreamOK, TradesOK
    <2>2. ASSUME NEW x \in canceledOut' \ canceledOut PROVE x \in createdOut
        BY <2>2, StreamGrows DEF StreamOK, CancelingOK
    <2> QED
        BY <2>1, <2>2
<1> QED
    BY <1>1, <1>2, <1>3, Invariance, PTL DEF Spec, EventsInOrder

-----------------------------------------------------------------------------
(* The ledger: every open order is paid for, what a user has reserved is   *)
(* what the user's orders have frozen, and neither cash nor shares appear  *)
(* or disappear.                                                           *)

\* No order costs more than a machine integer holds. (Engine wraps products
\* the way the code does; where they wrap, nothing below is true.)
NoOverflow == \A q \in Quantities, r \in Prices : q * r <= MaxInt

\* Every BUY carries a limit price. A MARKET buy freezes the cash there is and
\* not the cash it will need.
LimitBuys == BuyTypes \subseteq {OrderTypeLimit}

-----------------------------------------------------------------------------
(* Arithmetic                                                              *)

\* A product that a machine integer holds is not wrapped.
LEMMA Int64Exact ==
    ASSUME NEW x \in Nat, x <= MaxInt
    PROVE  Int64(x) = x
    BY AmountsAssumption DEF Int64

\* Products of natural numbers are natural numbers, and grow with either factor.
LEMMA TimesNat ==
    ASSUME NEW a \in Nat, NEW b \in Nat
    PROVE  a * b \in Nat
    OBVIOUS

\* Products of natural numbers grow with either factor.
LEMMA TimesMonotone ==
    ASSUME NEW a \in Nat, NEW b \in Nat, NEW c \in Nat, NEW d \in Nat, a <= b, c <= d
    PROVE  a * c <= b * d
<1>1. a * c <= b * c
    OBVIOUS
<1>2. b * c <= b * d
    OBVIOUS
<1>3. a * c \in Int /\ b * c \in Int /\ b * d \in Int
    OBVIOUS
<1> QED
    BY <1>1, <1>2, <1>3

\* Multiplication distributes over a difference.
LEMMA TimesMinus ==
    ASSUME NEW a \in Int, NEW b \in Int, NEW c \in Int
    PROVE  (a - b) * c = a * c - b * c
    OBVIOUS

-----------------------------------------------------------------------------
(* Every open order is paid for                                            *)

\* What validateOrder and reserveOrderLocked let into the order map.
OrdersOK ==
    \A x \in DOMAIN orders :
        LET o == orders[x]
        IN  /\ o.Quantity \in Quantities
            /\ o.OrderType = OrderTypeLimit => o.Price \in Prices
            /\ o.OrderType # OrderTypeLimit => o.Price = 0
            /\ o.Side = SideBuy => o.OrderType \in BuyTypes
            /\ o.LockedFunds >= 0

\* A holding that is in debt neither way.
InCredit(h) == h.Available >= 0 /\ h.Reserved >= 0

\* Nobody owes anything: no balance and no position is below zero.
NoDebt ==
    /\ \A u \in Users : InCredit(balance[u])
    /\ \A k \in PositionKeys : InCredit(position[k])

\* What is inductive about funds, given the invariant of Engine.
Solvent == OrdersOK /\ NoDebt /\ FundsCovered

\* A holding stays in credit.
LEMMA CreditOps ==
    ASSUME NEW h \in Holding, InCredit(h), NEW x \in Nat
    PROVE  /\ x <= h.Available => InCredit(Reserve(h, x))
           /\ InCredit(Release(h, x))
           /\ InCredit(Spend(h, x))
           /\ InCredit(Receive(h, x))
    BY DEF InCredit, Holding, Reserve, Release, Spend, Receive, AtLeastZero

\* What an order that passes validateOrder freezes.
LEMMA AcceptedAmount ==
    ASSUME NoOverflow, TypeOK, NoDebt, NEW req \in ValidOrders, NEW a,
           a = ReserveAmount(NewOrder(req, 0))
    PROVE  /\ a \in Nat
           /\ req.Side = SideSell => a = req.Quantity
           /\ req.Side # SideSell => a >= req.Quantity * req.Price
<1>1. /\ req.UserID \in Users /\ req.Side \in Sides /\ req.OrderType \in OrderTypes
      /\ req.Price \in Nat /\ req.Quantity \in Nat \ {0}
    BY ValidOrdersFields
<1>2. /\ req.Quantity \in Quantities
      /\ req.OrderType = OrderTypeMarket <=> req.Price = 0
      /\ req.Price = 0 \/ req.Price \in Prices
    BY DEF ValidOrders
<1>3. a = CASE req.Side = SideSell -> req.Quantity
            [] req.Side = SideBuy /\ req.OrderType = OrderTypeMarket ->
                  balance[req.UserID].Available
            [] OTHER -> Int64(req.Quantity * req.Price)
    BY DEF ReserveAmount, NewOrder
<1>4. CASE req.Side = SideSell
    BY <1>1, <1>3, <1>4 DEF SideBuy, SideSell
<1>5. CASE req.Side # SideSell /\ req.OrderType = OrderTypeMarket
    <2>1. a = balance[req.UserID].Available
        BY <1>1, <1>3, <1>5 DEF Sides
    <2>2. a \in Nat
        BY <1>1, <2>1 DEF TypeOK, Holding, NoDebt, InCredit
    <2>3. req.Quantity * req.Price = 0
        BY <1>1, <1>2, <1>5
    <2> QED
        BY <1>5, <2>2, <2>3
<1>6. CASE req.Side # SideSell /\ req.OrderType # OrderTypeMarket
    <2>1. a = Int64(req.Quantity * req.Price)
        BY <1>3, <1>6
    <2>2. req.Quantity * req.Price <= MaxInt /\ req.Quantity * req.Price \in Nat
        <3>1. req.Price \in Prices
            BY <1>2, <1>6
        <3>2. req.Quantity * req.Price <= MaxInt
            BY <1>2, <3>1 DEF NoOverflow
        <3>3. req.Quantity * req.Price \in Nat
            BY <1>1, TimesNat
        <3> QED
            BY <3>2, <3>3
    <2>3. a = req.Quantity * req.Price
        BY <2>1, <2>2, Int64Exact
    <2> QED
        BY <1>6, <2>2, <2>3
<1> QED
    BY <1>4, <1>5, <1>6

\* A trade costs what it says, and both sides have frozen enough for it.
LEMMA TradeCovered ==
    ASSUME NoOverflow, IInv, Solvent, NEW p \in Partitions, NEW b \in DOMAIN orders,
           NEW s \in DOMAIN orders, NEW q \in Nat, NEW price \in Nat,
           TradesPair(p, b, s, q, price)
    PROVE  /\ Int64(q * price) = q * price
           /\ q * price \in Nat
           /\ orders[s].LockedFunds = orders[s].RemainingQuantity
           /\ orders[b].LockedFunds >= orders[b].RemainingQuantity * orders[b].Price
           /\ orders[b].OrderType = OrderTypeLimit => q * price <= orders[b].LockedFunds
<1>1. /\ orders[b] \in Order /\ orders[s] \in Order
      /\ q <= orders[b].RemainingQuantity /\ q <= orders[s].RemainingQuantity
      /\ Open(orders[b]) /\ Open(orders[s])
      /\ orders[b].Side = SideBuy /\ orders[s].Side = SideSell
      /\ \/ price = orders[b].Price /\ orders[b].OrderType = OrderTypeLimit
         \/ price = orders[s].Price /\ orders[s].OrderType = OrderTypeLimit
      /\ orders[b].OrderType = OrderTypeLimit => price <= orders[b].Price
    BY DEF TradesPair
<1>2. q * price \in Nat
    BY TimesNat
<1>3. PICK z \in {b, s} : price = orders[z].Price /\ orders[z].OrderType = OrderTypeLimit
    BY <1>1
<1>4. /\ orders[z].Quantity \in Quantities /\ price \in Prices
      /\ orders[z].Quantity \in Nat /\ q <= orders[z].Quantity
    <2>1. orders[z].FilledQuantity + orders[z].RemainingQuantity = orders[z].Quantity
        BY DEF IInv, FillsAccounted
    <2>2. /\ orders[z].FilledQuantity \in Nat /\ orders[z].RemainingQuantity \in Nat
          /\ orders[z].Quantity \in Nat
        BY <1>1 DEF Order
    <2>3. q <= orders[z].RemainingQuantity
        BY <1>1
    <2> QED
        BY <1>3, <2>1, <2>2, <2>3 DEF Solvent, OrdersOK
<1>5. q * price <= orders[z].Quantity * price
    BY <1>4, TimesMonotone
<1>6. orders[z].Quantity * price <= MaxInt
    BY <1>4 DEF NoOverflow
<1>7. Int64(q * price) = q * price
    <2>1. orders[z].Quantity * price \in Nat
        BY <1>4, TimesNat
    <2>2. q * price <= MaxInt
        BY <1>2, <1>5, <1>6, <2>1, AmountsAssumption
    <2> QED
        BY <1>2, <2>2, Int64Exact
<1>8. /\ orders[s].LockedFunds = orders[s].RemainingQuantity
      /\ orders[b].LockedFunds >= orders[b].RemainingQuantity * orders[b].Price
    BY <1>1 DEF Solvent, FundsCovered, SideBuy, SideSell
<1>9. ASSUME orders[b].OrderType = OrderTypeLimit PROVE q * price <= orders[b].LockedFunds
    <2>1. orders[b].RemainingQuantity \in Nat /\ orders[b].Price \in Nat
          /\ orders[b].LockedFunds \in Int
        BY <1>1 DEF Order
    <2>2. q * price <= orders[b].RemainingQuantity * orders[b].Price
        BY <1>1, <1>9, <2>1, TimesMonotone
    <2>3. orders[b].RemainingQuantity * orders[b].Price \in Int
        BY <2>1
    <2> QED
        BY <1>2, <1>8, <2>1, <2>2, <2>3
<1> QED
    BY <1>2, <1>7, <1>8, <1>9

\* There are no orders at the start, and nobody is in debt.
LEMMA SolventInit == Init => Solvent
<1> SUFFICES ASSUME Init PROVE Solvent
    OBVIOUS
<1>1. DOMAIN orders = {}
    BY DEF Init
<1>2. NoDebt
    BY AmountsAssumption DEF Init, NoDebt, InCredit, Zero
<1> QED
    BY <1>1, <1>2 DEF Solvent, OrdersOK, FundsCovered

\* An accepted order freezes what it may cost, and its owner has that much.
LEMMA SolventAccept ==
    ASSUME NoOverflow, IInv, Solvent, NEW p \in Partitions, NEW x \in OrderIds,
           NEW req \in ValidOrders, AcceptOrder(p, x, req)
    PROVE  Solvent'
<1> DEFINE o == NewOrder(req, 0)
           a == ReserveAmount(o)
           new == NewOrder(req, a)
<1>1. /\ x \notin DOMAIN orders /\ orders' = Store(x, new) /\ a <= AvailableFor(o)
      /\ IF o.Side = SideBuy
         THEN /\ balance' = [balance EXCEPT ![o.UserID] = Reserve(@, a)]
              /\ UNCHANGED position
         ELSE /\ position' = [position EXCEPT ![PositionKey(o)] = Reserve(@, a)]
              /\ UNCHANGED balance
    BY DEF AcceptOrder, Submitted
<1>2. /\ a \in Nat
      /\ req.Side = SideSell => a = req.Quantity
      /\ req.Side # SideSell => a >= req.Quantity * req.Price
    BY AcceptedAmount DEF IInv, Solvent
<1>3. /\ new.Quantity = req.Quantity /\ new.RemainingQuantity = req.Quantity
      /\ new.OrderType = req.OrderType /\ new.Price = req.Price /\ new.Side = req.Side
      /\ new.LockedFunds = a
      /\ o.Side = req.Side /\ o.UserID = req.UserID
    BY DEF NewOrder
<1>4. /\ o.UserID \in Users /\ PositionKey(o) \in PositionKeys
    BY <1>3, NewOrderType, ValidOrdersFields
<1>5. /\ req.Quantity \in Quantities
      /\ req.OrderType = OrderTypeLimit => req.Price \in Prices
      /\ req.OrderType # OrderTypeLimit => req.Price = 0
      /\ req.Side = SideBuy => req.OrderType \in BuyTypes
    BY DEF ValidOrders, OrderTypes, OrderTypeLimit, OrderTypeMarket
<1> HIDE DEF o, a, new
<1>6. /\ DOMAIN orders' = DOMAIN orders \cup {x} /\ orders'[x] = new
      /\ \A z \in DOMAIN orders : orders'[z] = orders[z]
    BY <1>1 DEF Store
<1>7. OrdersOK'
    BY <1>2, <1>3, <1>5, <1>6 DEF Solvent, OrdersOK
<1>8. NoDebt'
    <2>1. CASE o.Side = SideBuy
        <3>1. a <= balance[o.UserID].Available /\ balance[o.UserID] \in Holding
              /\ InCredit(balance[o.UserID])
            BY <1>1, <1>4, <2>1 DEF AvailableFor, IInv, TypeOK, Solvent, NoDebt
        <3>2. InCredit(Reserve(balance[o.UserID], a))
            BY <1>2, <3>1, CreditOps
        <3> QED
            BY <1>1, <2>1, <3>2 DEF IInv, TypeOK, Solvent, NoDebt, InCredit
    <2>2. CASE o.Side # SideBuy
        <3>1. a <= position[PositionKey(o)].Available /\ position[PositionKey(o)] \in Holding
              /\ InCredit(position[PositionKey(o)])
            BY <1>1, <1>4, <2>2 DEF AvailableFor, IInv, TypeOK, Solvent, NoDebt
        <3>2. InCredit(Reserve(position[PositionKey(o)], a))
            BY <1>2, <3>1, CreditOps
        <3> QED
            BY <1>1, <2>2, <3>2 DEF IInv, TypeOK, Solvent, NoDebt, InCredit
    <2> QED
        BY <2>1, <2>2
<1>9. FundsCovered'
    BY <1>2, <1>3, <1>6 DEF Solvent, FundsCovered, Open
<1> QED
    BY <1>7, <1>8, <1>9 DEF Solvent

\* A trade leaves both orders enough for the rest of them: what a fill costs is
\* at most its share of what is frozen.
LEMMA SolventTrade ==
    ASSUME NoOverflow, IInv, Solvent, NEW p \in Partitions, NEW b \in DOMAIN orders,
           NEW s \in DOMAIN orders, NEW q \in Nat, NEW price \in Nat,
           TradesPair(p, b, s, q, price)
    PROVE  Solvent'
<1> DEFINE cost == q * price
           L == orders[b].LockedFunds
           R == orders[b].RemainingQuantity
           P == orders[b].Price
<1>1. /\ Int64(q * price) = cost /\ cost \in Nat
      /\ orders[s].LockedFunds = orders[s].RemainingQuantity
      /\ L >= R * P
      /\ orders[b].OrderType = OrderTypeLimit => cost <= L
    BY TradeCovered
<1>2. /\ orders[b] \in Order /\ orders[s] \in Order /\ b # s
      /\ orders[b].Side = SideBuy /\ orders[s].Side = SideSell
      /\ q \in Nat /\ q <= R /\ q <= orders[s].RemainingQuantity
      /\ orders[b].OrderType = OrderTypeLimit => price <= P
      /\ DOMAIN orders' = DOMAIN orders
      /\ \A z \in DOMAIN orders : z # b /\ z # s => orders'[z] = orders[z]
      /\ \A z \in {b, s} :
          /\ orders'[z].Side = orders[z].Side
          /\ orders'[z].OrderType = orders[z].OrderType
          /\ orders'[z].Price = orders[z].Price
          /\ orders'[z].Quantity = orders[z].Quantity
          /\ orders'[z].RemainingQuantity = orders[z].RemainingQuantity - q
      /\ orders'[b].LockedFunds = AtLeastZero(L - cost)
      /\ orders'[s].LockedFunds = AtLeastZero(orders[s].LockedFunds - q)
    BY <1>1 DEF TradesPair
<1>3. balance' = [balance EXCEPT ![orders[b].UserID] = Spend(@, cost),
                                 ![orders[s].UserID] = Receive(@, cost)]
    BY <1>1 DEF TradesPair
<1>4. position' = [position EXCEPT ![PositionKey(orders[b])] = Receive(@, q),
                                   ![PositionKey(orders[s])] = Spend(@, q)]
    BY DEF TradesPair
<1>5. /\ orders[b].UserID \in Users /\ orders[s].UserID \in Users
      /\ PositionKey(orders[b]) \in PositionKeys /\ PositionKey(orders[s]) \in PositionKeys
    BY <1>2 DEF Order, PositionKey, PositionKeys
<1>6. /\ L \in Int /\ R \in Nat /\ P \in Nat
      /\ orders[s].LockedFunds \in Int /\ orders[s].RemainingQuantity \in Nat
    BY <1>2 DEF Order
<1>7. AtLeastZero(L - cost) >= (R - q) * P
    <2>1. CASE orders[b].OrderType = OrderTypeLimit
        <3>1. cost <= q * P
            BY <1>2, <1>6, <2>1, TimesMonotone
        <3>2. (R - q) * P = R * P - q * P
            BY <1>2, <1>6, TimesMinus
        <3>3. R * P \in Int /\ q * P \in Int
            BY <1>6
        <3> HIDE DEF cost, L, R, P
        <3>4. L - cost >= R * P - q * P
            BY <1>1, <1>6, <3>1, <3>3
        <3> QED
            BY <1>1, <1>6, <2>1, <3>2, <3>4 DEF AtLeastZero
    <2>2. CASE orders[b].OrderType # OrderTypeLimit
        <3>1. P = 0
            BY <2>2 DEF Solvent, OrdersOK
        <3>2. (R - q) * P = 0
            BY <1>2, <1>6, <3>1
        <3>3. AtLeastZero(L - cost) >= 0
            <4> HIDE DEF cost, L
            <4> QED
                BY <1>1, <1>6 DEF AtLeastZero
        <3> QED
            BY <3>2, <3>3
    <2> QED
        BY <2>1, <2>2
<1>8. AtLeastZero(L - cost) >= 0 /\ AtLeastZero(L - cost) \in Int
    <2> HIDE DEF cost, L
    <2> QED
        BY <1>1, <1>6 DEF AtLeastZero
<1>9. /\ AtLeastZero(orders[s].LockedFunds - q) = orders[s].RemainingQuantity - q
      /\ AtLeastZero(orders[s].LockedFunds - q) >= 0
    BY <1>1, <1>2, <1>6 DEF AtLeastZero
<1> HIDE DEF cost, L
<1>10. OrdersOK'
    <2> SUFFICES ASSUME NEW z \in DOMAIN orders PROVE OrdersOK!(z)'
        BY <1>2 DEF OrdersOK
    <2>1. OrdersOK!(z)
        BY DEF Solvent, OrdersOK
    <2>2. CASE z \in {b, s}
        BY <1>2, <1>8, <1>9, <2>1, <2>2
    <2>3. CASE z \notin {b, s}
        BY <1>2, <2>1, <2>3
    <2> QED
        BY <2>2, <2>3
<1>11. NoDebt'
    <2>1. /\ \A h \in Holding : InCredit(h) =>
                InCredit(Spend(h, cost)) /\ InCredit(Receive(h, cost))
          /\ \A h \in Holding : Spend(h, cost) \in Holding /\ Receive(h, cost) \in Holding
          /\ \A h \in Holding : InCredit(h) => InCredit(Spend(h, q)) /\ InCredit(Receive(h, q))
          /\ \A h \in Holding : Spend(h, q) \in Holding /\ Receive(h, q) \in Holding
        BY <1>1, <1>2, CreditOps, HoldingOps
    <2>2. \A u \in Users : InCredit(balance'[u])
        BY <1>3, <1>5, <2>1 DEF IInv, TypeOK, Solvent, NoDebt
    <2>3. \A k \in PositionKeys : InCredit(position'[k])
        BY <1>4, <1>5, <2>1 DEF IInv, TypeOK, Solvent, NoDebt
    <2> QED
        BY <2>2, <2>3 DEF NoDebt, InCredit
<1>12. FundsCovered'
    <2> SUFFICES ASSUME NEW z \in DOMAIN orders, Open(orders'[z])
                 PROVE  IF orders'[z].Side = SideSell
                        THEN orders'[z].LockedFunds = orders'[z].RemainingQuantity
                        ELSE orders'[z].LockedFunds
                               >= orders'[z].RemainingQuantity * orders'[z].Price
        BY <1>2 DEF FundsCovered
    <2>1. CASE z = b
        BY <1>2, <1>7, <2>1 DEF SideBuy, SideSell
    <2>2. CASE z = s
        BY <1>2, <1>9, <2>2
    <2>3. CASE z # b /\ z # s
        BY <1>2, <2>3 DEF Solvent, FundsCovered
    <2> QED
        BY <2>1, <2>2, <2>3
<1> QED
    BY <1>10, <1>11, <1>12 DEF Solvent

\* Whoever closes an order gives back no more than it had frozen.
LEMMA SolventClose ==
    ASSUME NoOverflow, IInv, Solvent, NEW x \in DOMAIN orders, Closes(x)
    PROVE  Solvent'
<1> DEFINE o == orders[x]
<1>1. o \in Order /\ o.LockedFunds >= 0 /\ Open(o)
    BY DEF Closes, Solvent, OrdersOK
<1>2. DOMAIN orders' = DOMAIN orders /\ \A z \in DOMAIN orders : z # x => orders'[z] = orders[z]
    BY DEF Closes
<1>3. /\ orders'[x].Side = o.Side
      /\ orders'[x].OrderType = o.OrderType
      /\ orders'[x].Price = o.Price
      /\ orders'[x].Quantity = o.Quantity
      /\ orders'[x].RemainingQuantity = o.RemainingQuantity
      /\ \/ orders'[x].LockedFunds = o.LockedFunds
         \/ orders'[x].LockedFunds = 0 /\ ~Open(orders'[x])
    BY DEF Closes
<1>4. OrdersOK'
    <2> SUFFICES ASSUME NEW z \in DOMAIN orders PROVE OrdersOK!(z)'
        BY <1>2 DEF OrdersOK
    <2>1. OrdersOK!(z)
        BY DEF Solvent, OrdersOK
    <2>2. CASE z = x
        BY <1>3, <2>1, <2>2
    <2>3. CASE z # x
        BY <1>2, <2>1, <2>3
    <2> QED
        BY <2>2, <2>3
<1>5. NoDebt'
    <2>1. CASE UNCHANGED <<balance, position>>
        BY <2>1 DEF Solvent, NoDebt
    <2>2. CASE ReleaseOrder(o)
        <3>1. /\ \A h \in Holding : InCredit(h) => InCredit(Release(h, o.LockedFunds))
            <4>1. o.LockedFunds \in Nat
                BY <1>1 DEF Order
            <4> QED
                BY <4>1, CreditOps
        <3>2. o.UserID \in Users /\ PositionKey(o) \in PositionKeys
            BY <1>1 DEF Order, PositionKey, PositionKeys
        <3> HIDE DEF o
        <3>3. \A u \in Users : InCredit(balance'[u])
            BY <2>2, <3>1, <3>2 DEF ReleaseOrder, IInv, TypeOK, Solvent, NoDebt
        <3>4. \A k \in PositionKeys : InCredit(position'[k])
            BY <2>2, <3>1, <3>2 DEF ReleaseOrder, IInv, TypeOK, Solvent, NoDebt
        <3> QED
            BY <3>3, <3>4 DEF NoDebt, InCredit
    <2> QED
        BY <2>1, <2>2 DEF Closes
<1>6. FundsCovered'
    <2> SUFFICES ASSUME NEW z \in DOMAIN orders, Open(orders'[z])
                 PROVE  IF orders'[z].Side = SideSell
                        THEN orders'[z].LockedFunds = orders'[z].RemainingQuantity
                        ELSE orders'[z].LockedFunds
                               >= orders'[z].RemainingQuantity * orders'[z].Price
        BY <1>2 DEF FundsCovered
    <2>1. CASE z = x
        BY <1>1, <1>3, <2>1 DEF Solvent, FundsCovered
    <2>2. CASE z # x
        BY <1>2, <2>2 DEF Solvent, FundsCovered
    <2> QED
        BY <2>1, <2>2
<1> QED
    BY <1>4, <1>5, <1>6 DEF Solvent

\* Every step keeps funds covered.
LEMMA SolventNext == NoOverflow /\ IInv /\ Solvent /\ [Next]_vars => Solvent'
<1> SUFFICES ASSUME NoOverflow, IInv, Solvent, [Next]_vars PROVE Solvent'
    OBVIOUS
<1>1. CASE Quiet
    BY <1>1 DEF Quiet, Solvent, OrdersOK, NoDebt, InCredit, FundsCovered, Open
<1>2. ASSUME NEW p \in Partitions, NEW u \in Users, UserCreated(p, u) PROVE Solvent'
    <2>1. NoDebt'
        BY <1>2, AmountsAssumption DEF UserCreated, IInv, TypeOK, Solvent, NoDebt, InCredit, Zero
    <2> QED
        BY <1>2, <2>1 DEF UserCreated, marketVars, Solvent, OrdersOK, FundsCovered, Open
<1>3. ASSUME NEW p \in Partitions, NEW x \in OrderIds, NEW req \in ValidOrders,
             RefuseOrder(p, x, req)
      PROVE  Solvent'
    BY <1>3 DEF RefuseOrder, marketVars, Solvent, OrdersOK, NoDebt, InCredit, FundsCovered, Open
<1>4. ASSUME NEW p \in Partitions, EmitCreatedFails(p) PROVE Solvent'
    BY <1>4 DEF EmitCreatedFails, Without, ledgerVars, Solvent, OrdersOK, NoDebt, InCredit,
            FundsCovered, Open
<1> QED
    BY <1>1, <1>2, <1>3, <1>4, LedgerSteps, SolventAccept, SolventTrade, SolventClose

\* Whatever the workers do, an open order has frozen what it may still have to
\* hand over (reserveOrderLocked, settleTradeLocked), and nobody's cash or
\* shares go below zero.
THEOREM SolventAlways ==
    ASSUME NoOverflow
    PROVE  Spec => [](IInv /\ Solvent)
<1>1. Init => IInv /\ Solvent
    BY InitOK, SolventInit
<1>2. IInv /\ Solvent /\ [Next]_vars => (IInv /\ Solvent)'
    BY NextOK, SolventNext
<1> QED
    BY <1>1, <1>2, PTL DEF Spec

\* FundsCovered in every reachable state: a match never finds an order that
\* cannot pay, so the clamps of settleTradeLocked never hide a shortfall.
THEOREM FundsAlwaysCovered ==
    ASSUME NoOverflow
    PROVE  Spec => []FundsCovered
<1>1. Solvent => FundsCovered
    BY DEF Solvent
<1> QED
    BY <1>1, SolventAlways, PTL

-----------------------------------------------------------------------------
(* What is reserved is what the orders have frozen                         *)

\* Locked, for any order map.
Locks(o, S) == SumFunctionOnSet([x \in S |-> o[x].LockedFunds], S)

\* Locked is Locks of the engine's order map.
LEMMA LockedIsLocks ==
    /\ \A u : Locked(BuysOf(u)) = Locks(orders, BuysOf(u))
    /\ \A k : Locked(SellsAt(k)) = Locks(orders, SellsAt(k))
    BY DEF Locked, Locks

\* Orders that freeze the same amounts.
LEMMA LocksSame ==
    ASSUME NEW o, NEW n, NEW S, IsFiniteSet(S),
           \A x \in S : n[x].LockedFunds = o[x].LockedFunds
    PROVE  Locks(n, S) = Locks(o, S)
<1> DEFINE f == [x \in S |-> o[x].LockedFunds]
           g == [x \in S |-> n[x].LockedFunds]
<1>1. \A x \in S : g[x] = f[x]
    OBVIOUS
<1>2. Locks(n, S) = SumFunctionOnSet(g, S) /\ Locks(o, S) = SumFunctionOnSet(f, S)
    BY DEF Locks
<1> HIDE DEF f, g
<1> QED
    BY <1>1, <1>2, SumCong

\* One order freezes another amount.
LEMMA LocksChange ==
    ASSUME NEW o, NEW n, NEW S, IsFiniteSet(S), NEW x \in S,
           \A y \in S : o[y].LockedFunds \in Int /\ n[y].LockedFunds \in Int,
           \A y \in S : y # x => n[y].LockedFunds = o[y].LockedFunds
    PROVE  Locks(n, S) = Locks(o, S) + (n[x].LockedFunds - o[x].LockedFunds)
<1> DEFINE f == [y \in S |-> o[y].LockedFunds]
           g == [y \in S |-> n[y].LockedFunds]
<1>1. /\ \A y \in S : f[y] \in Int /\ g[y] \in Int
      /\ \A y \in S : y # x => g[y] = f[y]
      /\ f[x] = o[x].LockedFunds /\ g[x] = n[x].LockedFunds
    OBVIOUS
<1>2. Locks(n, S) = SumFunctionOnSet(g, S) /\ Locks(o, S) = SumFunctionOnSet(f, S)
    BY DEF Locks
<1> HIDE DEF f, g
<1>3. SumFunctionOnSet(g, S) = SumFunctionOnSet(f, S) + (g[x] - f[x])
    BY <1>1, SumChange
<1> QED
    BY <1>1, <1>2, <1>3

\* One more order.
LEMMA LocksAdd ==
    ASSUME NEW o, NEW n, NEW S, IsFiniteSet(S), NEW x, x \notin S,
           n[x].LockedFunds \in Int,
           \A y \in S : o[y].LockedFunds \in Int /\ n[y].LockedFunds = o[y].LockedFunds
    PROVE  Locks(n, S \cup {x}) = Locks(o, S) + n[x].LockedFunds
<1> DEFINE f == [y \in S |-> o[y].LockedFunds]
           g == [y \in S \cup {x} |-> n[y].LockedFunds]
<1>1. /\ \A y \in S : g[y] = f[y]
      /\ \A y \in S : f[y] \in Int
      /\ \A y \in S \cup {x} : g[y] \in Int
      /\ g[x] = n[x].LockedFunds
    OBVIOUS
<1>2. Locks(n, S \cup {x}) = SumFunctionOnSet(g, S \cup {x})
      /\ Locks(o, S) = SumFunctionOnSet(f, S)
    BY DEF Locks
<1> HIDE DEF f, g
<1>3. SumFunctionOnSet(g, S \cup {x}) = g[x] + SumFunctionOnSet(g, S)
    BY <1>1, SumAdd
<1>4. SumFunctionOnSet(g, S) = SumFunctionOnSet(f, S)
    BY <1>1, SumCong
<1>5. SumFunctionOnSet(f, S) \in Int /\ g[x] \in Int
    BY <1>1, SumInt
<1> QED
    BY <1>1, <1>2, <1>3, <1>4, <1>5

\* Together they freeze at least what each of them freezes.
LEMMA LocksBound ==
    ASSUME NEW o, NEW S, IsFiniteSet(S), \A y \in S : o[y].LockedFunds \in Nat
    PROVE  /\ Locks(o, S) \in Nat
           /\ \A x \in S : o[x].LockedFunds <= Locks(o, S)
<1> DEFINE f == [y \in S |-> o[y].LockedFunds]
<1>1. \A y \in S : f[y] \in Nat /\ f[y] = o[y].LockedFunds
    OBVIOUS
<1>2. Locks(o, S) = SumFunctionOnSet(f, S)
    BY DEF Locks
<1> HIDE DEF f
<1> QED
    BY <1>1, <1>2, SumNat, SumBounds

\* What a user has reserved beyond what orders freeze, in cash and in shares.
CashSlack(u) == balance[u].Reserved - Locks(orders, BuysOf(u))
ShareSlack(k) == position[k].Reserved - Locks(orders, SellsAt(k))

\* Only an undo of handleCreateOrderCore, after a failed emit, leaves slack.
SlackOK ==
    /\ \A u \in Users : CashSlack(u) >= 0 /\ (~RedisFails => CashSlack(u) = 0)
    /\ \A k \in PositionKeys : ShareSlack(k) >= 0 /\ (~RedisFails => ShareSlack(k) = 0)

\* Whoever has a BUY order has an account, and nobody else has cash.
AccountsOK ==
    /\ \A x \in DOMAIN orders : orders[x].Side = SideBuy => orders[x].UserID \in accounts
    /\ \A u \in Users \ accounts : balance[u] = Zero

\* What is inductive about reservations, given IInv and Solvent.
Backed ==
    /\ IsFiniteSet(DOMAIN orders)
    /\ AccountsOK
    /\ SlackOK

\* A step that keeps every slack keeps SlackOK.
LEMMA SlackKept ==
    ASSUME SlackOK,
           \A u \in Users : CashSlack(u)' = CashSlack(u),
           \A k \in PositionKeys : ShareSlack(k)' = ShareSlack(k)
    PROVE  SlackOK'
<1> HIDE DEF CashSlack, ShareSlack
<1> QED
    BY DEF SlackOK

\* The facts of the three invariants that the steps below need: types, and that
\* no order freezes more than its owner has reserved.
LEMMA BackedFacts ==
    ASSUME IInv, Solvent, Backed
    PROVE  /\ \A u : IsFiniteSet(BuysOf(u)) /\ BuysOf(u) \subseteq DOMAIN orders
           /\ \A k : IsFiniteSet(SellsAt(k)) /\ SellsAt(k) \subseteq DOMAIN orders
           /\ \A x \in DOMAIN orders : orders[x] \in Order /\ orders[x].LockedFunds \in Nat
           /\ \A u : Locks(orders, BuysOf(u)) \in Nat
           /\ \A k : Locks(orders, SellsAt(k)) \in Nat
           /\ \A u \in Users : balance[u] \in Holding /\ balance[u].Reserved \in Int
           /\ \A k \in PositionKeys : position[k] \in Holding /\ position[k].Reserved \in Int
           /\ \A u \in Users : \A x \in BuysOf(u) : orders[x].LockedFunds <= balance[u].Reserved
           /\ \A k \in PositionKeys : \A x \in SellsAt(k) :
                 orders[x].LockedFunds <= position[k].Reserved
<1>1. /\ \A u : IsFiniteSet(BuysOf(u)) /\ BuysOf(u) \subseteq DOMAIN orders
      /\ \A k : IsFiniteSet(SellsAt(k)) /\ SellsAt(k) \subseteq DOMAIN orders
    <2>1. /\ \A u : BuysOf(u) \subseteq DOMAIN orders
          /\ \A k : SellsAt(k) \subseteq DOMAIN orders
        BY DEF BuysOf, SellsAt
    <2> QED
        BY <2>1, FS_Subset DEF Backed
<1>2. \A x \in DOMAIN orders : orders[x] \in Order /\ orders[x].LockedFunds \in Nat
    BY DEF IInv, TypeOK, Solvent, OrdersOK, Order
<1>3. \A u : /\ Locks(orders, BuysOf(u)) \in Nat
             /\ \A x \in BuysOf(u) : orders[x].LockedFunds <= Locks(orders, BuysOf(u))
    BY <1>1, <1>2, LocksBound
<1>4. \A k : /\ Locks(orders, SellsAt(k)) \in Nat
             /\ \A x \in SellsAt(k) : orders[x].LockedFunds <= Locks(orders, SellsAt(k))
    BY <1>1, <1>2, LocksBound
<1>5. /\ \A u \in Users : balance[u] \in Holding /\ balance[u].Reserved \in Int
      /\ \A k \in PositionKeys : position[k] \in Holding /\ position[k].Reserved \in Int
    BY DEF IInv, TypeOK, Holding
<1>6. ASSUME NEW u \in Users, NEW x \in BuysOf(u)
      PROVE  orders[x].LockedFunds <= balance[u].Reserved
    <2>1. balance[u].Reserved - Locks(orders, BuysOf(u)) >= 0
        BY DEF Backed, SlackOK, CashSlack
    <2>2. orders[x].LockedFunds \in Nat
        BY <1>1, <1>2
    <2> QED
        BY <1>3, <1>5, <2>1, <2>2
<1>7. ASSUME NEW k \in PositionKeys, NEW x \in SellsAt(k)
      PROVE  orders[x].LockedFunds <= position[k].Reserved
    <2>1. position[k].Reserved - Locks(orders, SellsAt(k)) >= 0
        BY DEF Backed, SlackOK, ShareSlack
    <2>2. orders[x].LockedFunds \in Nat
        BY <1>1, <1>2
    <2> QED
        BY <1>4, <1>5, <2>1, <2>2
<1> QED
    BY <1>1, <1>2, <1>3, <1>4, <1>5, <1>6, <1>7

\* Nothing is reserved at the start.
LEMMA BackedInit == Init => Backed
<1> SUFFICES ASSUME Init PROVE Backed
    OBVIOUS
<1>1. DOMAIN orders = {} /\ IsFiniteSet({})
    BY FS_EmptySet DEF Init
<1>2. /\ \A u : BuysOf(u) = {}
      /\ \A k : SellsAt(k) = {}
    BY <1>1 DEF BuysOf, SellsAt
<1>3. Locks(orders, {}) = 0
    BY <1>1, SumRecursion DEF Locks
<1>4. /\ \A u \in Users : balance[u].Reserved = 0
      /\ \A k \in PositionKeys : position[k].Reserved = 0
    BY DEF Init, Zero
<1>5. /\ \A u \in Users : CashSlack(u) = 0
      /\ \A k \in PositionKeys : ShareSlack(k) = 0
    <2>1. ASSUME NEW u \in Users PROVE CashSlack(u) = 0
        <3>1. Locks(orders, BuysOf(u)) = 0 /\ balance[u].Reserved = 0
            BY <1>2, <1>3, <1>4, Zenon
        <3> QED
            BY <3>1 DEF CashSlack
    <2>2. ASSUME NEW k \in PositionKeys PROVE ShareSlack(k) = 0
        <3>1. Locks(orders, SellsAt(k)) = 0 /\ position[k].Reserved = 0
            BY <1>2, <1>3, <1>4, Zenon
        <3> QED
            BY <3>1 DEF ShareSlack
    <2> QED
        BY <2>1, <2>2
<1>6. SlackOK
    BY <1>5 DEF SlackOK
<1> QED
    BY <1>1, <1>6 DEF Backed, AccountsOK, Init

\* An accepted order reserves what it freezes.
LEMMA BackedAccept ==
    ASSUME NoOverflow, IInv, Solvent, Backed, NEW p \in Partitions, NEW x \in OrderIds,
           NEW req \in ValidOrders, AcceptOrder(p, x, req)
    PROVE  Backed'
<1> DEFINE o == NewOrder(req, 0)
           a == ReserveAmount(o)
           new == NewOrder(req, a)
<1>1. /\ x \notin DOMAIN orders /\ orders' = Store(x, new)
      /\ accounts' = accounts \cup Touch(o)
      /\ IF o.Side = SideBuy
         THEN /\ balance' = [balance EXCEPT ![o.UserID] = Reserve(@, a)]
              /\ UNCHANGED position
         ELSE /\ position' = [position EXCEPT ![PositionKey(o)] = Reserve(@, a)]
              /\ UNCHANGED balance
    BY DEF AcceptOrder, Submitted
<1>2. a \in Nat
    BY AcceptedAmount DEF IInv, Solvent
<1>3. /\ new.Side = o.Side /\ new.UserID = o.UserID /\ PositionKey(new) = PositionKey(o)
      /\ new.LockedFunds = a
    BY DEF NewOrder, PositionKey
<1>4. /\ o.UserID \in Users /\ PositionKey(o) \in PositionKeys /\ o.Side \in Sides
    BY NewOrderType, ValidOrdersFields DEF NewOrder
<1> HIDE DEF o, a, new
<1>5. /\ DOMAIN orders' = DOMAIN orders \cup {x} /\ orders'[x] = new
      /\ \A z \in DOMAIN orders : orders'[z] = orders[z]
    BY <1>1 DEF Store
<1>6. IsFiniteSet(DOMAIN orders')
    BY <1>5, FS_AddElement DEF Backed
<1>7. AccountsOK'
    <2>1. \A u \in Users \ accounts' : balance'[u] = Zero
        BY <1>1, <1>4 DEF Backed, AccountsOK, Touch, IInv, TypeOK
    <2> QED
        BY <1>1, <1>3, <1>5, <2>1 DEF Backed, AccountsOK, Touch
<1>8. ASSUME NEW u \in Users PROVE CashSlack(u)' = CashSlack(u)
    <2>1. /\ IsFiniteSet(BuysOf(u)) /\ BuysOf(u) \subseteq DOMAIN orders
          /\ Locks(orders, BuysOf(u)) \in Nat /\ balance[u].Reserved \in Int
          /\ \A y \in BuysOf(u) : orders[y].LockedFunds \in Int
        BY BackedFacts
    <2>2. CASE o.Side = SideBuy /\ o.UserID = u
        <3>1. BuysOf(u)' = BuysOf(u) \cup {x}
            BY <1>3, <1>5, <2>2 DEF BuysOf
        <3>2. Locks(orders', BuysOf(u) \cup {x}) = Locks(orders, BuysOf(u)) + a
            BY <1>1, <1>2, <1>3, <1>5, <2>1, LocksAdd
        <3>3. balance'[u].Reserved = balance[u].Reserved + a
            BY <1>1, <2>2 DEF Reserve, IInv, TypeOK
        <3> QED
            BY <1>2, <2>1, <3>1, <3>2, <3>3 DEF CashSlack
    <2>3. CASE ~(o.Side = SideBuy /\ o.UserID = u)
        <3>1. BuysOf(u)' = BuysOf(u)
            BY <1>1, <1>3, <1>5, <2>3 DEF BuysOf
        <3>2. Locks(orders', BuysOf(u)) = Locks(orders, BuysOf(u))
            BY <1>5, <2>1, LocksSame
        <3>3. balance'[u].Reserved = balance[u].Reserved
            BY <1>1, <2>3 DEF IInv, TypeOK
        <3> QED
            BY <3>1, <3>2, <3>3 DEF CashSlack
    <2> QED
        BY <2>2, <2>3
<1>9. ASSUME NEW k \in PositionKeys PROVE ShareSlack(k)' = ShareSlack(k)
    <2>1. /\ IsFiniteSet(SellsAt(k)) /\ SellsAt(k) \subseteq DOMAIN orders
          /\ Locks(orders, SellsAt(k)) \in Nat /\ position[k].Reserved \in Int
          /\ \A y \in SellsAt(k) : orders[y].LockedFunds \in Int
        BY BackedFacts
    <2>2. CASE o.Side = SideSell /\ PositionKey(o) = k
        <3>1. SellsAt(k)' = SellsAt(k) \cup {x}
            BY <1>3, <1>5, <2>2 DEF SellsAt, PositionKey
        <3>2. Locks(orders', SellsAt(k) \cup {x}) = Locks(orders, SellsAt(k)) + a
            BY <1>1, <1>2, <1>3, <1>5, <2>1, LocksAdd
        <3>3. position'[k].Reserved = position[k].Reserved + a
            BY <1>1, <2>2 DEF Reserve, IInv, TypeOK, SideBuy, SideSell
        <3> QED
            BY <1>2, <2>1, <3>1, <3>2, <3>3 DEF ShareSlack
    <2>3. CASE ~(o.Side = SideSell /\ PositionKey(o) = k)
        <3>1. SellsAt(k)' = SellsAt(k)
            BY <1>1, <1>3, <1>5, <2>3 DEF SellsAt, PositionKey
        <3>2. Locks(orders', SellsAt(k)) = Locks(orders, SellsAt(k))
            BY <1>5, <2>1, LocksSame
        <3>3. position'[k].Reserved = position[k].Reserved
            BY <1>1, <1>4, <2>3 DEF IInv, TypeOK, Sides
        <3> QED
            BY <3>1, <3>2, <3>3 DEF ShareSlack
    <2> QED
        BY <2>2, <2>3
<1>10. SlackOK'
    BY <1>8, <1>9, SlackKept DEF Backed
<1> QED
    BY <1>6, <1>7, <1>10 DEF Backed

\* A trade takes from the reservations what the two orders freeze less.
LEMMA BackedTrade ==
    ASSUME NoOverflow, LimitBuys, IInv, Solvent, Backed, NEW p \in Partitions,
           NEW b \in DOMAIN orders, NEW s \in DOMAIN orders, NEW q \in Nat,
           NEW price \in Nat, TradesPair(p, b, s, q, price)
    PROVE  Backed'
<1> DEFINE cost == q * price
           buyer == orders[b].UserID
           seller == orders[s].UserID
           bk == PositionKey(orders[b])
           sk == PositionKey(orders[s])
<1>1. /\ b # s /\ orders[b].Side = SideBuy /\ orders[s].Side = SideSell
      /\ q <= orders[s].RemainingQuantity
      /\ DOMAIN orders' = DOMAIN orders
      /\ orders'[b] \in Order /\ orders'[s] \in Order
      /\ \A z \in DOMAIN orders : z # b /\ z # s => orders'[z] = orders[z]
      /\ \A z \in {b, s} :
          /\ orders'[z].UserID = orders[z].UserID
          /\ orders'[z].EventID = orders[z].EventID
          /\ orders'[z].Outcome = orders[z].Outcome
          /\ orders'[z].Side = orders[z].Side
      /\ accounts' = accounts \cup {buyer, seller}
      /\ position' = [position EXCEPT ![bk] = Receive(@, q), ![sk] = Spend(@, q)]
    BY DEF TradesPair
<1>2. /\ Int64(q * price) = cost /\ cost \in Nat
      /\ orders[s].LockedFunds = orders[s].RemainingQuantity
      /\ cost <= orders[b].LockedFunds
    <2>1. orders[b].OrderType = OrderTypeLimit
        BY <1>1 DEF Solvent, OrdersOK, LimitBuys
    <2> QED
        BY <2>1, TradeCovered
<1>3. /\ balance' = [balance EXCEPT ![buyer] = Spend(@, cost), ![seller] = Receive(@, cost)]
      /\ orders'[b].LockedFunds = AtLeastZero(orders[b].LockedFunds - cost)
      /\ orders'[s].LockedFunds = AtLeastZero(orders[s].LockedFunds - q)
    BY <1>2 DEF TradesPair
<1>4. /\ buyer \in Users /\ seller \in Users /\ bk \in PositionKeys /\ sk \in PositionKeys
      /\ orders[b].LockedFunds \in Nat /\ orders[s].LockedFunds \in Nat
    <2>1. orders[b] \in Order /\ orders[s] \in Order
        BY BackedFacts
    <2> QED
        BY <2>1, BackedFacts DEF Order, PositionKey, PositionKeys
<1>5. /\ orders'[b].LockedFunds = orders[b].LockedFunds - cost
      /\ orders'[s].LockedFunds = orders[s].LockedFunds - q
      /\ orders'[b].LockedFunds \in Int /\ orders'[s].LockedFunds \in Int
    <2> HIDE DEF cost
    <2> QED
        BY <1>1, <1>2, <1>3, <1>4 DEF AtLeastZero
<1>6. /\ \A u : BuysOf(u)' = BuysOf(u)
      /\ \A k : SellsAt(k)' = SellsAt(k)
    BY <1>1 DEF BuysOf, SellsAt, PositionKey
<1> HIDE DEF cost
<1>7. AccountsOK'
    <2>1. \A u \in Users \ accounts' : balance'[u] = Zero
        BY <1>1, <1>3, <1>4 DEF Backed, AccountsOK, IInv, TypeOK
    <2>2. \A z \in DOMAIN orders : /\ orders'[z].Side = orders[z].Side
                                   /\ orders'[z].UserID = orders[z].UserID
        BY <1>1
    <2> QED
        BY <1>1, <2>1, <2>2 DEF Backed, AccountsOK
<1>8. ASSUME NEW u \in Users PROVE CashSlack(u)' = CashSlack(u)
    <2>1. /\ IsFiniteSet(BuysOf(u)) /\ BuysOf(u) \subseteq DOMAIN orders
          /\ Locks(orders, BuysOf(u)) \in Nat /\ balance[u] \in Holding
          /\ balance[u].Reserved \in Int
          /\ \A y \in BuysOf(u) : orders[y].LockedFunds \in Int
          /\ \A y \in BuysOf(u) : orders[y].LockedFunds <= balance[u].Reserved
        BY BackedFacts
    <2>2. s \notin BuysOf(u)
        BY <1>1 DEF BuysOf, SideBuy, SideSell
    <2>3. CASE u = buyer
        <3>1. b \in BuysOf(u)
            BY <1>1, <2>3 DEF BuysOf
        <3>2. \A y \in BuysOf(u) : orders'[y].LockedFunds \in Int
            BY <1>1, <1>5, <2>1, <2>2
        <3>3. Locks(orders', BuysOf(u)) = Locks(orders, BuysOf(u)) - cost
            <4>1. Locks(orders', BuysOf(u))
                    = Locks(orders, BuysOf(u)) + (orders'[b].LockedFunds - orders[b].LockedFunds)
                BY <1>1, <2>1, <2>2, <3>1, <3>2, LocksChange
            <4> QED
                BY <1>2, <1>4, <1>5, <2>1, <4>1
        <3>4. cost <= balance[u].Reserved
            BY <1>2, <1>4, <2>1, <3>1
        <3>5. balance'[u].Reserved = AtLeastZero(balance[u].Reserved - cost)
            BY <1>3, <1>4, <2>3 DEF Spend, Receive, IInv, TypeOK
        <3>6. balance'[u].Reserved = balance[u].Reserved - cost
            BY <1>2, <2>1, <3>4, <3>5 DEF AtLeastZero
        <3> QED
            BY <1>2, <1>6, <2>1, <3>3, <3>6 DEF CashSlack
    <2>4. CASE u # buyer
        <3>1. b \notin BuysOf(u)
            BY <2>4 DEF BuysOf
        <3>2. Locks(orders', BuysOf(u)) = Locks(orders, BuysOf(u))
            BY <1>1, <2>1, <2>2, <3>1, LocksSame
        <3>3. balance'[u].Reserved = balance[u].Reserved
            BY <1>3, <1>4, <2>4 DEF Receive, IInv, TypeOK
        <3> QED
            BY <1>6, <3>2, <3>3 DEF CashSlack
    <2> QED
        BY <2>3, <2>4
<1>9. ASSUME NEW k \in PositionKeys PROVE ShareSlack(k)' = ShareSlack(k)
    <2>1. /\ IsFiniteSet(SellsAt(k)) /\ SellsAt(k) \subseteq DOMAIN orders
          /\ Locks(orders, SellsAt(k)) \in Nat /\ position[k] \in Holding
          /\ position[k].Reserved \in Int
          /\ \A y \in SellsAt(k) : orders[y].LockedFunds \in Int
          /\ \A y \in SellsAt(k) : orders[y].LockedFunds <= position[k].Reserved
        BY BackedFacts
    <2>2. b \notin SellsAt(k)
        BY <1>1 DEF SellsAt, SideBuy, SideSell
    <2> HIDE DEF sk, bk
    <2>3. CASE k = sk
        <3>1. s \in SellsAt(k)
            BY <1>1, <2>3 DEF SellsAt, sk
        <3>2. \A y \in SellsAt(k) : orders'[y].LockedFunds \in Int
            BY <1>1, <1>5, <2>1, <2>2
        <3>3. Locks(orders', SellsAt(k)) = Locks(orders, SellsAt(k)) - q
            <4>1. Locks(orders', SellsAt(k))
                    = Locks(orders, SellsAt(k)) + (orders'[s].LockedFunds - orders[s].LockedFunds)
                BY <1>1, <2>1, <2>2, <3>1, <3>2, LocksChange
            <4> QED
                BY <1>4, <1>5, <2>1, <4>1
        <3>4. q <= position[k].Reserved
            BY <1>1, <1>2, <1>4, <2>1, <3>1
        <3>5. position'[k].Reserved = AtLeastZero(position[k].Reserved - q)
            BY <1>1, <1>4, <2>3 DEF Spend, Receive, IInv, TypeOK
        <3>6. position'[k].Reserved = position[k].Reserved - q
            BY <2>1, <3>4, <3>5 DEF AtLeastZero
        <3> QED
            BY <1>6, <2>1, <3>3, <3>6 DEF ShareSlack
    <2>4. CASE k # sk
        <3>1. s \notin SellsAt(k)
            BY <2>4 DEF SellsAt, sk
        <3>2. Locks(orders', SellsAt(k)) = Locks(orders, SellsAt(k))
            BY <1>1, <2>1, <2>2, <3>1, LocksSame
        <3>3. position'[k].Reserved = position[k].Reserved
            BY <1>1, <1>4, <2>4 DEF Receive, IInv, TypeOK
        <3> QED
            BY <1>6, <3>2, <3>3 DEF ShareSlack
    <2> QED
        BY <2>3, <2>4
<1>10. SlackOK'
    BY <1>8, <1>9, SlackKept DEF Backed
<1> QED
    BY <1>1, <1>7, <1>10 DEF Backed

\* A closed order gives back what it freezes, once.
LEMMA BackedClose ==
    ASSUME IInv, Solvent, Backed, NEW x \in DOMAIN orders, Closes(x)
    PROVE  Backed'
<1> DEFINE o == orders[x]
           l == o.LockedFunds
<1>1. /\ o \in Order /\ l \in Nat
      /\ DOMAIN orders' = DOMAIN orders
      /\ \A z \in DOMAIN orders : z # x => orders'[z] = orders[z]
      /\ orders'[x].UserID = o.UserID /\ orders'[x].EventID = o.EventID
      /\ orders'[x].Outcome = o.Outcome /\ orders'[x].Side = o.Side
      /\ \/ orders'[x].LockedFunds = 0 /\ ReleaseOrder(o)
         \/ orders'[x].LockedFunds = l /\ UNCHANGED <<balance, position>>
      /\ accounts' = accounts
    BY BackedFacts DEF Closes
<1>2. /\ o.UserID \in Users /\ PositionKey(o) \in PositionKeys /\ o.Side \in Sides
    BY <1>1 DEF Order, PositionKey, PositionKeys
<1>3. /\ \A u : BuysOf(u)' = BuysOf(u)
      /\ \A k : SellsAt(k)' = SellsAt(k)
    BY <1>1 DEF BuysOf, SellsAt, PositionKey
<1>4. /\ \A u \in Users : x \in BuysOf(u) <=> o.Side = SideBuy /\ u = o.UserID
      /\ \A k \in PositionKeys : x \in SellsAt(k) <=> o.Side = SideSell /\ k = PositionKey(o)
    BY DEF BuysOf, SellsAt
<1>5. CASE orders'[x].LockedFunds = l /\ UNCHANGED <<balance, position>>
    <2>1. \A z \in DOMAIN orders : orders'[z].LockedFunds = orders[z].LockedFunds
        BY <1>1, <1>5
    <2>2. ASSUME NEW u \in Users PROVE CashSlack(u)' = CashSlack(u)
        <3>1. Locks(orders', BuysOf(u)) = Locks(orders, BuysOf(u))
            BY <2>1, BackedFacts, LocksSame
        <3> QED
            BY <1>3, <1>5, <3>1 DEF CashSlack
    <2>3. ASSUME NEW k \in PositionKeys PROVE ShareSlack(k)' = ShareSlack(k)
        <3>1. Locks(orders', SellsAt(k)) = Locks(orders, SellsAt(k))
            BY <2>1, BackedFacts, LocksSame
        <3> QED
            BY <1>3, <1>5, <3>1 DEF ShareSlack
    <2>4. SlackOK'
        BY <2>2, <2>3, SlackKept DEF Backed
    <2> QED
        BY <1>1, <1>5, <2>4 DEF Backed, AccountsOK
<1>6. CASE orders'[x].LockedFunds = 0 /\ ReleaseOrder(o)
    <2> HIDE DEF o
    <2>1. AccountsOK'
        <3>1. \A u \in Users \ accounts' : balance'[u] = Zero
            BY <1>1, <1>2, <1>6 DEF ReleaseOrder, Backed, AccountsOK, IInv, TypeOK, o
        <3> QED
            BY <1>1, <3>1 DEF Backed, AccountsOK, o
    <2>2. ASSUME NEW u \in Users PROVE CashSlack(u)' = CashSlack(u)
        <3>1. /\ IsFiniteSet(BuysOf(u)) /\ BuysOf(u) \subseteq DOMAIN orders
              /\ Locks(orders, BuysOf(u)) \in Nat
              /\ balance[u].Reserved \in Int
              /\ \A y \in BuysOf(u) : orders[y].LockedFunds \in Int
              /\ \A y \in BuysOf(u) : orders[y].LockedFunds <= balance[u].Reserved
            BY BackedFacts
        <3>2. CASE x \in BuysOf(u)
            <4>1. Locks(orders', BuysOf(u)) = Locks(orders, BuysOf(u)) + (0 - l)
                <5>1. \A y \in BuysOf(u) : orders'[y].LockedFunds \in Int
                    BY <1>1, <1>6, <3>1
                <5>2. \A y \in BuysOf(u) : y # x => orders'[y].LockedFunds = orders[y].LockedFunds
                    BY <1>1, <3>1
                <5>3. Locks(orders', BuysOf(u)) = Locks(orders, BuysOf(u))
                        + (orders'[x].LockedFunds - orders[x].LockedFunds)
                    BY <3>1, <3>2, <5>1, <5>2, LocksChange
                <5> QED
                    BY <1>6, <5>3 DEF o
            <4>2. balance'[u].Reserved = AtLeastZero(balance[u].Reserved - l)
                BY <1>2, <1>4, <1>6, <3>2 DEF ReleaseOrder, Release, IInv, TypeOK
            <4>3. l <= balance[u].Reserved
                BY <3>1, <3>2 DEF o
            <4>4. balance'[u].Reserved = balance[u].Reserved - l
                <5> HIDE DEF l
                <5> QED
                    BY <1>1, <3>1, <4>2, <4>3 DEF AtLeastZero
            <4> HIDE DEF l
            <4> QED
                BY <1>1, <1>3, <3>1, <4>1, <4>4 DEF CashSlack
        <3>3. CASE x \notin BuysOf(u)
            <4>1. Locks(orders', BuysOf(u)) = Locks(orders, BuysOf(u))
                <5>1. \A y \in BuysOf(u) : orders'[y].LockedFunds = orders[y].LockedFunds
                    BY <1>1, <3>1, <3>3
                <5> QED
                    BY <3>1, <5>1, LocksSame
            <4>2. balance'[u].Reserved = balance[u].Reserved
                BY <1>2, <1>4, <1>6, <3>3 DEF ReleaseOrder, IInv, TypeOK
            <4> QED
                BY <1>3, <4>1, <4>2 DEF CashSlack
        <3> QED
            BY <3>2, <3>3
    <2>3. ASSUME NEW k \in PositionKeys PROVE ShareSlack(k)' = ShareSlack(k)
        <3>1. /\ IsFiniteSet(SellsAt(k)) /\ SellsAt(k) \subseteq DOMAIN orders
              /\ Locks(orders, SellsAt(k)) \in Nat
              /\ position[k].Reserved \in Int
              /\ \A y \in SellsAt(k) : orders[y].LockedFunds \in Int
              /\ \A y \in SellsAt(k) : orders[y].LockedFunds <= position[k].Reserved
            BY BackedFacts
        <3>2. CASE x \in SellsAt(k)
            <4>1. Locks(orders', SellsAt(k)) = Locks(orders, SellsAt(k)) + (0 - l)
                <5>1. \A y \in SellsAt(k) : orders'[y].LockedFunds \in Int
                    BY <1>1, <1>6, <3>1
                <5>2. \A y \in SellsAt(k) : y # x => orders'[y].LockedFunds = orders[y].LockedFunds
                    BY <1>1, <3>1
                <5>3. Locks(orders', SellsAt(k)) = Locks(orders, SellsAt(k))
                        + (orders'[x].LockedFunds - orders[x].LockedFunds)
                    BY <3>1, <3>2, <5>1, <5>2, LocksChange
                <5> QED
                    BY <1>6, <5>3 DEF o
            <4>2. position'[k].Reserved = AtLeastZero(position[k].Reserved - l)
                BY <1>2, <1>4, <1>6, <3>2
                   DEF ReleaseOrder, Release, IInv, TypeOK, SideBuy, SideSell
            <4>3. l <= position[k].Reserved
                BY <3>1, <3>2 DEF o
            <4>4. position'[k].Reserved = position[k].Reserved - l
                <5> HIDE DEF l
                <5> QED
                    BY <1>1, <3>1, <4>2, <4>3 DEF AtLeastZero
            <4> HIDE DEF l
            <4> QED
                BY <1>1, <1>3, <3>1, <4>1, <4>4 DEF ShareSlack
        <3>3. CASE x \notin SellsAt(k)
            <4>1. Locks(orders', SellsAt(k)) = Locks(orders, SellsAt(k))
                <5>1. \A y \in SellsAt(k) : orders'[y].LockedFunds = orders[y].LockedFunds
                    BY <1>1, <3>1, <3>3
                <5> QED
                    BY <3>1, <5>1, LocksSame
            <4>2. position'[k].Reserved = position[k].Reserved
                BY <1>2, <1>4, <1>6, <3>3 DEF ReleaseOrder, IInv, TypeOK, Sides
            <4> QED
                BY <1>3, <4>1, <4>2 DEF ShareSlack
        <3> QED
            BY <3>2, <3>3
    <2>4. SlackOK'
        BY <2>2, <2>3, SlackKept DEF Backed
    <2> QED
        BY <1>1, <2>1, <2>4 DEF Backed
<1> QED
    BY <1>1, <1>5, <1>6

\* The undo after a failed emit forgets the order and leaves its reservation.
LEMMA BackedUndo ==
    ASSUME IInv, Solvent, Backed, NEW p \in Partitions, EmitCreatedFails(p)
    PROVE  Backed'
<1> DEFINE x == cur[p]
<1>1. /\ RedisFails /\ pc[p] = "announce" /\ orders' = Without(x)
      /\ UNCHANGED <<accounts, balance, position>>
    BY DEF EmitCreatedFails, ledgerVars
<1>2. /\ DOMAIN orders' = DOMAIN orders \ {x}
      /\ \A z \in DOMAIN orders' : orders'[z] = orders[z]
    BY <1>1 DEF Without
<1>3. IsFiniteSet(DOMAIN orders')
    BY <1>2, FS_Subset DEF Backed
<1>4. AccountsOK'
    BY <1>1, <1>2 DEF Backed, AccountsOK
<1> HIDE DEF x
<1>5. ASSUME NEW S, NEW T, S \subseteq DOMAIN orders, T = S \ {x}
      PROVE  Locks(orders', T) \in Int /\ Locks(orders', T) <= Locks(orders, S)
    <2>1. /\ IsFiniteSet(S) /\ IsFiniteSet(T)
          /\ \A y \in S : orders[y].LockedFunds \in Nat
        <3>1. IsFiniteSet(S)
            BY <1>5, FS_Subset DEF Backed
        <3>2. IsFiniteSet(T)
            BY <1>5, <3>1, FS_Subset
        <3> QED
            BY <1>5, <3>1, <3>2, BackedFacts
    <2>2. Locks(orders', T) = Locks(orders, T)
        BY <1>2, <1>5, <2>1, LocksSame
    <2>3. CASE x \in S
        <3>1. T \cup {x} = S /\ x \notin T
            BY <1>5, <2>3
        <3>2. Locks(orders, T \cup {x}) = Locks(orders, T) + orders[x].LockedFunds
            BY <2>1, <2>3, <3>1, LocksAdd
        <3>3. Locks(orders, T) \in Nat
            BY <1>5, <2>1, LocksBound
        <3>4. orders[x].LockedFunds \in Nat
            BY <2>1, <2>3
        <3>5. Locks(orders, S) = Locks(orders, T) + orders[x].LockedFunds
            BY <3>1, <3>2, Zenon
        <3> QED
            BY <2>2, <3>3, <3>4, <3>5
    <2>4. CASE x \notin S
        <3>1. S = T
            BY <1>5, <2>4
        <3>2. Locks(orders, S) \in Nat
            BY <2>1, LocksBound
        <3> QED
            BY <2>2, <3>1, <3>2
    <2> QED
        BY <2>3, <2>4
<1>6. ASSUME NEW u \in Users PROVE CashSlack(u)' >= 0
    <2>1. BuysOf(u)' = BuysOf(u) \ {x} /\ BuysOf(u) \subseteq DOMAIN orders
        BY <1>2 DEF BuysOf
    <2>2. /\ Locks(orders', BuysOf(u)') \in Int
          /\ Locks(orders', BuysOf(u)') <= Locks(orders, BuysOf(u))
        BY <1>5, <2>1
    <2>3. /\ Locks(orders, BuysOf(u)) \in Nat /\ balance[u].Reserved \in Int
          /\ balance[u].Reserved - Locks(orders, BuysOf(u)) >= 0
        BY BackedFacts DEF Backed, SlackOK, CashSlack
    <2>4. balance' = balance
        BY <1>1
    <2> QED
        BY <2>2, <2>3, <2>4 DEF CashSlack
<1>7. ASSUME NEW k \in PositionKeys PROVE ShareSlack(k)' >= 0
    <2>1. SellsAt(k)' = SellsAt(k) \ {x} /\ SellsAt(k) \subseteq DOMAIN orders
        BY <1>2 DEF SellsAt, PositionKey
    <2>2. /\ Locks(orders', SellsAt(k)') \in Int
          /\ Locks(orders', SellsAt(k)') <= Locks(orders, SellsAt(k))
        BY <1>5, <2>1
    <2>3. /\ Locks(orders, SellsAt(k)) \in Nat /\ position[k].Reserved \in Int
          /\ position[k].Reserved - Locks(orders, SellsAt(k)) >= 0
        BY BackedFacts DEF Backed, SlackOK, ShareSlack
    <2>4. position' = position
        BY <1>1
    <2> QED
        BY <2>2, <2>3, <2>4 DEF ShareSlack
<1>8. SlackOK'
    BY <1>1, <1>6, <1>7 DEF SlackOK
<1> QED
    BY <1>3, <1>4, <1>8 DEF Backed

\* Every step keeps reservations at or above what is frozen.
LEMMA BackedNext ==
    NoOverflow /\ LimitBuys /\ IInv /\ Solvent /\ Backed /\ [Next]_vars => Backed'
<1> SUFFICES ASSUME NoOverflow, LimitBuys, IInv, Solvent, Backed, [Next]_vars PROVE Backed'
    OBVIOUS
<1>1. ASSUME orders' = orders,
             \A u \in Users : balance'[u].Reserved = balance[u].Reserved,
             position' = position
      PROVE  IsFiniteSet(DOMAIN orders') /\ SlackOK'
    <2>1. /\ \A u : BuysOf(u)' = BuysOf(u)
          /\ \A k : SellsAt(k)' = SellsAt(k)
        BY <1>1 DEF BuysOf, SellsAt, PositionKey
    <2>2. /\ \A u \in Users : CashSlack(u)' = CashSlack(u)
          /\ \A k \in PositionKeys : ShareSlack(k)' = ShareSlack(k)
        BY <1>1, <2>1 DEF CashSlack, ShareSlack, Locks
    <2> QED
        BY <1>1, <2>2, SlackKept DEF Backed
<1>2. CASE Quiet
    <2>1. orders' = orders /\ accounts' = accounts /\ balance' = balance /\ position' = position
        BY <1>2 DEF Quiet
    <2>2. IsFiniteSet(DOMAIN orders') /\ SlackOK'
        BY <1>1, <2>1
    <2> QED
        BY <2>1, <2>2 DEF Backed, AccountsOK
<1>3. ASSUME NEW p \in Partitions, NEW u \in Users, UserCreated(p, u) PROVE Backed'
    <2>1. /\ orders' = orders /\ position' = position /\ accounts' = accounts \cup {u}
          /\ balance' = IF u \in accounts THEN balance
                        ELSE [balance EXCEPT ![u] = [Zero EXCEPT !.Available = StartingBalance]]
        BY <1>3 DEF UserCreated, marketVars
    <2>2. \A v \in Users : balance'[v].Reserved = balance[v].Reserved
        BY <2>1 DEF Backed, AccountsOK, Zero, IInv, TypeOK
    <2>3. AccountsOK'
        <3>1. \A v \in Users \ accounts' : balance'[v] = Zero
            BY <2>1 DEF Backed, AccountsOK, IInv, TypeOK
        <3> QED
            BY <2>1, <3>1 DEF Backed, AccountsOK
    <2> QED
        BY <1>1, <2>1, <2>2, <2>3 DEF Backed
<1>4. ASSUME NEW p \in Partitions, NEW x \in OrderIds, NEW req \in ValidOrders,
             RefuseOrder(p, x, req)
      PROVE  Backed'
    <2>1. /\ orders' = orders /\ position' = position /\ balance' = balance
          /\ accounts \subseteq accounts'
        BY <1>4 DEF RefuseOrder, marketVars
    <2>2. AccountsOK'
        BY <2>1 DEF Backed, AccountsOK
    <2>3. \A v \in Users : balance'[v].Reserved = balance[v].Reserved
        BY <2>1
    <2> QED
        BY <1>1, <2>1, <2>2, <2>3 DEF Backed
<1> QED
    BY <1>2, <1>3, <1>4, LedgerSteps, BackedAccept, BackedTrade, BackedClose, BackedUndo

\* The ledger's invariant, for any failures of emits.
LedgerInv == IInv /\ Solvent /\ Backed

\* The ledger's invariant holds throughout.
THEOREM LedgerInvariance ==
    ASSUME NoOverflow, LimitBuys
    PROVE  Spec => []LedgerInv
<1>1. Init => LedgerInv
    BY InitOK, SolventInit, BackedInit DEF LedgerInv
<1>2. LedgerInv /\ [Next]_vars => LedgerInv'
    BY NextOK, SolventNext, BackedNext DEF LedgerInv
<1> QED
    BY <1>1, <1>2, PTL DEF Spec

\* While no emit fails, what a user has reserved is to the last cent what the
\* user's orders have frozen: no path of reserveOrderLocked, settleTradeLocked
\* and releaseOrderLocked leaves a reservation behind or gives one back twice.
THEOREM ReservationsAlwaysBacked ==
    ASSUME NoOverflow, LimitBuys, ~RedisFails
    PROVE  Spec => []ReservedBacked
<1>1. LedgerInv => ReservedBacked
    <2> SUFFICES ASSUME LedgerInv PROVE ReservedBacked
        OBVIOUS
    <2>1. ASSUME NEW u \in Users PROVE balance[u].Reserved = Locked(BuysOf(u))
        <3>1. balance[u].Reserved - Locks(orders, BuysOf(u)) = 0
            BY DEF LedgerInv, Backed, SlackOK, CashSlack
        <3>2. balance[u].Reserved \in Int /\ Locks(orders, BuysOf(u)) \in Nat
            BY BackedFacts DEF LedgerInv
        <3> QED
            BY <3>1, <3>2, LockedIsLocks
    <2>2. ASSUME NEW k \in PositionKeys PROVE position[k].Reserved = Locked(SellsAt(k))
        <3>1. position[k].Reserved - Locks(orders, SellsAt(k)) = 0
            BY DEF LedgerInv, Backed, SlackOK, ShareSlack
        <3>2. position[k].Reserved \in Int /\ Locks(orders, SellsAt(k)) \in Nat
            BY BackedFacts DEF LedgerInv
        <3> QED
            BY <3>1, <3>2, LockedIsLocks
    <2> QED
        BY <2>1, <2>2 DEF ReservedBacked
<1> QED
    BY <1>1, LedgerInvariance, PTL

-----------------------------------------------------------------------------
(* Nothing appears or disappears                                           *)

\* The sums the ledger is about, for any balances b and positions h.
CashOf(b) == SumFunctionOnSet([u \in Users |-> Total(b[u])], Users)
SharesOf(h, e, c) == SumFunctionOnSet([u \in Users |-> Total(h[<<u, e, c>>])], Users)

\* Every order belongs to somebody with an account, and every account to
\* somebody whose USER_CREATED has been handled.
OwnersOK ==
    /\ accounts \subseteq welcomed
    /\ \A x \in DOMAIN orders : orders[x].UserID \in accounts

\* What the operations on a holding do to its total.
LEMMA TotalOps ==
    ASSUME NEW h \in Holding, NEW x \in Nat
    PROVE  /\ Total(h) \in Int
           /\ Reserve(h, x) \in Holding /\ Release(h, x) \in Holding
           /\ Spend(h, x) \in Holding /\ Receive(h, x) \in Holding
           /\ Total(Reserve(h, x)) = Total(h)
           /\ x <= h.Reserved => Total(Release(h, x)) = Total(h)
           /\ x <= h.Reserved => Total(Spend(h, x)) = Total(h) - x
           /\ Total(Receive(h, x)) = Total(h) + x
    BY DEF Total, Holding, Reserve, Release, Spend, Receive, AtLeastZero

\* One user's balance changes.
LEMMA CashChange ==
    ASSUME IsFiniteSet(Users), NEW b \in [Users -> Holding], NEW u \in Users, NEW h \in Holding
    PROVE  CashOf([b EXCEPT ![u] = h]) = CashOf(b) + (Total(h) - Total(b[u]))
           /\ CashOf(b) \in Int
<1> DEFINE n == [b EXCEPT ![u] = h]
           f == [v \in Users |-> Total(b[v])]
           g == [v \in Users |-> Total(n[v])]
<1>1. \A v \in Users : n[v] \in Holding /\ (v # u => n[v] = b[v]) /\ n[u] = h
    OBVIOUS
<1>2. /\ \A v \in Users : f[v] \in Int /\ g[v] \in Int
      /\ \A v \in Users : v # u => g[v] = f[v]
      /\ f[u] = Total(b[u]) /\ g[u] = Total(h)
    <2>1. \A k \in Holding : Total(k) \in Int
        BY DEF Total, Holding
    <2> HIDE DEF n
    <2> QED
        BY <1>1, <2>1
<1>3. CashOf(b) = SumFunctionOnSet(f, Users) /\ CashOf(n) = SumFunctionOnSet(g, Users)
    BY DEF CashOf
<1> HIDE DEF f, g, n
<1>4. SumFunctionOnSet(g, Users) = SumFunctionOnSet(f, Users) + (g[u] - f[u])
    BY <1>2, SumChange
<1>5. SumFunctionOnSet(f, Users) \in Int
    BY <1>2, SumInt
<1> QED
    BY <1>2, <1>3, <1>4, <1>5 DEF n

\* One position changes.
LEMMA SharesChange ==
    ASSUME IsFiniteSet(Users), NEW m \in [PositionKeys -> Holding], NEW k \in PositionKeys,
           NEW h \in Holding, NEW e \in Events, NEW c \in Outcomes
    PROVE  SharesOf([m EXCEPT ![k] = h], e, c) =
             SharesOf(m, e, c) + (IF k[2] = e /\ k[3] = c THEN Total(h) - Total(m[k]) ELSE 0)
           /\ SharesOf(m, e, c) \in Int
<1> DEFINE n == [m EXCEPT ![k] = h]
           f == [v \in Users |-> Total(m[<<v, e, c>>])]
           g == [v \in Users |-> Total(n[<<v, e, c>>])]
           u == k[1]
<1>1. /\ u \in Users /\ k = <<u, k[2], k[3]>>
      /\ \A v \in Users : <<v, e, c>> \in PositionKeys
    BY DEF PositionKeys
<1>2. /\ \A j \in PositionKeys : n[j] \in Holding /\ (j # k => n[j] = m[j])
      /\ n[k] = h
    OBVIOUS
<1>3. \A j \in Holding : Total(j) \in Int
    BY DEF Total, Holding
<1>4. \A v \in Users : f[v] \in Int /\ g[v] \in Int
    <2> HIDE DEF n
    <2> QED
        BY <1>1, <1>2, <1>3
<1>5. SharesOf(m, e, c) = SumFunctionOnSet(f, Users)
      /\ SharesOf(n, e, c) = SumFunctionOnSet(g, Users)
    BY DEF SharesOf
<1>6. SumFunctionOnSet(f, Users) \in Int
    <2> HIDE DEF f
    <2> QED
        BY <1>4, SumInt
<1>7. CASE k[2] = e /\ k[3] = c
    <2>1. k = <<u, e, c>>
        BY <1>1, <1>7
    <2>2. /\ \A v \in Users : v # u => g[v] = f[v]
          /\ f[u] = Total(m[k]) /\ g[u] = Total(h)
        <3> HIDE DEF n, u
        <3> QED
            BY <1>1, <1>2, <2>1
    <2> HIDE DEF f, g, n, u
    <2>3. SumFunctionOnSet(g, Users) = SumFunctionOnSet(f, Users) + (g[u] - f[u])
        BY <1>1, <1>4, <2>2, SumChange
    <2> QED
        BY <1>5, <1>6, <1>7, <2>2, <2>3 DEF n
<1>8. CASE ~(k[2] = e /\ k[3] = c)
    <2>1. \A v \in Users : <<v, e, c>> # k
        BY <1>8
    <2>2. \A v \in Users : g[v] = f[v]
        <3> HIDE DEF n, u
        <3> QED
            BY <1>1, <1>2, <2>1
    <2> HIDE DEF f, g, n, u
    <2>3. SumFunctionOnSet(g, Users) = SumFunctionOnSet(f, Users)
        BY <2>2, SumCong
    <2> QED
        BY <1>5, <1>6, <1>8, <2>3 DEF n
<1> QED
    BY <1>7, <1>8

\* The totals stay what they are.
TotalsKept ==
    /\ CashOf(balance') = CashOf(balance)
    /\ \A e \in Events, c \in Outcomes : SharesOf(position', e, c) = SharesOf(position, e, c)

\* Reserving moves cash or shares within a holding.
LEMMA AcceptKeepsTotals ==
    ASSUME IsFiniteSet(Users), NoOverflow, LedgerInv, NEW p \in Partitions,
           NEW x \in OrderIds, NEW req \in ValidOrders, AcceptOrder(p, x, req)
    PROVE  TotalsKept
<1> DEFINE o == NewOrder(req, 0)
           a == ReserveAmount(o)
<1>1. IF o.Side = SideBuy
      THEN /\ balance' = [balance EXCEPT ![o.UserID] = Reserve(@, a)]
           /\ UNCHANGED position
      ELSE /\ position' = [position EXCEPT ![PositionKey(o)] = Reserve(@, a)]
           /\ UNCHANGED balance
    BY DEF AcceptOrder
<1>2. a \in Nat
    BY AcceptedAmount DEF LedgerInv, IInv, Solvent
<1>3. o.UserID \in Users /\ PositionKey(o) \in PositionKeys
    BY NewOrderType, ValidOrdersFields DEF NewOrder
<1>4. balance \in [Users -> Holding] /\ position \in [PositionKeys -> Holding]
    BY DEF LedgerInv, IInv, TypeOK
<1> HIDE DEF o, a
<1>5. CASE o.Side = SideBuy
    <2> DEFINE h == Reserve(balance[o.UserID], a)
    <2>1. h \in Holding /\ Total(h) = Total(balance[o.UserID])
          /\ Total(balance[o.UserID]) \in Int
        <3>1. balance[o.UserID] \in Holding
            BY <1>3, <1>4
        <3> QED
            BY <1>2, <3>1, TotalOps
    <2>2. balance' = [balance EXCEPT ![o.UserID] = h] /\ position' = position
        BY <1>1, <1>5
    <2> HIDE DEF h
    <2>3. CashOf([balance EXCEPT ![o.UserID] = h])
            = CashOf(balance) + (Total(h) - Total(balance[o.UserID]))
          /\ CashOf(balance) \in Int
        BY <1>3, <1>4, <2>1, CashChange
    <2>4. CashOf(balance') = CashOf([balance EXCEPT ![o.UserID] = h])
        BY <2>2, Zenon
    <2>5. CashOf(balance') = CashOf(balance)
        BY <2>1, <2>3, <2>4
    <2> QED
        BY <2>2, <2>5 DEF TotalsKept
<1>6. CASE o.Side # SideBuy
    <2> DEFINE k == PositionKey(o)
               h == Reserve(position[k], a)
    <2>1. h \in Holding /\ Total(h) = Total(position[k]) /\ Total(position[k]) \in Int
        BY <1>2, <1>3, <1>4, TotalOps
    <2>2. position' = [position EXCEPT ![k] = h] /\ balance' = balance
        BY <1>1, <1>6
    <2> HIDE DEF h, k
    <2>3. ASSUME NEW e \in Events, NEW c \in Outcomes
          PROVE  SharesOf(position', e, c) = SharesOf(position, e, c)
        <3>1. k \in PositionKeys
            BY <1>3 DEF k
        <3>2. SharesOf([position EXCEPT ![k] = h], e, c)
                = SharesOf(position, e, c)
                    + (IF k[2] = e /\ k[3] = c THEN Total(h) - Total(position[k]) ELSE 0)
              /\ SharesOf(position, e, c) \in Int
            BY <1>4, <2>1, <3>1, SharesChange
        <3>3. SharesOf(position', e, c) = SharesOf([position EXCEPT ![k] = h], e, c)
            BY <2>2, Zenon
        <3> QED
            BY <2>1, <3>2, <3>3
    <2> QED
        BY <2>2, <2>3 DEF TotalsKept
<1> QED
    BY <1>5, <1>6

\* What a trade takes from one of its users it gives to the other.
LEMMA TradeKeepsTotals ==
    ASSUME IsFiniteSet(Users), NoOverflow, LimitBuys, LedgerInv, NEW p \in Partitions,
           NEW b \in DOMAIN orders, NEW s \in DOMAIN orders, NEW q \in Nat,
           NEW price \in Nat, TradesPair(p, b, s, q, price)
    PROVE  TotalsKept
<1> DEFINE cost == q * price
           buyer == orders[b].UserID
           seller == orders[s].UserID
           bk == PositionKey(orders[b])
           sk == PositionKey(orders[s])
<1>1. /\ orders[b].Side = SideBuy /\ orders[s].Side = SideSell
      /\ orders[b] \in Order /\ orders[s] \in Order
      /\ orders[b].EventID = orders[s].EventID /\ orders[b].Outcome = orders[s].Outcome
      /\ orders[b].UserID # orders[s].UserID
      /\ q <= orders[s].RemainingQuantity
      /\ position' = [position EXCEPT ![bk] = Receive(@, q), ![sk] = Spend(@, q)]
    BY DEF TradesPair
<1>2. /\ Int64(q * price) = cost /\ cost \in Nat
      /\ orders[s].LockedFunds = orders[s].RemainingQuantity
      /\ cost <= orders[b].LockedFunds
    <2>1. orders[b].OrderType = OrderTypeLimit
        BY <1>1 DEF LedgerInv, Solvent, OrdersOK, LimitBuys
    <2> QED
        BY <2>1, TradeCovered DEF LedgerInv
<1>3. balance' = [balance EXCEPT ![buyer] = Spend(@, cost), ![seller] = Receive(@, cost)]
    BY <1>2 DEF TradesPair
<1>4. /\ buyer \in Users /\ seller \in Users /\ bk \in PositionKeys /\ sk \in PositionKeys
      /\ bk[2] = sk[2] /\ bk[3] = sk[3] /\ bk # sk /\ buyer # seller
    BY <1>1 DEF Order, PositionKey, PositionKeys
<1>5. cost <= balance[buyer].Reserved /\ q <= position[sk].Reserved
    <2>1. b \in BuysOf(buyer) /\ s \in SellsAt(sk)
        BY <1>1 DEF BuysOf, SellsAt
    <2>2. /\ orders[b].LockedFunds <= balance[buyer].Reserved
          /\ orders[s].LockedFunds <= position[sk].Reserved
          /\ balance[buyer].Reserved \in Int /\ position[sk].Reserved \in Int
          /\ orders[b].LockedFunds \in Nat /\ orders[s].LockedFunds \in Nat
        BY <1>4, <2>1, BackedFacts DEF LedgerInv
    <2> HIDE DEF cost, buyer, sk
    <2> QED
        BY <1>1, <1>2, <2>2
<1>6. balance \in [Users -> Holding] /\ position \in [PositionKeys -> Holding]
    BY DEF LedgerInv, IInv, TypeOK
<1> HIDE DEF cost, buyer, seller, bk, sk
<1>7. CashOf(balance') = CashOf(balance)
    <2> DEFINE h == Spend(balance[buyer], cost)
               m == [balance EXCEPT ![buyer] = h]
               g == Receive(m[seller], cost)
    <2>1. h \in Holding /\ Total(h) = Total(balance[buyer]) - cost
          /\ Total(balance[buyer]) \in Int
        <3>1. balance[buyer] \in Holding
            BY <1>4, <1>6
        <3> QED
            BY <1>2, <1>5, <3>1, TotalOps
    <2>2. m \in [Users -> Holding]
        BY <1>4, <1>6, <2>1
    <2>3. balance' = [m EXCEPT ![seller] = g]
        <3>1. \A v \in Users : balance'[v] = [m EXCEPT ![seller] = g][v]
            <4>1. m[seller] = balance[seller]
                BY <1>3, <1>4, <1>6
            <4> QED
                BY <1>3, <1>4, <1>6, <4>1
        <3>2. balance' = [v \in Users |-> balance'[v]]
            BY <1>3, <1>4, <1>6
        <3>3. [m EXCEPT ![seller] = g] = [v \in Users |-> [m EXCEPT ![seller] = g][v]]
            BY <2>2
        <3> HIDE DEF m, g
        <3>4. [v \in Users |-> balance'[v]] = [v \in Users |-> [m EXCEPT ![seller] = g][v]]
            BY <3>1
        <3> QED
            BY <3>2, <3>3, <3>4, Zenon
    <2> HIDE DEF h, m
    <2>4. g \in Holding /\ Total(g) = Total(m[seller]) + cost /\ Total(m[seller]) \in Int
        BY <1>2, <1>4, <2>2, TotalOps
    <2> HIDE DEF g
    <2>5. CashOf([m EXCEPT ![seller] = g]) = CashOf(m) + (Total(g) - Total(m[seller]))
        BY <1>4, <2>2, <2>4, CashChange
    <2>6. CashOf([balance EXCEPT ![buyer] = h])
            = CashOf(balance) + (Total(h) - Total(balance[buyer]))
          /\ CashOf(balance) \in Int
        BY <1>4, <1>6, <2>1, CashChange
    <2>7. /\ CashOf(balance') = CashOf([m EXCEPT ![seller] = g])
          /\ CashOf(m) = CashOf([balance EXCEPT ![buyer] = h])
        BY <2>3, Zenon DEF m
    <2> QED
        BY <1>2, <2>1, <2>4, <2>5, <2>6, <2>7
<1>8. ASSUME NEW e \in Events, NEW c \in Outcomes
      PROVE  SharesOf(position', e, c) = SharesOf(position, e, c)
    <2> DEFINE h == Receive(position[bk], q)
               m == [position EXCEPT ![bk] = h]
               g == Spend(m[sk], q)
    <2>1. h \in Holding /\ Total(h) = Total(position[bk]) + q /\ Total(position[bk]) \in Int
        BY <1>4, <1>6, TotalOps
    <2>2. m \in [PositionKeys -> Holding]
        BY <1>4, <1>6, <2>1
    <2>3. position' = [m EXCEPT ![sk] = g]
        <3>1. \A v \in PositionKeys : position'[v] = [m EXCEPT ![sk] = g][v]
            <4>1. m[sk] = position[sk]
                BY <1>1, <1>4, <1>6
            <4> QED
                BY <1>1, <1>4, <1>6, <4>1
        <3>2. position' = [v \in PositionKeys |-> position'[v]]
            BY <1>1, <1>4, <1>6
        <3>3. [m EXCEPT ![sk] = g] = [v \in PositionKeys |-> [m EXCEPT ![sk] = g][v]]
            BY <2>2
        <3> HIDE DEF m, g
        <3>4. [v \in PositionKeys |-> position'[v]] = [v \in PositionKeys |-> [m EXCEPT ![sk] = g][v]]
            BY <3>1
        <3> QED
            BY <3>2, <3>3, <3>4, Zenon
    <2>4. q <= m[sk].Reserved
        <3>1. h.Reserved = position[bk].Reserved
            BY DEF Receive
        <3> HIDE DEF h
        <3> QED
            BY <1>4, <1>5, <1>6, <3>1
    <2> HIDE DEF h, m
    <2>5. g \in Holding /\ Total(g) = Total(m[sk]) - q /\ Total(m[sk]) \in Int
        <3>1. m[sk] \in Holding
            BY <1>4, <2>2
        <3> QED
            BY <2>4, <3>1, TotalOps
    <2> HIDE DEF g
    <2> DEFINE here == sk[2] = e /\ sk[3] = c
    <2>6. SharesOf([m EXCEPT ![sk] = g], e, c)
            = SharesOf(m, e, c) + (IF here THEN Total(g) - Total(m[sk]) ELSE 0)
        BY <1>4, <2>2, <2>5, SharesChange
    <2>7. SharesOf([position EXCEPT ![bk] = h], e, c)
            = SharesOf(position, e, c) + (IF here THEN Total(h) - Total(position[bk]) ELSE 0)
          /\ SharesOf(position, e, c) \in Int
        <3>1. SharesOf([position EXCEPT ![bk] = h], e, c) = SharesOf(position, e, c)
                + (IF bk[2] = e /\ bk[3] = c THEN Total(h) - Total(position[bk]) ELSE 0)
              /\ SharesOf(position, e, c) \in Int
            BY <1>4, <1>6, <2>1, SharesChange
        <3> QED
            BY <1>4, <3>1
    <2>8. /\ SharesOf(position', e, c) = SharesOf([m EXCEPT ![sk] = g], e, c)
          /\ SharesOf(m, e, c) = SharesOf([position EXCEPT ![bk] = h], e, c)
        BY <2>3, Zenon DEF m
    <2> HIDE DEF here
    <2> QED
        BY <2>1, <2>5, <2>6, <2>7, <2>8
<1> QED
    BY <1>7, <1>8 DEF TotalsKept

\* Releasing moves cash or shares within a holding.
LEMMA CloseKeepsTotals ==
    ASSUME IsFiniteSet(Users), LedgerInv, NEW x \in DOMAIN orders, Closes(x)
    PROVE  TotalsKept
<1> DEFINE o == orders[x]
           l == o.LockedFunds
<1>1. o \in Order /\ l \in Nat /\ (ReleaseOrder(o) \/ UNCHANGED <<balance, position>>)
    BY BackedFacts DEF Closes, LedgerInv
<1>2. o.UserID \in Users /\ PositionKey(o) \in PositionKeys /\ o.Side \in Sides
    BY <1>1 DEF Order, PositionKey, PositionKeys
<1>3. balance \in [Users -> Holding] /\ position \in [PositionKeys -> Holding]
    BY DEF LedgerInv, IInv, TypeOK
<1>4. /\ o.Side = SideBuy => l <= balance[o.UserID].Reserved
      /\ o.Side # SideBuy => l <= position[PositionKey(o)].Reserved
    <2>1. /\ o.Side = SideBuy => x \in BuysOf(o.UserID)
          /\ o.Side # SideBuy => x \in SellsAt(PositionKey(o))
        BY <1>2 DEF BuysOf, SellsAt, Sides
    <2> QED
        BY <1>2, <2>1, BackedFacts DEF LedgerInv
<1>5. CASE UNCHANGED <<balance, position>>
    BY <1>5 DEF TotalsKept
<1>6. CASE ReleaseOrder(o) /\ o.Side = SideBuy
    <2> DEFINE h == Release(balance[o.UserID], l)
    <2> HIDE DEF o, l
    <2>1. h \in Holding /\ Total(h) = Total(balance[o.UserID])
          /\ Total(balance[o.UserID]) \in Int
        <3>1. balance[o.UserID] \in Holding /\ l <= balance[o.UserID].Reserved
            BY <1>2, <1>3, <1>4, <1>6
        <3> QED
            BY <1>1, <3>1, TotalOps
    <2>2. balance' = [balance EXCEPT ![o.UserID] = h] /\ position' = position
        BY <1>6 DEF ReleaseOrder, l
    <2> HIDE DEF h
    <2>3. CashOf([balance EXCEPT ![o.UserID] = h])
            = CashOf(balance) + (Total(h) - Total(balance[o.UserID]))
          /\ CashOf(balance) \in Int
        BY <1>2, <1>3, <2>1, CashChange
    <2>4. CashOf(balance') = CashOf([balance EXCEPT ![o.UserID] = h])
        BY <2>2, Zenon
    <2>5. CashOf(balance') = CashOf(balance)
        BY <2>1, <2>3, <2>4
    <2> QED
        BY <2>2, <2>5 DEF TotalsKept
<1>7. CASE ReleaseOrder(o) /\ o.Side # SideBuy
    <2> DEFINE k == PositionKey(o)
               h == Release(position[k], l)
    <2> HIDE DEF o, l
    <2>1. h \in Holding /\ Total(h) = Total(position[k]) /\ Total(position[k]) \in Int
        <3>1. position[k] \in Holding /\ l <= position[k].Reserved
            BY <1>2, <1>3, <1>4, <1>7
        <3> QED
            BY <1>1, <3>1, TotalOps
    <2>2. position' = [position EXCEPT ![k] = h] /\ balance' = balance
        BY <1>7 DEF ReleaseOrder, l
    <2> HIDE DEF h, k
    <2>3. ASSUME NEW e \in Events, NEW c \in Outcomes
          PROVE  SharesOf(position', e, c) = SharesOf(position, e, c)
        <3>1. k \in PositionKeys
            BY <1>2 DEF k
        <3>2. SharesOf([position EXCEPT ![k] = h], e, c)
                = SharesOf(position, e, c)
                    + (IF k[2] = e /\ k[3] = c THEN Total(h) - Total(position[k]) ELSE 0)
              /\ SharesOf(position, e, c) \in Int
            BY <1>3, <2>1, <3>1, SharesChange
        <3>3. SharesOf(position', e, c) = SharesOf([position EXCEPT ![k] = h], e, c)
            BY <2>2, Zenon
        <3> QED
            BY <2>1, <3>2, <3>3
    <2> QED
        BY <2>2, <2>3 DEF TotalsKept
<1> QED
    BY <1>1, <1>5, <1>6, <1>7

\* No user trades without an account when no fanout is lost.
LEMMA OwnersNext ==
    ASSUME ~LostFanout, IInv, OwnersOK, [Next]_vars
    PROVE  OwnersOK'
<1>1. CASE Quiet
    BY <1>1 DEF Quiet, OwnersOK
<1>2. ASSUME NEW p \in Partitions, NEW u \in Users, UserCreated(p, u) PROVE OwnersOK'
    BY <1>2 DEF UserCreated, marketVars, OwnersOK
<1>3. ASSUME NEW p \in Partitions, NEW x \in OrderIds, NEW req \in ValidOrders,
             AcceptOrder(p, x, req)
      PROVE  OwnersOK'
    <2>1. req.UserID \in accounts /\ accounts' = accounts \cup Touch(NewOrder(req, 0))
          /\ welcomed' = welcomed
        BY <1>3 DEF AcceptOrder, Submitted, historyVars
    <2>2. accounts' = accounts
        BY <2>1 DEF Touch, NewOrder
    <2>3. \A z \in DOMAIN orders' : \/ z \in DOMAIN orders /\ orders'[z] = orders[z]
                                  \/ orders'[z].UserID = req.UserID
        BY <1>3 DEF AcceptOrder, Store, NewOrder
    <2> QED
        BY <2>1, <2>2, <2>3 DEF OwnersOK
<1>4. ASSUME NEW p \in Partitions, NEW x \in OrderIds, NEW req \in ValidOrders,
             RefuseOrder(p, x, req)
      PROVE  OwnersOK'
    <2>1. req.UserID \in accounts /\ accounts' = accounts \cup Touch(NewOrder(req, 0))
          /\ welcomed' = welcomed /\ orders' = orders
        BY <1>4 DEF RefuseOrder, Submitted, historyVars, marketVars
    <2>2. accounts' = accounts
        BY <2>1 DEF Touch, NewOrder
    <2> QED
        BY <2>1, <2>2 DEF OwnersOK
<1>5. ASSUME NEW p \in Partitions, EmitCreatedFails(p) PROVE OwnersOK'
    BY <1>5 DEF EmitCreatedFails, Without, ledgerVars, OwnersOK
<1>6. ASSUME NEW p \in Partitions, NEW b \in DOMAIN orders, NEW s \in DOMAIN orders,
             NEW q \in Nat, NEW price \in Nat, TradesPair(p, b, s, q, price)
      PROVE  OwnersOK'
    <2>1. /\ DOMAIN orders' = DOMAIN orders
          /\ \A z \in DOMAIN orders : orders'[z].UserID = orders[z].UserID
          /\ accounts' = accounts \cup {orders[b].UserID, orders[s].UserID}
          /\ welcomed' = welcomed
        BY <1>6 DEF TradesPair
    <2> QED
        BY <2>1 DEF OwnersOK
<1>7. ASSUME NEW x \in DOMAIN orders, Closes(x) PROVE OwnersOK'
    <2>1. /\ DOMAIN orders' = DOMAIN orders
          /\ \A z \in DOMAIN orders : orders'[z].UserID = orders[z].UserID
          /\ accounts' = accounts /\ welcomed' = welcomed
        BY <1>7 DEF Closes
    <2> QED
        BY <2>1 DEF OwnersOK
<1> QED
    BY <1>1, <1>2, <1>3, <1>4, <1>5, <1>6, <1>7, LedgerSteps

\* USER_CREATED adds the starting balance and changes nothing else.
LEMMA GrantTotals ==
    ASSUME IsFiniteSet(Users), LedgerInv, OwnersOK, NEW p \in Partitions, NEW u \in Users,
           UserCreated(p, u)
    PROVE  /\ CashOf(balance') = CashOf(balance) + StartingBalance
           /\ CashOf(balance) \in Int
           /\ Cardinality(welcomed) \in Nat
           /\ Cardinality(welcomed') = Cardinality(welcomed) + 1
           /\ position' = position
<1> DEFINE h == [Zero EXCEPT !.Available = StartingBalance]
<1>1. /\ u \notin welcomed /\ welcomed' = welcomed \cup {u}
      /\ u \notin accounts /\ position' = position
      /\ balance' = [balance EXCEPT ![u] = h]
    BY DEF UserCreated, OwnersOK
<1>2. h \in Holding /\ Total(h) = StartingBalance /\ Total(balance[u]) = 0
      /\ StartingBalance \in Int
    <2>1. balance[u] = Zero
        BY <1>1 DEF LedgerInv, Backed, AccountsOK
    <2> QED
        BY <2>1, AmountsAssumption DEF Zero, Holding, Total
<1> HIDE DEF h
<1>3. /\ CashOf([balance EXCEPT ![u] = h]) = CashOf(balance) + (Total(h) - Total(balance[u]))
      /\ CashOf(balance) \in Int
    BY <1>2, CashChange DEF LedgerInv, IInv, TypeOK
<1>4. CashOf(balance') = CashOf([balance EXCEPT ![u] = h])
    BY <1>1, Zenon
<1>5. IsFiniteSet(welcomed)
    BY FS_Subset DEF LedgerInv, IInv, TypeOK
<1>6. /\ Cardinality(welcomed) \in Nat
      /\ Cardinality(welcomed \cup {u}) = Cardinality(welcomed) + 1
    BY <1>1, <1>5, FS_CardinalityType, FS_AddElement
<1> QED
    BY <1>1, <1>2, <1>3, <1>4, <1>6

\* Only USER_CREATED changes a total.
LEMMA TotalsNext ==
    ASSUME IsFiniteSet(Users), NoOverflow, LimitBuys, LedgerInv, [Next]_vars
    PROVE  \/ \E p \in Partitions, u \in Users : UserCreated(p, u)
           \/ TotalsKept /\ welcomed' = welcomed
<1>1. CASE Quiet
    BY <1>1 DEF Quiet, TotalsKept
<1>2. ASSUME NEW p \in Partitions, NEW x \in OrderIds, NEW req \in ValidOrders,
             AcceptOrder(p, x, req)
      PROVE  TotalsKept /\ welcomed' = welcomed
    BY <1>2, AcceptKeepsTotals DEF AcceptOrder, historyVars
<1>3. ASSUME NEW p \in Partitions, NEW x \in OrderIds, NEW req \in ValidOrders,
             RefuseOrder(p, x, req)
      PROVE  TotalsKept /\ welcomed' = welcomed
    BY <1>3 DEF RefuseOrder, historyVars, TotalsKept
<1>4. ASSUME NEW p \in Partitions, EmitCreatedFails(p) PROVE TotalsKept /\ welcomed' = welcomed
    BY <1>4 DEF EmitCreatedFails, ledgerVars, TotalsKept
<1>5. ASSUME NEW p \in Partitions, NEW b \in DOMAIN orders, NEW s \in DOMAIN orders,
             NEW q \in Nat, NEW price \in Nat, TradesPair(p, b, s, q, price)
      PROVE  TotalsKept /\ welcomed' = welcomed
    <2>1. welcomed' = welcomed
        BY <1>5 DEF TradesPair
    <2> QED
        BY <1>5, <2>1, TradeKeepsTotals
<1>6. ASSUME NEW x \in DOMAIN orders, Closes(x) PROVE TotalsKept /\ welcomed' = welcomed
    <2>1. welcomed' = welcomed
        BY <1>6 DEF Closes
    <2> QED
        BY <1>6, <2>1, CloseKeepsTotals
<1>7. IInv
    BY DEF LedgerInv
<1> QED
    BY <1>1, <1>2, <1>3, <1>4, <1>5, <1>6, <1>7, LedgerSteps

\* Conserved, in terms of the sums.
LEMMA ConservedIs ==
    Conserved <=>
        /\ CashOf(balance) = StartingBalance * Cardinality(welcomed)
        /\ \A e \in Events, c \in Outcomes :
              SharesOf(position, e, c) = SeedShares * Cardinality(Users)
    BY DEF Conserved, CashConserved, SharesConserved, CashOf, SharesOf

\* Nobody has cash at the start, and everybody the shares of the seed.
LEMMA ConservedInit ==
    ASSUME IsFiniteSet(Users), Init
    PROVE  Conserved
<1>1. CashOf(balance) = StartingBalance * Cardinality(welcomed)
    <2> DEFINE f == [u \in Users |-> Total(balance[u])]
    <2>1. \A u \in Users : f[u] = 0
        BY DEF Init, Zero, Total
    <2>2. CashOf(balance) = SumFunctionOnSet(f, Users)
        BY DEF CashOf
    <2> HIDE DEF f
    <2>3. SumFunctionOnSet(f, Users) = 0 * Cardinality(Users)
        BY <2>1, SumConst
    <2>4. Cardinality(Users) \in Nat /\ Cardinality(welcomed) = 0
        BY FS_CardinalityType, FS_EmptySet DEF Init
    <2> QED
        BY <2>2, <2>3, <2>4, AmountsAssumption
<1>2. ASSUME NEW e \in Events, NEW c \in Outcomes
      PROVE  SharesOf(position, e, c) = SeedShares * Cardinality(Users)
    <2> DEFINE f == [u \in Users |-> Total(position[<<u, e, c>>])]
    <2>1. \A u \in Users : f[u] = SeedShares
        <3>1. \A u \in Users : <<u, e, c>> \in PositionKeys
            BY DEF PositionKeys
        <3>2. \A k \in PositionKeys : Total(position[k]) = SeedShares
            BY AmountsAssumption DEF Init, Zero, Total
        <3> QED
            BY <3>1, <3>2
    <2>2. SharesOf(position, e, c) = SumFunctionOnSet(f, Users)
        BY DEF SharesOf
    <2> HIDE DEF f
    <2>3. SeedShares \in Int
        BY AmountsAssumption
    <2>4. SumFunctionOnSet(f, Users) = SeedShares * Cardinality(Users)
        BY <2>1, <2>3, SumConst
    <2> QED
        BY <2>2, <2>4
<1> QED
    BY <1>1, <1>2, ConservedIs

\* USER_CREATED adds one starting balance, for one more welcomed user.
LEMMA ConservedNext ==
    ASSUME IsFiniteSet(Users), NoOverflow, LimitBuys, LedgerInv, OwnersOK, Conserved,
           [Next]_vars
    PROVE  Conserved'
<1> DEFINE Cash == CashOf(balance) = StartingBalance * Cardinality(welcomed)
           Shares == \A e \in Events, c \in Outcomes :
                        SharesOf(position, e, c) = SeedShares * Cardinality(Users)
<1>1. Cash /\ Shares
    BY ConservedIs
<1>2. CashOf(balance') = CashOf(balance)' /\ \A e, c : SharesOf(position', e, c) = SharesOf(position, e, c)'
    BY DEF CashOf, SharesOf
<1>3. CASE TotalsKept /\ welcomed' = welcomed
    BY <1>1, <1>2, <1>3 DEF TotalsKept, Conserved, CashConserved, SharesConserved, CashOf, SharesOf
<1>4. ASSUME NEW p \in Partitions, NEW u \in Users, UserCreated(p, u) PROVE Conserved'
    <2> DEFINE n == Cardinality(welcomed)
    <2>1. /\ CashOf(balance') = CashOf(balance) + StartingBalance
          /\ n \in Nat /\ Cardinality(welcomed') = n + 1
          /\ position' = position
        BY <1>4, GrantTotals
    <2>2. CashOf(balance) = StartingBalance * n
        BY <1>1
    <2>3. StartingBalance * n + StartingBalance = StartingBalance * (n + 1)
        <3>1. StartingBalance \in Int
            BY AmountsAssumption
        <3> HIDE DEF n
        <3> QED
            BY <2>1, <3>1
    <2>4. CashOf(balance') = StartingBalance * Cardinality(welcomed')
        <3> HIDE DEF n
        <3> QED
            BY <2>1, <2>2, <2>3
    <2>5. Shares'
        BY <1>1, <2>1 DEF SharesOf
    <2> QED
        BY <2>4, <2>5 DEF Conserved, CashConserved, SharesConserved, CashOf, SharesOf
<1> QED
    BY <1>3, <1>4, TotalsNext

\* Whatever the workers of any number of partitions do, and whichever emits
\* fail, the users together hold the cash USER_CREATED has granted and the
\* shares that were seeded: settleTradeLocked only moves what there is.
THEOREM AlwaysConserved ==
    ASSUME IsFiniteSet(Users), NoOverflow, LimitBuys, ~LostFanout
    PROVE  Spec => []Conserved
<1> DEFINE Inv == LedgerInv /\ OwnersOK /\ Conserved
<1>1. Init => Inv
    <2>1. Init => OwnersOK
        BY DEF Init, OwnersOK
    <2> QED
        BY <2>1, InitOK, SolventInit, BackedInit, ConservedInit DEF LedgerInv
<1>2. Inv /\ [Next]_vars => Inv'
    BY NextOK, SolventNext, BackedNext, OwnersNext, ConservedNext DEF LedgerInv
<1>3. Inv => Conserved
    OBVIOUS
<1> HIDE DEF Inv
<1> QED
    BY <1>1, <1>2, <1>3, PTL DEF Spec

-----------------------------------------------------------------------------
(* Depth and open orders: whatever GET_DEPTH adds up, GET_OPEN_ORDERS does. *)

\* What every order still asks for.
Remaining == [x \in DOMAIN orders |-> orders[x].RemainingQuantity]

\* There are finitely many orders on a side.
LEMMA SideFinite ==
    ASSUME NEW S, NEW s \in Seq(S)
    PROVE  IsFiniteSet(DOMAIN s) /\ IsFiniteSet(Ids(s))
<1>1. DOMAIN s = 1 .. Len(s) /\ Len(s) \in Nat
    OBVIOUS
<1>2. IsFiniteSet(DOMAIN s)
    BY <1>1, FS_Interval
<1>3. s \in Surjection(DOMAIN s, Ids(s))
    BY DEF Surjection, Ids
<1> QED
    BY <1>2, <1>3, FS_Surjection

\* The orders that rest on a side are all counted.
LEMMA RestingCounted ==
    ASSUME IInv, NEW k \in BookKeys
    PROVE  /\ \A x \in Ids(book[k]) : /\ x \in DOMAIN orders /\ Counted(orders[x])
                                      /\ orders[x].RemainingQuantity \in Nat
                                      /\ Remaining[x] = orders[x].RemainingQuantity
           /\ book[k] \in Seq(OrderIds) /\ Distinct(book[k])
<1>1. book[k] \in Seq(OrderIds) /\ Distinct(book[k])
    BY DEF IInv, TypeOK, NoDuplicates
<1>2. ASSUME NEW x \in Ids(book[k])
      PROVE  x \in DOMAIN orders /\ Counted(orders[x]) /\ orders[x].RemainingQuantity \in Nat
    <2>1. x \in DOMAIN orders /\ Open(orders[x]) /\ orders[x].RemainingQuantity > 0
        BY DEF IInv, RestingOK
    <2>2. orders[x] \in Order
        BY <2>1 DEF IInv, TypeOK
    <2> QED
        BY <2>1, <2>2 DEF Counted, Order
<1> QED
    BY <1>1, <1>2 DEF Remaining

\* The levels of a side add up to what the orders on it ask for.
LEMMA DepthOfSide ==
    ASSUME IInv, NEW k \in BookKeys
    PROVE  SumFunctionOnSet([level \in Depth(k) |-> level.Quantity], Depth(k))
             = SumFunctionOnSet(Remaining, Ids(book[k]))
<1> DEFINE s == book[k]
           I == Ids(s)
           rem == [i \in DOMAIN s |-> orders[s[i]].RemainingQuantity]
           Level(price) == [Price |-> price,
                            Quantity |-> SumFunctionOnSet(rem, AtPrice(orders, s, price)),
                            OrderCount |-> Cardinality(AtPrice(orders, s, price))]
           At(price) == {x \in I : orders[x].Price = price}
           D == Depth(k)
           g == [x \in I |-> Level(orders[x].Price)]
           Q == [level \in D |-> level.Quantity]
           G == [level \in D |-> SumFunctionOnSet(Remaining, {x \in I : g[x] = level})]
<1>1. /\ \A x \in I : /\ x \in DOMAIN orders /\ Counted(orders[x])
                      /\ orders[x].RemainingQuantity \in Nat
                      /\ Remaining[x] = orders[x].RemainingQuantity
      /\ s \in Seq(OrderIds) /\ Distinct(s)
    BY RestingCounted
<1>2. IsFiniteSet(DOMAIN s) /\ IsFiniteSet(I)
    BY <1>1, SideFinite
<1>3. D = {Level(orders[x].Price) : x \in I}
    BY <1>1 DEF Depth
<1>4. ASSUME NEW price
      PROVE  SumFunctionOnSet(rem, AtPrice(orders, s, price)) = SumFunctionOnSet(Remaining, At(price))
    <2> DEFINE A == AtPrice(orders, s, price)
    <2>1. A = {i \in DOMAIN s : orders[s[i]].Price = price}
        BY <1>1 DEF AtPrice, Ids
    <2>2. IsFiniteSet(A)
        BY <1>2, <2>1, FS_Subset
    <2>3. \A i \in A : s[i] \in At(price) /\ rem[i] = Remaining[s[i]] /\ rem[i] \in Int
        BY <1>1, <2>1 DEF Ids
    <2>4. \A i, j \in A : s[i] = s[j] => i = j
        BY <1>1, <2>1 DEF Distinct
    <2>5. \A x \in At(price) : \E i \in A : s[i] = x
        BY <1>1, <2>1 DEF Ids
    <2> HIDE DEF A, At, rem, s
    <2> QED
        BY <2>2, <2>3, <2>4, <2>5, SumImage DEF A
<1>5. ASSUME NEW level \in D PROVE Q[level] = G[level]
    <2>1. PICK y \in I : level = Level(orders[y].Price)
        BY <1>3
    <2> DEFINE price == orders[y].Price
    <2>2. level.Price = price /\ level.Quantity = SumFunctionOnSet(rem, AtPrice(orders, s, price))
        BY <2>1
    <2>3. {x \in I : g[x] = level} = At(price)
        <3>1. \A x \in I : g[x] = Level(orders[x].Price) /\ g[x].Price = orders[x].Price
            OBVIOUS
        <3>2. ASSUME NEW x \in I, g[x] = level PROVE orders[x].Price = price
            BY <2>2, <3>1, <3>2
        <3>3. ASSUME NEW x \in I, orders[x].Price = price PROVE g[x] = level
            BY <2>1, <3>1, <3>3
        <3> QED
            BY <3>2, <3>3
    <2>4. SumFunctionOnSet(rem, AtPrice(orders, s, price)) = SumFunctionOnSet(Remaining, At(price))
        BY <1>4
    <2>5. Q[level] = level.Quantity /\ G[level] = SumFunctionOnSet(Remaining, At(price))
        BY <2>3
    <2> QED
        BY <2>2, <2>4, <2>5
<1>6. IsFiniteSet(D)
    <2>1. g \in Surjection(I, D)
        BY <1>3 DEF Surjection
    <2> QED
        BY <1>2, <2>1, FS_Surjection
<1>7. \A x \in I : g[x] \in D /\ Remaining[x] \in Int
    <2>1. \A x \in I : g[x] \in D
        BY <1>3
    <2> HIDE DEF g, D, I
    <2> QED
        BY <1>1, <2>1
<1> HIDE DEF I, D, g
<1>8. SumFunctionOnSet(Remaining, I) = SumFunctionOnSet(G, D)
    BY <1>2, <1>6, <1>7, SumGroups
<1> HIDE DEF Q, G
<1>9. SumFunctionOnSet(Q, D) = SumFunctionOnSet(G, D)
    BY <1>5, <1>6, SumCong
<1> QED
    BY <1>8, <1>9 DEF Q, D, I

\* The orders are finitely many: each was accepted in a step of its own.
LEMMA OrdersFiniteNext ==
    ASSUME IInv, [Next]_vars, IsFiniteSet(DOMAIN orders)
    PROVE  IsFiniteSet(DOMAIN orders')
<1>1. ASSUME NEW x, DOMAIN orders' \subseteq DOMAIN orders \cup {x}
      PROVE  IsFiniteSet(DOMAIN orders')
    <2>1. IsFiniteSet(DOMAIN orders \cup {x})
        BY FS_AddElement
    <2> QED
        BY <1>1, <2>1, FS_Subset
<1>2. CASE Quiet
    BY <1>1, <1>2 DEF Quiet
<1>3. CASE \E p \in Partitions, u \in Users : UserCreated(p, u)
    BY <1>1, <1>3 DEF UserCreated, marketVars
<1>4. CASE \E p \in Partitions, x \in OrderIds, req \in ValidOrders :
              AcceptOrder(p, x, req) \/ RefuseOrder(p, x, req)
    BY <1>1, <1>4 DEF AcceptOrder, RefuseOrder, Store, marketVars
<1>5. CASE \E p \in Partitions : EmitCreatedFails(p)
    BY <1>1, <1>5 DEF EmitCreatedFails, Without
<1>6. CASE \E p \in Partitions, b, s \in DOMAIN orders, q, price \in Nat : TradesPair(p, b, s, q, price)
    BY <1>1, <1>6 DEF TradesPair
<1>7. CASE \E x \in DOMAIN orders : Closes(x)
    BY <1>1, <1>7 DEF Closes
<1> QED
    BY <1>2, <1>3, <1>4, <1>5, <1>6, <1>7, LedgerSteps

\* The two queries agree in every state that satisfies the invariant.
LEMMA DepthInState ==
    ASSUME IInv, IsFiniteSet(DOMAIN orders), IsFiniteSet(Outcomes)
    PROVE  DepthAgrees
<1> SUFFICES ASSUME \A p \in Partitions : pc[p] \in {"idle", "publish", "cancelEmit"},
                    NEW e \in Events
             PROVE  SumFunctionOnSet([k \in {e} \X Outcomes \X Sides |->
                        SumFunctionOnSet([level \in Depth(k) |-> level.Quantity], Depth(k))],
                                     {e} \X Outcomes \X Sides)
                      = SumFunctionOnSet(Remaining, UNION {OpenOrders(e, u) : u \in Users})
    BY DEF DepthAgrees, Remaining
<1> DEFINE keys == {e} \X Outcomes \X Sides
           depth == [k \in keys |-> SumFunctionOnSet([level \in Depth(k) |-> level.Quantity], Depth(k))]
           O == UNION {OpenOrders(e, u) : u \in Users}
           key == [x \in DOMAIN orders |-> BookKey(orders[x])]
           G == [k \in keys |-> SumFunctionOnSet(Remaining, {x \in O : key[x] = k})]
<1>1. \A x \in DOMAIN orders : ~InFlight(x)
    BY DEF InFlight
<1>2. \A x \in DOMAIN orders : orders[x] \in Order
    BY DEF IInv, TypeOK
<1>3. O = {x \in DOMAIN orders : orders[x].EventID = e /\ Open(orders[x])}
    BY <1>2 DEF OpenOrders, Order
<1>4. keys \subseteq BookKeys
    BY DEF BookKeys
<1>5. ASSUME NEW k \in keys PROVE {x \in O : key[x] = k} = Ids(book[k])
    <2>1. ASSUME NEW x \in O, key[x] = k PROVE x \in Ids(book[k])
        BY <1>1, <1>3, <2>1 DEF IInv, NothingLost
    <2>2. ASSUME NEW x \in Ids(book[k]) PROVE x \in O /\ key[x] = k
        <3>1. x \in DOMAIN orders /\ Open(orders[x]) /\ BookKey(orders[x]) = k
            BY <1>4 DEF IInv, RestingOK
        <3>2. orders[x].EventID = e
            BY <3>1 DEF BookKey
        <3> QED
            BY <1>3, <3>1, <3>2
    <2> QED
        BY <2>1, <2>2
<1>6. \A k \in keys : depth[k] = G[k]
    BY <1>4, <1>5, DepthOfSide
<1>7. IsFiniteSet(keys)
    <2>1. IsFiniteSet({e}) /\ IsFiniteSet(Sides)
        <3>1. Sides = {SideBuy} \cup {SideSell}
            BY DEF Sides
        <3> QED
            BY <3>1, FS_Singleton, FS_AddElement
    <2>2. IsFiniteSet(({e} \X Outcomes) \X Sides)
        BY <2>1, FS_Product
    <2> DEFINE flat == [t \in ({e} \X Outcomes) \X Sides |-> <<t[1][1], t[1][2], t[2]>>]
    <2>3. flat \in Surjection(({e} \X Outcomes) \X Sides, keys)
        <3>1. ASSUME NEW t \in ({e} \X Outcomes) \X Sides PROVE flat[t] \in keys
            OBVIOUS
        <3>2. ASSUME NEW k \in keys PROVE \E t \in ({e} \X Outcomes) \X Sides : flat[t] = k
            <4>1. <<<<k[1], k[2]>>, k[3]>> \in ({e} \X Outcomes) \X Sides
                OBVIOUS
            <4>2. flat[<<<<k[1], k[2]>>, k[3]>>] = k
                BY <4>1
            <4> QED
                BY <4>1, <4>2
        <3> QED
            BY <3>1, <3>2 DEF Surjection
    <2> QED
        BY <2>2, <2>3, FS_Surjection
<1>8. IsFiniteSet(O)
    BY <1>3, FS_Subset
<1>9. \A x \in O : key[x] \in keys /\ Remaining[x] \in Int
    BY <1>2, <1>3 DEF BookKey, Order, Remaining
<1> HIDE DEF O, key, keys
<1>10. SumFunctionOnSet(Remaining, O) = SumFunctionOnSet(G, keys)
    BY <1>7, <1>8, <1>9, SumGroups
<1> HIDE DEF depth, G
<1>11. SumFunctionOnSet(depth, keys) = SumFunctionOnSet(G, keys)
    BY <1>6, <1>7, SumCong
<1> QED
    BY <1>10, <1>11 DEF depth, O, keys

\* handleGetDepth and handleGetOpenOrders never contradict each other, whatever
\* was traded, canceled or left half filled before (for finitely many outcomes;
\* the code has two).
THEOREM DepthAlwaysAgrees ==
    ASSUME IsFiniteSet(Outcomes)
    PROVE  Spec => []DepthAgrees
<1>1. Init => IsFiniteSet(DOMAIN orders)
    BY FS_EmptySet DEF Init
<1>2. IInv /\ IsFiniteSet(DOMAIN orders) /\ [Next]_vars => IsFiniteSet(DOMAIN orders)'
    BY OrdersFiniteNext
<1>3. IInv /\ IsFiniteSet(DOMAIN orders) => DepthAgrees
    BY DepthInState
<1> QED
    BY <1>1, <1>2, <1>3, Invariance, PTL DEF Spec

-----------------------------------------------------------------------------
(* Sides and queues: what happens to the queue of a price when an id is    *)
(* inserted into a side or removed from it.                                *)

\* Joining sequences, index by index.
LEMMA JoinIndex ==
    ASSUME NEW T, NEW p \in Seq(T), NEW q \in Seq(T), NEW f, f = p \o q
    PROVE  /\ f \in Seq(T) /\ DOMAIN f = 1 .. Len(p) + Len(q) /\ Len(f) = Len(p) + Len(q)
           /\ Len(p) \in Nat /\ Len(q) \in Nat
           /\ \A i \in 1 .. Len(p) : f[i] = p[i]
           /\ \A i \in 1 .. Len(q) : f[Len(p) + i] = q[i]
<1>1. /\ f \in Seq(T) /\ Len(f) = Len(p) + Len(q) /\ Len(p) \in Nat /\ Len(q) \in Nat
      /\ \A i \in 1 .. Len(p) + Len(q) : f[i] = IF i <= Len(p) THEN p[i] ELSE q[i - Len(p)]
    BY ConcatProperties, LenProperties
<1>2. \A i \in 1 .. Len(p) : f[i] = p[i]
    BY <1>1
<1>3. \A i \in 1 .. Len(q) : f[Len(p) + i] = q[i]
    <2> TAKE i \in 1 .. Len(q)
    <2>1. Len(p) + i \in 1 .. Len(p) + Len(q) /\ ~(Len(p) + i <= Len(p)) /\ (Len(p) + i) - Len(p) = i
        BY <1>1
    <2> QED
        BY <1>1, <2>1
<1> QED
    BY <1>1, <1>2, <1>3, LenProperties

\* The same with an element between the two.
LEMMA JoinAround ==
    ASSUME NEW T, NEW p \in Seq(T), NEW q \in Seq(T), NEW x \in T, NEW f, f = p \o (<<x>> \o q)
    PROVE  /\ f \in Seq(T) /\ DOMAIN f = 1 .. Len(p) + 1 + Len(q) /\ Len(f) = Len(p) + 1 + Len(q)
           /\ Len(p) \in Nat /\ Len(q) \in Nat
           /\ \A i \in 1 .. Len(p) : f[i] = p[i]
           /\ f[Len(p) + 1] = x
           /\ \A i \in 1 .. Len(q) : f[Len(p) + 1 + i] = q[i]
<1> PICK r : r = <<x>> \o q
    OBVIOUS
<1>1. <<x>> \in Seq(T) /\ Len(<<x>>) = 1 /\ <<x>>[1] = x
    OBVIOUS
<1>2. /\ r \in Seq(T) /\ Len(r) = 1 + Len(q) /\ Len(q) \in Nat
      /\ \A i \in 1 .. 1 : r[i] = <<x>>[i]
      /\ \A i \in 1 .. Len(q) : r[1 + i] = q[i]
    BY <1>1, JoinIndex
<1>3. /\ f \in Seq(T) /\ DOMAIN f = 1 .. Len(p) + Len(r) /\ Len(f) = Len(p) + Len(r) /\ Len(p) \in Nat
      /\ \A i \in 1 .. Len(p) : f[i] = p[i]
      /\ \A i \in 1 .. Len(r) : f[Len(p) + i] = r[i]
    BY <1>2, JoinIndex
<1>4. f[Len(p) + 1] = x
    <2>1. 1 \in 1 .. Len(r) /\ r[1] = x
        BY <1>1, <1>2
    <2> QED
        BY <1>3, <2>1
<1>5. \A i \in 1 .. Len(q) : f[Len(p) + 1 + i] = q[i]
    <2> TAKE i \in 1 .. Len(q)
    <2>1. 1 + i \in 1 .. Len(r) /\ Len(p) + (1 + i) = Len(p) + 1 + i
        BY <1>2, <1>3
    <2> QED
        BY <1>2, <1>3, <2>1
<1>6. Len(p) + Len(r) = Len(p) + 1 + Len(q)
    BY <1>2, <1>3
<1> QED
    BY <1>2, <1>3, <1>4, <1>5, <1>6

\* removeOrderIndex takes the element out from between the two parts.
LEMMA RemoveIndexJoin ==
    ASSUME NEW T, NEW p \in Seq(T), NEW q \in Seq(T), NEW x \in T, NEW f, f = p \o (<<x>> \o q),
           NEW k, k = Len(p) + 1
    PROVE  RemoveIndex(f, k) = p \o q
<1> PICK m : m = Len(p)
    OBVIOUS
<1> PICK n : n = Len(q)
    OBVIOUS
<1> PICK w : w = p \o q
    OBVIOUS
<1> PICK r : r = RemoveIndex(f, k)
    OBVIOUS
<1>1. /\ f \in Seq(T) /\ Len(f) = m + 1 + n /\ m \in Nat /\ n \in Nat
      /\ \A i \in 1 .. m : f[i] = p[i]
      /\ \A i \in 1 .. n : f[m + 1 + i] = q[i]
    <2>1. /\ f \in Seq(T) /\ Len(f) = Len(p) + 1 + Len(q) /\ Len(p) \in Nat /\ Len(q) \in Nat
          /\ \A i \in 1 .. Len(p) : f[i] = p[i]
          /\ \A i \in 1 .. Len(q) : f[Len(p) + 1 + i] = q[i]
        BY JoinAround
    <2> QED
        BY <2>1
<1>2. /\ w \in Seq(T) /\ Len(w) = m + n
      /\ \A i \in 1 .. m : w[i] = p[i]
      /\ \A i \in 1 .. n : w[m + i] = q[i]
    <2>1. /\ w \in Seq(T) /\ Len(w) = Len(p) + Len(q)
          /\ \A i \in 1 .. Len(p) : w[i] = p[i]
          /\ \A i \in 1 .. Len(q) : w[Len(p) + i] = q[i]
        BY JoinIndex
    <2> QED
        BY <2>1
<1>3. /\ r \in Seq(T) /\ Len(r) = m + n
      /\ \A i \in 1 .. m + n : r[i] = IF i < m + 1 THEN f[i] ELSE f[i + 1]
    <2>1. k \in 1 .. Len(f) /\ Len(f) - 1 = m + n /\ k = m + 1
        BY <1>1
    <2>2. /\ r \in Seq(T) /\ Len(r) = Len(f) - 1
          /\ \A i \in 1 .. Len(f) - 1 : r[i] = IF i < k THEN f[i] ELSE f[i + 1]
        BY <1>1, <2>1, RemoveIndexProperties
    <2> QED
        BY <2>1, <2>2
<1>4. ASSUME NEW i \in 1 .. m + n PROVE r[i] = w[i]
    <2>1. CASE i < m + 1
        <3>1. i \in 1 .. m
            BY <1>1, <2>1
        <3> QED
            BY <1>1, <1>2, <1>3, <2>1, <3>1
    <2>2. CASE ~(i < m + 1)
        <3> PICK j \in 1 .. n : m + j = i /\ m + 1 + j = i + 1
            <4>1. i - m \in 1 .. n /\ m + (i - m) = i /\ m + 1 + (i - m) = i + 1
                BY <1>1, <2>2
            <4> QED
                BY <4>1
        <3>1. w[i] = q[j] /\ f[i + 1] = q[j]
            <4>1. w[m + j] = q[j] /\ f[m + 1 + j] = q[j]
                BY <1>1, <1>2
            <4> QED
                BY <4>1
        <3>2. r[i] = f[i + 1]
            BY <1>3, <2>2
        <3> QED
            BY <3>1, <3>2
    <2> QED
        BY <2>1, <2>2
<1>5. r = w
    BY <1>1, <1>2, <1>3, <1>4, SeqEqual
<1> QED
    BY <1>5

\* removeOrderFromSlice does so where the id is found first.
LEMMA RemoveOrderFirst ==
    ASSUME NEW T, NEW s \in Seq(T), NEW n \in DOMAIN s, \A i \in DOMAIN s : s[i] = s[n] => n <= i
    PROVE  RemoveOrder(s, s[n]) = RemoveIndex(s, n)
<1> DEFINE at == {i \in DOMAIN s : s[i] = s[n]}
           c == CHOOSE i \in at : \A j \in at : i <= j
<1>1. n \in at /\ \A j \in at : n <= j
    OBVIOUS
<1>2. at \subseteq Nat
    BY LenProperties
<1>3. c \in at /\ \A j \in at : c <= j
    <2> HIDE DEF at
    <2> QED
        BY <1>1
<1>4. c = n
    <2> HIDE DEF c, at
    <2>1. c <= n /\ n <= c /\ c \in Nat /\ n \in Nat
        BY <1>1, <1>2, <1>3
    <2> QED
        BY <2>1
<1>5. RemoveOrder(s, s[n]) = IF at = {} THEN s ELSE RemoveIndex(s, c)
    BY DEF RemoveOrder
<1> QED
    BY <1>1, <1>4, <1>5

\* It changes nothing when the id is not there.
LEMMA RemoveOrderAbsent ==
    ASSUME NEW s, NEW x, x \notin Ids(s)
    PROVE  RemoveOrder(s, x) = s
    BY DEF RemoveOrder, Ids

\* The first x of a sequence is gone.
LEMMA RemoveOrderJoin ==
    ASSUME NEW T, NEW p \in Seq(T), NEW q \in Seq(T), NEW x \in T, NEW f, f = p \o (<<x>> \o q),
           x \notin Ids(p)
    PROVE  RemoveOrder(f, x) = p \o q
<1>1. /\ f \in Seq(T) /\ DOMAIN f = 1 .. Len(p) + 1 + Len(q) /\ Len(p) \in Nat /\ Len(q) \in Nat
      /\ \A i \in 1 .. Len(p) : f[i] = p[i]
      /\ f[Len(p) + 1] = x
    BY JoinAround
<1> PICK n : n = Len(p) + 1
    OBVIOUS
<1>2. n \in DOMAIN f /\ f[n] = x
    BY <1>1
<1>3. ASSUME NEW i \in DOMAIN f, f[i] = x PROVE n <= i
    <2>1. CASE i <= Len(p)
        <3>1. i \in 1 .. Len(p) /\ i \in DOMAIN p
            BY <1>1, <2>1, LenProperties
        <3> QED
            BY <1>1, <1>3, <3>1 DEF Ids
    <2> QED
        BY <1>1, <2>1
<1>4. RemoveOrder(f, x) = RemoveIndex(f, n)
    BY <1>1, <1>2, <1>3, RemoveOrderFirst
<1>5. RemoveIndex(f, n) = p \o q
    BY RemoveIndexJoin
<1> QED
    BY <1>4, <1>5

\* An order that leaves a side leaves the queue of its price, and no other.
LEMMA FilterRemove ==
    ASSUME NEW T, NEW s \in Seq(T), NEW n \in DOMAIN s, Distinct(s), NEW S
    PROVE  Filter(RemoveIndex(s, n), S) = RemoveOrder(Filter(s, S), s[n])
<1>1. n \in 1 .. Len(s) /\ s[n] \in T /\ DOMAIN s = 1 .. Len(s) /\ Len(s) \in Nat
    BY LenProperties, ElementOfSeq
<1>2. PICK a \in Seq(T), b \in Seq(T) : IsCutAround(s, n, a, b) /\ FilterAround(s, n, a, b, S)
    BY <1>1, CutAround
<1>x. PICK x \in T : x = s[n]
    BY <1>1
<1>3. /\ s = a \o (<<x>> \o b) /\ Len(a) = n - 1 /\ \A i \in 1 .. n - 1 : a[i] = s[i]
    BY <1>2, <1>x DEF IsCutAround
<1>f. Filter(s, S) = Filter(a, S) \o (One(x, S) \o Filter(b, S))
    BY <1>2, <1>x DEF FilterAround
<1>4. RemoveIndex(s, n) = a \o b
    <2>1. n = Len(a) + 1
        BY <1>1, <1>3
    <2>2. s = a \o (<<x>> \o b)
        BY <1>3
    <2> QED
        BY <2>1, <2>2, RemoveIndexJoin
<1>5. Filter(a \o b, S) = Filter(a, S) \o Filter(b, S)
    BY FilterConcat
<1> PICK p \in Seq(T), q \in Seq(T), f \in Seq(T) :
         p = Filter(a, S) /\ q = Filter(b, S) /\ f = Filter(s, S)
    BY FilterRange
<1>6. x \notin Ids(a)
    <2> SUFFICES ASSUME NEW i \in DOMAIN a, a[i] = x
                 PROVE  FALSE
        BY DEF Ids
    <2>1. i \in 1 .. n - 1 /\ i \in DOMAIN s /\ i # n
        BY <1>1, <1>3, LenProperties
    <2>2. s[i] = s[n]
        BY <1>3, <1>x, <2>1
    <2> QED
        BY <2>1, <2>2 DEF Distinct
<1>7. CASE x \in S
    <2>1. f = p \o (<<x>> \o q)
        BY <1>f, <1>7 DEF One
    <2>2. x \notin Ids(p)
        <3>1. \A i \in DOMAIN p : \E j \in DOMAIN a : a[j] = p[i]
            BY FilterRange
        <3> QED
            BY <1>6, <3>1 DEF Ids
    <2>3. RemoveOrder(f, x) = p \o q
        BY <2>1, <2>2, RemoveOrderJoin
    <2> QED
        BY <1>4, <1>5, <1>x, <2>3
<1>8. CASE x \notin S
    <2>1. One(x, S) = << >>
        BY <1>8 DEF One
    <2>2. << >> \o q = q
        BY ConcatEmptySeq
    <2>3. f = p \o q
        BY <1>f, <2>1, <2>2
    <2>4. x \notin Ids(f)
        <3>1. \A i \in DOMAIN f : f[i] \in S
            BY FilterRange
        <3> QED
            BY <1>8, <3>1 DEF Ids
    <2>5. RemoveOrder(f, x) = f
        BY <2>4, RemoveOrderAbsent
    <2> QED
        BY <1>4, <1>5, <1>x, <2>3, <2>5
<1> QED
    BY <1>7, <1>8

\* addToBook puts the id between two parts of a side.
LEMMA InsertJoin ==
    ASSUME NEW T, NEW p \in Seq(T), NEW q \in Seq(T), NEW x \in T,
           NEW s \in Seq(T), NEW k \in 0 .. Len(s), IsCut(s, k, p, q)
    PROVE  InsertAfter(s, k, x) = p \o (<<x>> \o q)
<1>n. PICK n : n = Len(q)
    OBVIOUS
<1>w. PICK w : w = p \o (<<x>> \o q)
    OBVIOUS
<1>r. PICK r : r = InsertAfter(s, k, x)
    OBVIOUS
<1>0. s = p \o q /\ k = Len(p)
    BY DEF IsCut
<1>1. /\ s \in Seq(T) /\ Len(s) = k + n /\ k \in Nat /\ n \in Nat
      /\ \A i \in 1 .. k : s[i] = p[i]
      /\ \A i \in 1 .. n : s[k + i] = q[i]
    <2>1. /\ s \in Seq(T) /\ Len(s) = Len(p) + Len(q) /\ Len(p) \in Nat /\ Len(q) \in Nat
          /\ \A i \in 1 .. Len(p) : s[i] = p[i]
          /\ \A i \in 1 .. Len(q) : s[Len(p) + i] = q[i]
        BY <1>0, JoinIndex
    <2> QED
        BY <2>1, <1>0, <1>n
<1>2. /\ w \in Seq(T) /\ Len(w) = k + 1 + n
      /\ \A i \in 1 .. k : w[i] = p[i]
      /\ w[k + 1] = x
      /\ \A i \in 1 .. n : w[k + 1 + i] = q[i]
    <2>1. /\ w \in Seq(T) /\ Len(w) = Len(p) + 1 + Len(q)
          /\ \A i \in 1 .. Len(p) : w[i] = p[i]
          /\ w[Len(p) + 1] = x
          /\ \A i \in 1 .. Len(q) : w[Len(p) + 1 + i] = q[i]
        BY <1>w, JoinAround
    <2> QED
        BY <2>1, <1>0, <1>n
<1>3. /\ r \in Seq(T) /\ Len(r) = k + 1 + n
      /\ \A i \in 1 .. k + 1 + n : r[i] = IF i <= k THEN s[i] ELSE IF i = k + 1 THEN x ELSE s[i - 1]
    <2>1. k \in 0 .. Len(s) /\ Len(s) + 1 = k + 1 + n
        BY <1>1
    <2>2. /\ r \in Seq(T) /\ Len(r) = Len(s) + 1
          /\ \A i \in 1 .. Len(s) + 1 :
                r[i] = IF i <= k THEN s[i] ELSE IF i = k + 1 THEN x ELSE s[i - 1]
        BY <1>r DEF InsertAfter
    <2> QED
        BY <2>1, <2>2
<1>4. ASSUME NEW i \in 1 .. k + 1 + n PROVE r[i] = w[i]
    <2>1. CASE i <= k
        <3>1. i \in 1 .. k
            BY <1>1, <2>1
        <3> QED
            BY <1>1, <1>2, <1>3, <2>1, <3>1
    <2>2. CASE i = k + 1
        <3>1. ~(i <= k)
            BY <1>1, <2>2
        <3> QED
            BY <1>2, <1>3, <2>2, <3>1
    <2>3. CASE ~(i <= k) /\ i # k + 1
        <3> PICK j \in 1 .. n : k + j = i - 1 /\ k + 1 + j = i
            <4>1. i - k - 1 \in 1 .. n /\ k + (i - k - 1) = i - 1 /\ k + 1 + (i - k - 1) = i
                BY <1>1, <2>3
            <4> QED
                BY <4>1
        <3>1. w[k + 1 + j] = q[j] /\ s[k + j] = q[j]
            BY <1>1, <1>2
        <3>2. r[i] = s[i - 1]
            BY <1>3, <2>3
        <3> QED
            BY <3>1, <3>2
    <2> QED
        BY <2>1, <2>2, <2>3
<1>5. r = w
    <2>1. r \in Seq(T) /\ w \in Seq(T) /\ Len(r) = Len(w) /\ Len(r) = k + 1 + n
        BY <1>2, <1>3
    <2>2. \A i \in 1 .. Len(r) : r[i] = w[i]
        BY <2>1, <1>4
    <2> QED
        BY <2>1, <2>2, SeqEqual
<1> QED
    BY <1>5, <1>r, <1>w

\* An order that joins a side behind all of its price joins the end of the
\* queue of that price, and no other queue.
LEMMA FilterInsert ==
    ASSUME NEW T, NEW s \in Seq(T), NEW k \in 0 .. Len(s), NEW x \in T, NEW S
    PROVE  /\ x \notin S => Filter(InsertAfter(s, k, x), S) = Filter(s, S)
           /\ x \in S /\ (\A i \in DOMAIN s : i > k => s[i] \notin S)
                 => Filter(InsertAfter(s, k, x), S) = Append(Filter(s, S), x)
<1>1. Len(s) \in Nat /\ DOMAIN s = 1 .. Len(s) /\ k \in Nat
    BY LenProperties
<1>2. PICK a \in Seq(T), b \in Seq(T) : IsCut(s, k, a, b)
    BY Cut
<1>3. s = a \o b /\ Len(a) = k /\ Len(b) = Len(s) - k /\ \A i \in 1 .. Len(s) - k : b[i] = s[k + i]
    BY <1>2 DEF IsCut
<1>c. PICK c : c = <<x>> \o b
    OBVIOUS
<1>4. InsertAfter(s, k, x) = a \o c
    <2>2. InsertAfter(s, k, x) = a \o (<<x>> \o b)
        BY <1>2, InsertJoin
    <2> QED
        BY <1>c, <2>2
<1>5. c \in Seq(T) /\ <<x>> \in Seq(T)
    BY <1>c, JoinIndex
<1>6. /\ Filter(s, S) = Filter(a, S) \o Filter(b, S)
      /\ Filter(a \o c, S) = Filter(a, S) \o Filter(c, S)
      /\ Filter(c, S) = Filter(<<x>>, S) \o Filter(b, S)
      /\ Filter(<<x>>, S) = One(x, S)
    BY <1>3, <1>5, <1>c, FilterConcat, FilterFirst
<1> PICK p \in Seq(T), q \in Seq(T) : p = Filter(a, S) /\ q = Filter(b, S)
    BY FilterRange
<1>7. Filter(InsertAfter(s, k, x), S) = p \o (One(x, S) \o q) /\ Filter(s, S) = p \o q
    BY <1>4, <1>6
<1>8. ASSUME x \notin S PROVE Filter(InsertAfter(s, k, x), S) = Filter(s, S)
    <2>1. One(x, S) = << >> /\ << >> \o q = q
        BY <1>8, ConcatEmptySeq DEF One
    <2> QED
        BY <1>7, <2>1
<1>9. ASSUME x \in S, \A i \in DOMAIN s : i > k => s[i] \notin S
      PROVE  Filter(InsertAfter(s, k, x), S) = Append(Filter(s, S), x)
    <2>1. \A i \in DOMAIN b : b[i] \notin S
        <3> TAKE i \in DOMAIN b
        <3>1. i \in 1 .. Len(s) - k /\ k + i \in 1 .. Len(s) /\ k + i > k
            BY <1>1, <1>3, LenProperties
        <3> QED
            BY <1>1, <1>3, <1>9, <3>1
    <2>2. q = << >>
        BY <2>1, FilterNone
    <2>3. One(x, S) = <<x>> /\ <<x>> \o << >> = <<x>> /\ p \o << >> = p
        BY <1>9, ConcatEmptySeq DEF One
    <2>4. Append(p, x) = p \o <<x>>
        BY AppendIsConcat
    <2> QED
        BY <1>7, <2>2, <2>3, <2>4
<1> QED
    BY <1>8, <1>9

\* What is ahead of an element in its queue was ahead of it on the side.
LEMMA FilterOrder ==
    ASSUME NEW T, NEW s \in Seq(T), NEW n \in DOMAIN s, Distinct(s), NEW S, s[n] \in S,
           NEW f, f = Filter(s, S), NEW i \in DOMAIN f, NEW j \in DOMAIN f, f[j] = s[n], i < j
    PROVE  \E h \in DOMAIN s : h < n /\ s[h] = f[i]
<1>1. n \in 1 .. Len(s) /\ s[n] \in T /\ DOMAIN s = 1 .. Len(s) /\ Len(s) \in Nat
    BY LenProperties, ElementOfSeq
<1>2. PICK a \in Seq(T), b \in Seq(T) : IsCutAround(s, n, a, b) /\ FilterAround(s, n, a, b, S)
    BY <1>1, CutAround
<1>3. PICK x \in T : x = s[n]
    BY <1>1
<1>4. /\ Len(a) = n - 1 /\ Len(b) = Len(s) - n
      /\ \A l \in 1 .. n - 1 : a[l] = s[l]
      /\ \A l \in 1 .. Len(s) - n : b[l] = s[n + l]
    BY <1>2 DEF IsCutAround
<1>5. PICK p \in Seq(T), q \in Seq(T) : p = Filter(a, S) /\ q = Filter(b, S)
    BY FilterRange
<1>6. f = p \o (<<x>> \o q)
    BY <1>2, <1>3, <1>5 DEF FilterAround, One
<1>7. /\ DOMAIN f = 1 .. Len(p) + 1 + Len(q) /\ Len(p) \in Nat /\ Len(q) \in Nat
      /\ \A l \in 1 .. Len(p) : f[l] = p[l]
      /\ \A l \in 1 .. Len(q) : f[Len(p) + 1 + l] = q[l]
    BY <1>6, JoinAround
<1>8. \A l \in 1 .. Len(p) : \E h \in DOMAIN s : h < n /\ s[h] = p[l]
    <2> TAKE l \in 1 .. Len(p)
    <2>1. l \in DOMAIN p
        BY LenProperties
    <2>2. PICK h \in DOMAIN a : a[h] = p[l]
        BY <1>5, <2>1, FilterRange
    <2>3. h \in 1 .. n - 1 /\ h \in DOMAIN s /\ h < n
        BY <1>1, <1>4, LenProperties
    <2> QED
        BY <1>4, <2>2, <2>3
<1>9. \A l \in 1 .. Len(q) : q[l] # x
    <2> TAKE l \in 1 .. Len(q)
    <2>1. l \in DOMAIN q
        BY LenProperties
    <2>2. PICK h \in DOMAIN b : b[h] = q[l]
        BY <1>5, <2>1, FilterRange
    <2>3. h \in 1 .. Len(s) - n /\ n + h \in DOMAIN s /\ n + h # n
        BY <1>1, <1>4, LenProperties
    <2>4. s[n + h] = q[l]
        BY <1>4, <2>2, <2>3
    <2> QED
        BY <1>3, <2>3, <2>4 DEF Distinct
<1>10. CASE i <= Len(p)
    <2>1. i \in 1 .. Len(p) /\ f[i] = p[i]
        BY <1>7, <1>10
    <2> QED
        BY <1>8, <2>1
<1>11. CASE ~(i <= Len(p))
    <2>1. PICK l \in 1 .. Len(q) : j = Len(p) + 1 + l
        <3>1. j - Len(p) - 1 \in 1 .. Len(q) /\ j = Len(p) + 1 + (j - Len(p) - 1)
            BY <1>7, <1>11
        <3> QED
            BY <3>1
    <2>2. f[j] = q[l]
        BY <1>7, <2>1
    <2> QED
        BY <1>3, <1>9, <2>2
<1> QED
    BY <1>10, <1>11

-----------------------------------------------------------------------------
(* Sides stay sorted                                                       *)

\* A side is sorted: nothing stands behind an order that it beats.
SortedSide(os, s, side) ==
    \A i, j \in DOMAIN s : i < j => ~Better(side, os[s[j]].Price, os[s[i]].Price)

\* On a sorted side the stable sort puts an order behind everything it does
\* not beat and ahead of everything it beats.
PutInPlace(os, s, x, side, k) ==
    \A i \in DOMAIN s : i <= k <=> ~Better(side, os[x].Price, os[s[i]].Price)

\* There is such a place, and addToBook finds it.
LEMMA AddToBookPlace ==
    ASSUME NEW T, NEW s \in Seq(T), NEW os, NEW x \in T, NEW side \in Sides,
           os[x].Side = side, os[x].Price \in Nat, \A i \in DOMAIN s : os[s[i]].Price \in Nat,
           SortedSide(os, s, side)
    PROVE  \E k \in 0 .. Len(s) : /\ AddToBook(os, s, x) = InsertAfter(s, k, x)
                                  /\ PutInPlace(os, s, x, side, k)
<1> DEFINE ahead == {i \in DOMAIN s : ~Better(side, os[x].Price, os[s[i]].Price)}
           behind == (1 .. Len(s)) \ ahead
<1>1. Len(s) \in Nat /\ DOMAIN s = 1 .. Len(s) /\ ahead \subseteq 1 .. Len(s)
    BY LenProperties
<1>2. AddToBook(os, s, x) = InsertAfter(s, Cardinality(ahead), x)
    BY DEF AddToBook
<1>3. ASSUME NEW i \in DOMAIN s, NEW j \in DOMAIN s, i < j, j \in ahead PROVE i \in ahead
    <2>1. /\ ~Better(side, os[x].Price, os[s[j]].Price)
          /\ ~Better(side, os[s[j]].Price, os[s[i]].Price)
          /\ os[s[i]].Price \in Nat /\ os[s[j]].Price \in Nat
        BY <1>3 DEF SortedSide
    <2>2. ~Better(side, os[x].Price, os[s[i]].Price)
        BY <2>1 DEF Better
    <2> QED
        BY <2>2
<1>4. \A i \in DOMAIN s : i \in ahead <=> ~Better(side, os[x].Price, os[s[i]].Price)
    OBVIOUS
<1> HIDE DEF ahead
<1>5. \E k \in 0 .. Len(s) : ahead = 1 .. k
    <2>1. CASE behind = {}
        <3>1. ahead = 1 .. Len(s)
            BY <1>1, <2>1
        <3>2. Len(s) \in 0 .. Len(s)
            BY <1>1
        <3> QED
            BY <3>1, <3>2
    <2>2. CASE behind # {}
        <3>1. behind \subseteq Nat
            BY <1>1
        <3> HIDE DEF behind
        <3>2. PICK n \in behind : \A m \in behind : n <= m
            BY <2>2, <3>1, SmallestExists
        <3> USE DEF behind
        <3>3. n \in 1 .. Len(s) /\ n \notin ahead
            OBVIOUS
        <3>4. \A i \in 1 .. Len(s) : i < n => i \in ahead
            BY <1>1, <3>2, <3>3
        <3>5. \A i \in 1 .. Len(s) : ~(i < n) => i \notin ahead
            <4> SUFFICES ASSUME NEW i \in 1 .. Len(s), ~(i < n), i \in ahead PROVE FALSE
                OBVIOUS
            <4>1. n < i
                BY <3>3
            <4> QED
                BY <1>1, <1>3, <3>3, <4>1
        <3>6. ahead = 1 .. n - 1
            <4>1. \A i \in ahead : i \in 1 .. n - 1
                BY <1>1, <3>3, <3>5
            <4>2. \A i \in 1 .. n - 1 : i \in ahead
                BY <1>1, <3>3, <3>4
            <4> QED
                BY <4>1, <4>2
        <3>7. n - 1 \in 0 .. Len(s)
            BY <1>1, <3>3
        <3> QED
            BY <3>6, <3>7
    <2> QED
        BY <2>1, <2>2
<1>6. PICK k \in 0 .. Len(s) : ahead = 1 .. k
    BY <1>5
<1>7. Cardinality(ahead) = k
    <2>1. k \in Nat
        BY <1>1
    <2>2. Cardinality(1 .. k) = IF 1 > k THEN 0 ELSE k - 1 + 1
        BY <2>1, FS_Interval
    <2> QED
        BY <1>6, <2>1, <2>2
<1>8. PutInPlace(os, s, x, side, k)
    BY <1>1, <1>4, <1>6 DEF PutInPlace
<1> QED
    BY <1>2, <1>7, <1>8

\* The side is sorted afterwards.
LEMMA SortedInsert ==
    ASSUME NEW T, NEW s \in Seq(T), NEW os, NEW x \in T, NEW side \in Sides,
           os[x].Price \in Nat, \A i \in DOMAIN s : os[s[i]].Price \in Nat,
           SortedSide(os, s, side), NEW k \in 0 .. Len(s), PutInPlace(os, s, x, side, k)
    PROVE  SortedSide(os, InsertAfter(s, k, x), side)
<1> DEFINE r == InsertAfter(s, k, x)
<1>1. /\ Len(s) \in Nat /\ DOMAIN s = 1 .. Len(s) /\ k \in Nat /\ k <= Len(s)
      /\ DOMAIN r = 1 .. Len(s) + 1
      /\ \A i \in 1 .. Len(s) + 1 :
            r[i] = IF i <= k THEN s[i] ELSE IF i = k + 1 THEN x ELSE s[i - 1]
    BY LenProperties DEF InsertAfter
<1> HIDE DEF r
<1> SUFFICES ASSUME NEW i \in DOMAIN r, NEW j \in DOMAIN r, i < j
             PROVE  ~Better(side, os[r[j]].Price, os[r[i]].Price)
    BY DEF SortedSide, r
<1>2. CASE j <= k
    <2>1. r[i] = s[i] /\ r[j] = s[j] /\ i \in DOMAIN s /\ j \in DOMAIN s
        BY <1>1, <1>2
    <2> QED
        BY <2>1 DEF SortedSide
<1>3. CASE j = k + 1
    <2>1. r[i] = s[i] /\ r[j] = x /\ i \in DOMAIN s /\ i <= k
        BY <1>1, <1>3
    <2> QED
        BY <2>1 DEF PutInPlace
<1>4. CASE j > k + 1 /\ i = k + 1
    <2>1. r[i] = x /\ r[j] = s[j - 1] /\ j - 1 \in DOMAIN s /\ ~(j - 1 <= k)
        BY <1>1, <1>4
    <2>2. Better(side, os[x].Price, os[s[j - 1]].Price) /\ os[s[j - 1]].Price \in Nat
        BY <2>1 DEF PutInPlace
    <2>3. ~Better(side, os[s[j - 1]].Price, os[x].Price)
        BY <2>2 DEF Better
    <2> QED
        BY <2>1, <2>3
<1>5. CASE j > k + 1 /\ i <= k
    <2>1. r[i] = s[i] /\ r[j] = s[j - 1] /\ i \in DOMAIN s /\ j - 1 \in DOMAIN s /\ i < j - 1
        BY <1>1, <1>5
    <2> QED
        BY <2>1 DEF SortedSide
<1>6. CASE j > k + 1 /\ i > k + 1
    <2>1. /\ r[i] = s[i - 1] /\ r[j] = s[j - 1]
          /\ i - 1 \in DOMAIN s /\ j - 1 \in DOMAIN s /\ i - 1 < j - 1
        BY <1>1, <1>6
    <2> QED
        BY <2>1 DEF SortedSide
<1> QED
    BY <1>1, <1>2, <1>3, <1>4, <1>5, <1>6

\* Taking an order off a side leaves it sorted.
LEMMA SortedRemove ==
    ASSUME NEW T, NEW s \in Seq(T), NEW os, NEW side, SortedSide(os, s, side), NEW n \in DOMAIN s
    PROVE  SortedSide(os, RemoveIndex(s, n), side)
<1> DEFINE r == RemoveIndex(s, n)
<1>1. /\ Len(s) \in Nat /\ DOMAIN s = 1 .. Len(s) /\ n \in 1 .. Len(s)
      /\ DOMAIN r = 1 .. Len(s) - 1
      /\ \A i \in 1 .. Len(s) - 1 : r[i] = IF i < n THEN s[i] ELSE s[i + 1]
    BY LenProperties DEF RemoveIndex
<1> HIDE DEF r
<1> SUFFICES ASSUME NEW i \in DOMAIN r, NEW j \in DOMAIN r, i < j
             PROVE  ~Better(side, os[r[j]].Price, os[r[i]].Price)
    BY DEF SortedSide, r
<1>2. \E a, b \in DOMAIN s : a < b /\ r[i] = s[a] /\ r[j] = s[b]
    <2>1. CASE j < n
        <3>1. i \in DOMAIN s /\ j \in DOMAIN s /\ r[i] = s[i] /\ r[j] = s[j]
            BY <1>1, <2>1
        <3> QED
            BY <3>1
    <2>2. CASE ~(j < n) /\ i < n
        <3>1. i \in DOMAIN s /\ j + 1 \in DOMAIN s /\ r[i] = s[i] /\ r[j] = s[j + 1] /\ i < j + 1
            BY <1>1, <2>2
        <3> QED
            BY <3>1
    <2>3. CASE ~(j < n) /\ ~(i < n)
        <3>1. /\ i + 1 \in DOMAIN s /\ j + 1 \in DOMAIN s /\ r[i] = s[i + 1] /\ r[j] = s[j + 1]
              /\ i + 1 < j + 1
            BY <1>1, <2>3
        <3> QED
            BY <3>1
    <2> QED
        BY <2>1, <2>2, <2>3
<1> QED
    BY <1>2 DEF SortedSide

-----------------------------------------------------------------------------
(* Implementing the exchange: what the steps do to orders and books        *)

\* What Exchange keeps of an order, field by field.
SameTerms(o, r) ==
    /\ o.UserID = r.UserID /\ o.EventID = r.EventID /\ o.Outcome = r.Outcome
    /\ o.Side = r.Side /\ o.OrderType = r.OrderType /\ o.Price = r.Price

\* One iteration of matchAgainstBook on the books: x trades q with y, which
\* findCounterparty found at index n of the side m.
TradesWith(p, x, y, m, n, q) ==
    /\ pc[p] = "matching" /\ x = cur[p] /\ m = OppositeKey(orders[x])
    /\ x \in DOMAIN orders /\ y \in DOMAIN orders /\ x # y
    /\ orders[x] \in Order /\ orders[y] \in Order
    /\ Open(orders[x]) /\ Open(orders[y])
    /\ m \in BookKeys /\ n \in DOMAIN book[m] /\ y = book[m][n]
    /\ BookKey(orders[y]) = m /\ orders[y].OrderType = OrderTypeLimit
    /\ FindCounterparty(orders, book[m], orders[x], n)
    /\ orders[x].RemainingQuantity > 0
    /\ q = Min2(orders[x].RemainingQuantity, orders[y].RemainingQuantity) /\ q \in Nat \ {0}
    /\ DOMAIN orders' = DOMAIN orders
    /\ \A z \in DOMAIN orders : z # x /\ z # y => orders'[z] = orders[z]
    /\ \A z \in {x, y} : /\ SameTerms(orders'[z], orders[z])
                         /\ orders'[z].RemainingQuantity = orders[z].RemainingQuantity - q
    /\ orders'[x].Status = orders[x].Status
    /\ orders'[y].Status = IF orders[y].RemainingQuantity = q THEN StatusFilled ELSE StatusPartial
    /\ book'[m] = IF orders[y].RemainingQuantity = q THEN RemoveIndex(book[m], n) ELSE book[m]
    /\ \A k \in BookKeys : k # m => book'[k] = book[k]
    /\ mu' = mu /\ cur' = cur

\* MatchPair is such a trade.
LEMMA MatchPairTrades ==
    ASSUME IInv, NEW p \in Partitions, MatchPair(p)
    PROVE  \E x, y \in OrderIds, m \in BookKeys, n, q \in Nat : TradesWith(p, x, y, m, n, q)
<1> DEFINE x == cur[p]
           m == OppositeKey(orders[x])
<1>1. pc[p] = "matching" /\ orders[x].RemainingQuantity > 0 /\ mu' = mu /\ cur' = cur
    BY DEF MatchPair
<1>2. orders[x] \in Order /\ m \in BookKeys /\ Opponents(p) = book[m]
    BY <1>1, OpponentsIsBook
<1>3. PICK n \in DOMAIN book[m] :
         FindCounterparty(orders, book[m], orders[x], n) /\ ExecutePair(p, n)
    BY <1>2 DEF MatchPair
<1> DEFINE y == book[m][n]
           q == Min2(orders[x].RemainingQuantity, orders[y].RemainingQuantity)
           cost == Int64(q * orders[y].Price)
<1>4. /\ orders' = [orders EXCEPT ![x] = Fill(@, q, cost), ![y] = FillResting(@, q, cost)]
      /\ book' = [book EXCEPT ![m] =
                    IF orders[y].RemainingQuantity = q THEN RemoveIndex(book[m], n) ELSE book[m]]
    BY <1>2, <1>3 DEF ExecutePair
<1>5. /\ x \in DOMAIN orders /\ Open(orders[x]) /\ x \in OrderIds
      /\ \A j \in BookKeys : x \notin Ids(book[j])
    BY <1>1, InFlightProperties DEF InFlightPhases, IInv, WorkersOK, InFlightOK, Open
<1>6. /\ y \in DOMAIN orders /\ y # x /\ orders[y] \in Order /\ y \in OrderIds
      /\ Open(orders[y]) /\ orders[y].RemainingQuantity > 0
      /\ orders[y].OrderType = OrderTypeLimit /\ BookKey(orders[y]) = m
    <2>1. y \in Ids(book[m])
        BY DEF Ids
    <2>2. RestingOK!(m)!(y)
        BY <1>2, <2>1 DEF IInv, RestingOK
    <2> QED
        BY <1>2, <1>5, <2>1, <2>2 DEF IInv, TypeOK
<1>7. n \in Nat
    BY <1>2, LenProperties DEF IInv, TypeOK
<1>8. /\ \A k \in BookKeys : k # m => book'[k] = book[k]
      /\ book'[m] = IF orders[y].RemainingQuantity = q THEN RemoveIndex(book[m], n) ELSE book[m]
    <2> HIDE DEF x, y, m, q
    <2> QED
        BY <1>2, <1>4 DEF IInv, TypeOK
<1> HIDE DEF x, y, m
<1>9. /\ q \in Nat \ {0}
      /\ q <= orders[x].RemainingQuantity /\ q <= orders[y].RemainingQuantity
    <2>1. orders[x].RemainingQuantity \in Nat \ {0} /\ orders[y].RemainingQuantity \in Nat \ {0}
        BY <1>1, <1>2, <1>6 DEF Order
    <2> QED
        BY <2>1 DEF Min2
<1>10. cost \in Int
    BY <1>6, <1>9, Int64Type DEF Order
<1> DEFINE fx == Fill(orders[x], q, cost)
           fy == FillResting(orders[y], q, cost)
<1>11. /\ fx.RemainingQuantity = orders[x].RemainingQuantity - q
       /\ fy.RemainingQuantity = orders[y].RemainingQuantity - q
       /\ fx.Status = orders[x].Status
       /\ fy.Status = IF orders[y].RemainingQuantity = q THEN StatusFilled ELSE StatusPartial
    <2> HIDE DEF q, cost
    <2> QED
        BY <1>2, <1>6, <1>9, <1>10, FillProperties, FillRestingProperties
<1>12. SameTerms(fx, orders[x]) /\ SameTerms(fy, orders[y])
    <2> HIDE DEF q, cost
    <2> QED
        BY <1>2, <1>6, <1>9, <1>10, FillFields DEF SameTerms
<1>13. /\ DOMAIN orders' = DOMAIN orders
       /\ orders'[x] = fx /\ orders'[y] = fy
       /\ \A z \in DOMAIN orders : z # x /\ z # y => orders'[z] = orders[z]
    <2> HIDE DEF q, cost
    <2> QED
        BY <1>4, <1>5, <1>6
<1> HIDE DEF fx, fy
<1>14. \A z \in {x, y} : /\ SameTerms(orders'[z], orders[z])
                         /\ orders'[z].RemainingQuantity = orders[z].RemainingQuantity - q
    BY <1>11, <1>12, <1>13
<1>15. q = Min2(orders[x].RemainingQuantity, orders[y].RemainingQuantity)
    OBVIOUS
<1> HIDE DEF q
<1>16. x = cur[p] /\ m = OppositeKey(orders[x]) /\ y = book[m][n]
    BY DEF x, y, m
<1>17. TradesWith(p, x, y, m, n, q)
    BY <1>1, <1>2, <1>3, <1>5, <1>6, <1>8, <1>9, <1>11, <1>13, <1>14, <1>15, <1>16 DEF TradesWith
<1> QED
    BY <1>2, <1>5, <1>6, <1>7, <1>9, <1>17

\* The end of matchOrder on the books: order x rests on its side k, or is
\* closed. Either way nobody was left to trade with, or it was filled.
Rests(x, k) ==
    /\ orders[x].OrderType = OrderTypeLimit /\ orders[x].RemainingQuantity > 0
    /\ Candidates(orders, book[OppositeKey(orders[x])], orders[x]) = {}
    /\ Open(orders'[x])
    /\ book'[k] = AddToBook(orders, book[k], x)
    /\ \A j \in BookKeys : j # k => book'[j] = book[j]

Leaves(x) ==
    /\ \/ orders[x].RemainingQuantity = 0
       \/ /\ orders[x].OrderType = OrderTypeMarket
          /\ Candidates(orders, book[OppositeKey(orders[x])], orders[x]) = {}
    /\ ~Open(orders'[x])
    /\ book' = book

Finishes(p, x, k) ==
    /\ pc[p] = "matching" /\ x = cur[p] /\ k = BookKey(orders[x])
    /\ x \in DOMAIN orders /\ orders[x] \in Order /\ Open(orders[x])
    /\ k \in BookKeys /\ OppositeKey(orders[x]) \in BookKeys
    /\ \A j \in BookKeys : x \notin Ids(book[j])
    /\ DOMAIN orders' = DOMAIN orders
    /\ \A z \in DOMAIN orders : z # x => orders'[z] = orders[z]
    /\ SameTerms(orders'[x], orders[x])
    /\ orders'[x].RemainingQuantity = orders[x].RemainingQuantity
    /\ Rests(x, k) \/ Leaves(x)
    /\ mu' = Free

\* FinishMatch does this.
LEMMA FinishMatchFinishes ==
    ASSUME IInv, NEW p \in Partitions, FinishMatch(p)
    PROVE  \E x \in OrderIds, k \in BookKeys : Finishes(p, x, k)
<1> DEFINE x == cur[p]
           o == orders[x]
           k == BookKey(o)
           m == OppositeKey(o)
           final == FinalStatus(o)
           done == final \in {StatusFilled, StatusCanceled}
<1>1. pc[p] = "matching" /\ mu' = Free
    BY DEF FinishMatch
<1>2. /\ o \in Order /\ k \in BookKeys /\ m \in BookKeys /\ Opponents(p) = book[m]
      /\ x \in DOMAIN orders /\ x \in OrderIds /\ Open(o)
      /\ \A j \in BookKeys : x \notin Ids(book[j])
    BY <1>1, OpponentsIsBook, KeysOK, InFlightProperties
       DEF InFlightPhases, IInv, WorkersOK, InFlightOK, Open
<1>3. book' = IF done THEN book ELSE [book EXCEPT ![k] = AddToBook(orders, @, x)]
    <2>1. [book EXCEPT ![m] = Opponents(p)] = book
        BY <1>2 DEF IInv, TypeOK
    <2> QED
        BY <2>1 DEF FinishMatch
<1>4. /\ o.RemainingQuantity = 0 \/ Candidates(orders, book[m], o) = {}
      /\ orders' = [orders EXCEPT ![x].Status = final,
                                  ![x].LockedFunds = IF done /\ @ > 0 THEN 0 ELSE @]
    BY <1>2 DEF FinishMatch
<1>5. /\ DOMAIN orders' = DOMAIN orders
      /\ \A z \in DOMAIN orders : z # x => orders'[z] = orders[z]
      /\ SameTerms(orders'[x], o)
      /\ orders'[x].RemainingQuantity = o.RemainingQuantity
    BY FinishMatchEffect DEF Closes, SameTerms
<1>6. orders'[x].Status = final
    <2> HIDE DEF final, done, x
    <2> QED
        BY <1>2, <1>4 DEF o, Order
<1>7. o.RemainingQuantity \in Nat /\ o.OrderType \in OrderTypes
    BY <1>2 DEF Order
<1>8. CASE done
    <2>1. ~Open(orders'[x])
        BY <1>6, <1>8 DEF Open, StatusFilled, StatusCanceled, StatusPending, StatusPartial
    <2>2. o.RemainingQuantity = 0 \/ o.OrderType = OrderTypeMarket
        BY <1>8 DEF FinalStatus, StatusFilled, StatusCanceled, StatusPending, StatusPartial
    <2>3. Leaves(x)
        BY <1>3, <1>4, <1>8, <2>1, <2>2 DEF Leaves
    <2> QED
        BY <1>1, <1>2, <1>5, <2>3 DEF Finishes
<1>9. CASE ~done
    <2>1. o.RemainingQuantity # 0 /\ o.OrderType = OrderTypeLimit
        BY <1>7, <1>9 DEF FinalStatus, OrderTypes
    <2>2. final \in {StatusPending, StatusPartial}
        BY <2>1 DEF FinalStatus, OrderTypeLimit, OrderTypeMarket
    <2>3. Open(orders'[x])
        BY <1>6, <2>2 DEF Open
    <2>4. book'[k] = AddToBook(orders, book[k], x) /\ \A j \in BookKeys : j # k => book'[j] = book[j]
        <3> HIDE DEF k, x, done
        <3> QED
            BY <1>2, <1>3, <1>9 DEF IInv, TypeOK
    <2>5. o.RemainingQuantity > 0
        BY <1>7, <2>1
    <2>6. Rests(x, k)
        BY <1>4, <2>1, <2>3, <2>4, <2>5 DEF Rests
    <2> QED
        BY <1>1, <1>2, <1>5, <2>6 DEF Finishes
<1> QED
    BY <1>8, <1>9

\* A cancel on the books: order x is closed and taken off its side, where it
\* is unless it is in flight.
Cancels(x, k) ==
    /\ mu = Free /\ mu' = Free
    /\ x \in DOMAIN orders /\ orders[x] \in Order /\ Open(orders[x]) /\ ~Open(orders'[x])
    /\ k = BookKey(orders[x]) /\ k \in BookKeys
    /\ DOMAIN orders' = DOMAIN orders
    /\ \A z \in DOMAIN orders : z # x => orders'[z] = orders[z]
    /\ SameTerms(orders'[x], orders[x])
    /\ \A j \in BookKeys : j # k => x \notin Ids(book[j]) /\ book'[j] = book[j]
    /\ \/ x \notin Ids(book[k]) /\ book'[k] = book[k]
       \/ \E n \in DOMAIN book[k] : x = book[k][n] /\ book'[k] = RemoveIndex(book[k], n)

\* CancelOrder does this.
LEMMA CancelOrderCancels ==
    ASSUME IInv, NEW p \in Partitions, NEW x \in OrderIds, CancelOrder(p, x)
    PROVE  \E k \in BookKeys : Cancels(x, k)
<1> DEFINE k == BookKey(orders[x])
<1>1. /\ mu = Free /\ mu' = Free /\ x \in DOMAIN orders /\ Open(orders[x])
      /\ book' = [book EXCEPT ![k] = RemoveOrder(@, x)]
      /\ orders' = [orders EXCEPT ![x].Status = StatusCanceled,
                                  ![x].LockedFunds = IF @ > 0 THEN 0 ELSE @]
    BY DEF CancelOrder, Idle
<1>2. orders[x] \in Order /\ k \in BookKeys
    BY <1>1, KeysOK DEF IInv, TypeOK
<1>3. /\ DOMAIN orders' = DOMAIN orders
      /\ \A z \in DOMAIN orders : z # x => orders'[z] = orders[z]
      /\ SameTerms(orders'[x], orders[x])
    BY CancelEffect DEF Closes, SameTerms
<1>4. ~Open(orders'[x])
    <2>1. orders'[x].Status = StatusCanceled
        BY <1>1, <1>2 DEF Order
    <2> QED
        BY <2>1 DEF Open, StatusCanceled, StatusPending, StatusPartial
<1>5. \A j \in BookKeys : j # k => x \notin Ids(book[j])
    BY DEF IInv, RestingOK
<1>6. book[k] \in Seq(OrderIds) /\ Distinct(book[k])
    BY <1>2 DEF IInv, TypeOK, NoDuplicates
<1> HIDE DEF k
<1>7. book'[k] = RemoveOrder(book[k], x) /\ \A j \in BookKeys : j # k => book'[j] = book[j]
    BY <1>1, <1>2 DEF IInv, TypeOK
<1>8. \/ x \notin Ids(book[k]) /\ book'[k] = book[k]
      \/ \E n \in DOMAIN book[k] : x = book[k][n] /\ book'[k] = RemoveIndex(book[k], n)
    <2>1. CASE x \notin Ids(book[k])
        BY <1>7, <2>1, RemoveOrderAbsent
    <2>2. CASE x \in Ids(book[k])
        <3>1. PICK n \in DOMAIN book[k] : x = book[k][n]
            BY <2>2 DEF Ids
        <3>2. n \in Nat /\ \A i \in DOMAIN book[k] : book[k][i] = book[k][n] => n <= i
            BY <1>6, LenProperties DEF Distinct
        <3>3. RemoveOrder(book[k], book[k][n]) = RemoveIndex(book[k], n)
            BY <1>6, <3>2, RemoveOrderFirst
        <3> QED
            BY <1>7, <3>1, <3>3
    <2> QED
        BY <2>1, <2>2
<1>9. k = BookKey(orders[x])
    BY DEF k
<1>10. Cancels(x, k)
    BY <1>1, <1>2, <1>3, <1>4, <1>5, <1>7, <1>8, <1>9 DEF Cancels
<1> QED
    BY <1>2, <1>10

-----------------------------------------------------------------------------
(* Implementing the exchange: sides are sorted, limits are prices          *)

\* Every side is sorted by price, and every limit is one of the prices.
SortedBooks == \A k \in BookKeys : SortedSide(orders, book[k], k[3])
PricesOK == \A x \in DOMAIN orders : orders[x].OrderType = OrderTypeLimit => orders[x].Price \in Prices
SidesInv == SortedBooks /\ PricesOK

\* A side stays sorted when its orders keep their prices.
LEMMA SortedCong ==
    ASSUME NEW s, NEW os, NEW ns, NEW side, SortedSide(os, s, side),
           \A i \in DOMAIN s : ns[s[i]].Price = os[s[i]].Price
    PROVE  SortedSide(ns, s, side)
    BY DEF SortedSide

\* What is on a side is a known order, with its key and a price.
LEMMA OnBook ==
    ASSUME IInv, NEW k \in BookKeys, NEW i \in DOMAIN book[k]
    PROVE  /\ book[k] \in Seq(OrderIds) /\ i \in 1 .. Len(book[k])
           /\ book[k][i] \in Ids(book[k]) /\ book[k][i] \in DOMAIN orders
           /\ book[k][i] \in OrderIds /\ orders[book[k][i]] \in Order
           /\ orders[book[k][i]].Price \in Nat
           /\ Open(orders[book[k][i]]) /\ orders[book[k][i]].RemainingQuantity > 0
           /\ orders[book[k][i]].OrderType = OrderTypeLimit /\ BookKey(orders[book[k][i]]) = k
<1>1. book[k] \in Seq(OrderIds)
    BY DEF IInv, TypeOK
<1>2. book[k][i] \in Ids(book[k]) /\ i \in 1 .. Len(book[k])
    BY <1>1, LenProperties DEF Ids
<1>3. RestingOK!(k)!(book[k][i])
    BY <1>2 DEF IInv, RestingOK
<1>4. orders[book[k][i]] \in Order /\ book[k][i] \in OrderIds
    BY <1>3 DEF IInv, TypeOK
<1> QED
    BY <1>1, <1>2, <1>3, <1>4 DEF Order

\* Sides from which at most one order is taken stay sorted.
LEMMA SortedKept ==
    ASSUME IInv, SortedBooks,
           \A k \in BookKeys : \A z \in Ids(book[k]) : orders'[z].Price = orders[z].Price,
           \A k \in BookKeys : \/ book'[k] = book[k]
                               \/ \E n \in DOMAIN book[k] : book'[k] = RemoveIndex(book[k], n)
    PROVE  SortedBooks'
<1> SUFFICES ASSUME NEW k \in BookKeys PROVE SortedSide(orders', book'[k], k[3])
    BY DEF SortedBooks
<1>1. PICK s \in Seq(OrderIds) : s = book[k]
    BY DEF IInv, TypeOK
<1>2. PICK t : t = k[3]
    OBVIOUS
<1>3. SortedSide(orders, s, t)
    BY <1>1, <1>2 DEF SortedBooks
<1>4. \A i \in DOMAIN s : orders'[s[i]].Price = orders[s[i]].Price
    BY <1>1 DEF Ids
<1>5. SortedSide(orders', s, t)
    BY <1>3, <1>4, SortedCong
<1>6. CASE book'[k] = book[k]
    BY <1>1, <1>2, <1>5, <1>6
<1>7. CASE \E n \in DOMAIN book[k] : book'[k] = RemoveIndex(book[k], n)
    <2>1. PICK n \in DOMAIN s : book'[k] = RemoveIndex(s, n)
        BY <1>1, <1>7
    <2>2. SortedSide(orders', RemoveIndex(s, n), t)
        BY <1>5, SortedRemove
    <2> QED
        BY <1>2, <2>1, <2>2
<1> QED
    BY <1>6, <1>7

\* Limits stay prices while orders keep type and price.
LEMMA PricesKept ==
    ASSUME PricesOK, DOMAIN orders' \subseteq DOMAIN orders,
           \A z \in DOMAIN orders' : /\ orders'[z].Price = orders[z].Price
                                     /\ orders'[z].OrderType = orders[z].OrderType
    PROVE  PricesOK'
    BY DEF PricesOK

\* matchOrder leaves every side sorted.
LEMMA SortedFinish ==
    ASSUME IInv, SidesInv, NEW p \in Partitions, NEW x \in OrderIds, NEW k \in BookKeys,
           Finishes(p, x, k)
    PROVE  SidesInv'
<1>1. /\ x \in DOMAIN orders /\ orders[x] \in Order /\ k = BookKey(orders[x])
      /\ DOMAIN orders' = DOMAIN orders
      /\ \A z \in DOMAIN orders : z # x => orders'[z] = orders[z]
      /\ orders'[x].Price = orders[x].Price /\ orders'[x].OrderType = orders[x].OrderType
      /\ Rests(x, k) \/ Leaves(x)
    BY DEF Finishes, SameTerms
<1>2. PricesOK'
    BY <1>1, PricesKept DEF SidesInv
<1>3. \A z \in DOMAIN orders : orders'[z].Price = orders[z].Price
    BY <1>1
<1>4. \A j \in BookKeys : \A z \in Ids(book[j]) : orders'[z].Price = orders[z].Price
    BY <1>3 DEF IInv, RestingOK
<1>5. CASE Leaves(x)
    <2>1. \A j \in BookKeys : book'[j] = book[j]
        BY <1>5 DEF Leaves
    <2> QED
        BY <1>2, <1>4, <2>1, SortedKept DEF SidesInv
<1>6. CASE Rests(x, k)
    <2> SUFFICES ASSUME NEW j \in BookKeys PROVE SortedSide(orders', book'[j], j[3])
        BY <1>2 DEF SidesInv, SortedBooks
    <2>1. CASE j # k
        <3>1. SortedSide(orders, book[j], j[3]) /\ book'[j] = book[j]
            BY <1>6, <2>1 DEF Rests, SidesInv, SortedBooks
        <3>2. \A i \in DOMAIN book[j] : orders'[book[j][i]].Price = orders[book[j][i]].Price
            BY <1>4 DEF Ids
        <3> QED
            BY <3>1, <3>2, SortedCong
    <2>2. CASE j = k
        <3>1. PICK s \in Seq(OrderIds) : s = book[k]
            BY DEF IInv, TypeOK
        <3>2. PICK side \in Sides : side = orders[x].Side
            BY <1>1 DEF Order
        <3>3. k[3] = side
            BY <1>1, <3>2 DEF BookKey
        <3>4. SortedSide(orders, s, side)
            BY <3>1, <3>3 DEF SidesInv, SortedBooks
        <3>5. orders[x].Price \in Nat /\ \A i \in DOMAIN s : orders[s[i]].Price \in Nat
            BY <1>1, <3>1, OnBook DEF Order
        <3>6. PICK n \in 0 .. Len(s) : /\ AddToBook(orders, s, x) = InsertAfter(s, n, x)
                                       /\ PutInPlace(orders, s, x, side, n)
            BY <3>2, <3>4, <3>5, AddToBookPlace
        <3>7. PICK r : r = InsertAfter(s, n, x)
            OBVIOUS
        <3>8. SortedSide(orders, r, side)
            BY <3>4, <3>5, <3>6, <3>7, SortedInsert
        <3>9. Ids(r) = Ids(s) \cup {x}
            BY <3>7, InsertAfterIds
        <3>10. \A i \in DOMAIN r : orders'[r[i]].Price = orders[r[i]].Price
            <4> TAKE i \in DOMAIN r
            <4>1. r[i] \in Ids(s) \cup {x}
                BY <3>9 DEF Ids
            <4> QED
                BY <1>1, <1>4, <3>1, <4>1
        <3>11. SortedSide(orders', r, side)
            BY <3>8, <3>10, SortedCong
        <3>12. book'[k] = r
            BY <1>6, <3>1, <3>6, <3>7 DEF Rests
        <3> QED
            BY <2>2, <3>3, <3>11, <3>12
    <2> QED
        BY <2>1, <2>2
<1> QED
    BY <1>1, <1>5, <1>6

\* Every step keeps sides sorted and limits prices.
LEMMA SidesNext ==
    ASSUME IInv, SidesInv, [Next]_vars
    PROVE  SidesInv'
<1>1. CASE UNCHANGED vars
    BY <1>1 DEF vars, marketVars, SidesInv, SortedBooks, PricesOK
<1>2. ASSUME NEW p \in Partitions,
             \/ \E e \in Events : CreateEvent(p, e)
             \/ \E u \in Users : UserCreated(p, u)
             \/ \E x \in OrderIds, req \in ValidOrders : RefuseOrder(p, x, req)
             \/ EmitCreated(p) \/ BeginMatch(p) \/ PublishTrade(p) \/ EmitCanceled(p)
      PROVE  SidesInv'
    <2>1. UNCHANGED <<book, orders>>
        BY <1>2 DEF CreateEvent, UserCreated, RefuseOrder, EmitCreated, BeginMatch,
                    PublishTrade, EmitCanceled, marketVars
    <2> QED
        BY <2>1 DEF SidesInv, SortedBooks, PricesOK
<1>3. ASSUME NEW p \in Partitions, NEW x \in OrderIds, NEW req \in ValidOrders,
             AcceptOrder(p, x, req)
      PROVE  SidesInv'
    <2>1. PICK a : orders' = Store(x, NewOrder(req, a))
        BY <1>3 DEF AcceptOrder
    <2>2. /\ book' = book /\ DOMAIN orders' = DOMAIN orders \cup {x} /\ x \notin DOMAIN orders
          /\ \A z \in DOMAIN orders : orders'[z] = orders[z]
          /\ orders'[x].OrderType = req.OrderType /\ orders'[x].Price = req.Price
        BY <1>3, <2>1 DEF AcceptOrder, Submitted, Store, NewOrder
    <2>3. req.OrderType = OrderTypeLimit => req.Price \in Prices
        BY DEF ValidOrders, OrderTypeLimit, OrderTypeMarket
    <2>4. PricesOK'
        BY <2>2, <2>3 DEF SidesInv, PricesOK
    <2>5. \A k \in BookKeys : \A z \in Ids(book[k]) : orders'[z].Price = orders[z].Price
        BY <2>2 DEF IInv, RestingOK
    <2> QED
        BY <2>2, <2>4, <2>5, SortedKept DEF SidesInv
<1>4. ASSUME NEW p \in Partitions, EmitCreatedFails(p)
      PROVE  SidesInv'
    <2>1. /\ book' = book /\ DOMAIN orders' = DOMAIN orders \ {cur[p]}
          /\ \A z \in DOMAIN orders' : orders'[z] = orders[z]
        BY <1>4 DEF EmitCreatedFails, Without
    <2>2. \A k \in BookKeys : \A z \in Ids(book[k]) : z \in DOMAIN orders'
        BY <1>4, <2>1, InFlightProperties DEF EmitCreatedFails, InFlightPhases, IInv, RestingOK
    <2>3. PricesOK'
        BY <2>1, PricesKept DEF SidesInv
    <2> QED
        BY <2>1, <2>2, <2>3, SortedKept DEF SidesInv
<1>5. ASSUME NEW p \in Partitions, MatchPair(p)
      PROVE  SidesInv'
    <2>1. PICK x \in OrderIds, y \in OrderIds, m \in BookKeys, n \in Nat, q \in Nat :
             TradesWith(p, x, y, m, n, q)
        BY <1>5, MatchPairTrades
    <2>2. /\ DOMAIN orders' = DOMAIN orders
          /\ \A z \in DOMAIN orders : /\ orders'[z].Price = orders[z].Price
                                      /\ orders'[z].OrderType = orders[z].OrderType
          /\ \A k \in BookKeys : \/ book'[k] = book[k]
                                 \/ \E i \in DOMAIN book[k] : book'[k] = RemoveIndex(book[k], i)
        BY <2>1 DEF TradesWith, SameTerms
    <2>3. PricesOK'
        BY <2>2, PricesKept DEF SidesInv
    <2>4. \A k \in BookKeys : \A z \in Ids(book[k]) : z \in DOMAIN orders
        BY DEF IInv, RestingOK
    <2> QED
        BY <2>2, <2>3, <2>4, SortedKept DEF SidesInv
<1>6. ASSUME NEW p \in Partitions, NEW x \in OrderIds, CancelOrder(p, x)
      PROVE  SidesInv'
    <2>1. PICK k \in BookKeys : Cancels(x, k)
        BY <1>6, CancelOrderCancels
    <2>2. /\ DOMAIN orders' = DOMAIN orders
          /\ \A z \in DOMAIN orders : /\ orders'[z].Price = orders[z].Price
                                      /\ orders'[z].OrderType = orders[z].OrderType
          /\ \A j \in BookKeys : \/ book'[j] = book[j]
                                 \/ \E i \in DOMAIN book[j] : book'[j] = RemoveIndex(book[j], i)
        BY <2>1 DEF Cancels, SameTerms
    <2>3. PricesOK'
        BY <2>2, PricesKept DEF SidesInv
    <2>4. \A j \in BookKeys : \A z \in Ids(book[j]) : z \in DOMAIN orders
        BY DEF IInv, RestingOK
    <2> QED
        BY <2>2, <2>3, <2>4, SortedKept DEF SidesInv
<1>7. ASSUME NEW p \in Partitions, FinishMatch(p)
      PROVE  SidesInv'
    BY <1>7, FinishMatchFinishes, SortedFinish
<1> QED
    BY <1>1, <1>2, <1>3, <1>4, <1>5, <1>6, <1>7, Zenon DEF Next, Submit, Continue

\* Whatever workers interleave, every side is sorted from the best price on,
\* and every limit is a price.
THEOREM SidesAlwaysSorted == Spec => []SidesInv
<1>1. Init => SidesInv
    BY DEF Init, SidesInv, SortedBooks, PricesOK, SortedSide
<1>2. IInv /\ SidesInv /\ [Next]_vars => SidesInv'
    BY SidesNext
<1> QED
    BY <1>1, <1>2, Invariance, PTL DEF Spec

-----------------------------------------------------------------------------
(* Implementing the exchange: the mapping                                  *)

\* Exchange uses the operators of OrderBook as Engine does.
LEMMA SameOperators ==
    /\ \A s, x : X!RemoveOrder(s, x) = RemoveOrder(s, x)
    /\ \A s : X!Ids(s) = Ids(s)
    /\ \A t, a, b : X!Better(t, a, b) = Better(t, a, b)
    /\ \A t : X!Opposite(t) = Opposite(t)
    /\ \A a, b : X!Min2(a, b) = Min2(a, b)
    /\ \A o, r : X!CanMatch(o, r) = CanMatch(o, r)
    /\ X!OrderTypeLimit = OrderTypeLimit /\ X!OrderTypeMarket = OrderTypeMarket
<1>1. \A s, x : X!RemoveOrder(s, x) = RemoveOrder(s, x)
    BY DEF X!RemoveOrder, RemoveOrder, X!RemoveIndex, RemoveIndex
<1>2. \A s : X!Ids(s) = Ids(s)
    BY DEF X!Ids, Ids
<1>3. \A t, a, b : X!Better(t, a, b) = Better(t, a, b)
    BY DEF X!Better, Better, X!SideBuy, SideBuy
<1>4. \A t : X!Opposite(t) = Opposite(t)
    BY DEF X!Opposite, Opposite, X!SideBuy, SideBuy, X!SideSell, SideSell
<1>5. \A a, b : X!Min2(a, b) = Min2(a, b)
    BY DEF X!Min2, Min2
<1>6. X!OrderTypeLimit = OrderTypeLimit /\ X!OrderTypeMarket = OrderTypeMarket
    BY DEF X!OrderTypeLimit, OrderTypeLimit, X!OrderTypeMarket, OrderTypeMarket
<1>7. \A o, r : X!CanMatch(o, r) = CanMatch(o, r)
    BY <1>6 DEF X!CanMatch, CanMatch, X!SideBuy, SideBuy, X!SideSell, SideSell
<1> QED
    BY <1>1, <1>2, <1>3, <1>4, <1>5, <1>6, <1>7

\* The mapping as operators of the order map and a side.
OpenOf(os) == {x \in DOMAIN os : Open(os[x])}
AbstractOpenOf(os) == [x \in OpenOf(os) |-> Abstract(os[x])]
QueueAt(os, s, price) == Filter(s, {x \in DOMAIN os : os[x].Price = price})
AbstractQueueOf(os, bk) == [k \in BookKeys |-> [price \in Prices |-> QueueAt(os, bk[k], price)]]

\* It is that, now and after a step.
LEMMA MappingIs ==
    /\ AbstractOpen = AbstractOpenOf(orders)
    /\ AbstractOpen' = AbstractOpenOf(orders')
    /\ AbstractQueue = AbstractQueueOf(orders, book)
    /\ AbstractQueue' = AbstractQueueOf(orders', book')
    BY DEF AbstractOpen, AbstractOpenOf, OpenIds, OpenOf, AbstractQueue, AbstractQueueOf, QueueAt,
           Priced

\* The fields of an order of the exchange.
LEMMA AbstractFields ==
    ASSUME NEW o
    PROVE  /\ Abstract(o).UserID = o.UserID /\ Abstract(o).EventID = o.EventID
           /\ Abstract(o).Outcome = o.Outcome /\ Abstract(o).Side = o.Side
           /\ Abstract(o).OrderType = o.OrderType /\ Abstract(o).Price = o.Price
           /\ Abstract(o).Left = o.RemainingQuantity
    BY DEF Abstract

\* Orders that agree in them are the same order there.
LEMMA AbstractSame ==
    ASSUME NEW o, NEW r, SameTerms(o, r), o.RemainingQuantity = r.RemainingQuantity
    PROVE  Abstract(o) = Abstract(r)
    BY DEF Abstract, SameTerms

\* And a fill is a fill there.
LEMMA AbstractFill ==
    ASSUME NEW o, NEW r, NEW q, SameTerms(o, r), o.RemainingQuantity = r.RemainingQuantity - q
    PROVE  Abstract(o) = [Abstract(r) EXCEPT !.Left = @ - q]
    BY DEF Abstract, SameTerms

\* The queue of a price depends on the prices of what is on the side only.
LEMMA QueueCong ==
    ASSUME NEW T, NEW s \in Seq(T), NEW os, NEW ns, NEW price,
           \A i \in DOMAIN s : /\ s[i] \in DOMAIN os /\ s[i] \in DOMAIN ns
                               /\ ns[s[i]].Price = os[s[i]].Price
    PROVE  QueueAt(ns, s, price) = QueueAt(os, s, price)
<1> DEFINE A == {x \in DOMAIN os : os[x].Price = price}
           B == {x \in DOMAIN ns : ns[x].Price = price}
<1>1. \A i \in DOMAIN s : s[i] \in B <=> s[i] \in A
    OBVIOUS
<1> HIDE DEF A, B
<1>2. Filter(s, B) = Filter(s, A)
    BY <1>1, FilterCong
<1> QED
    BY <1>2 DEF A, B, QueueAt

\* The queues are sequences of ids.
LEMMA QueueType ==
    ASSUME NEW os, NEW bk \in [BookKeys -> Seq(OrderIds)]
    PROVE  /\ AbstractQueueOf(os, bk) \in [BookKeys -> [Prices -> Seq(OrderIds)]]
           /\ \A k \in BookKeys, price \in Prices :
                 AbstractQueueOf(os, bk)[k][price] = QueueAt(os, bk[k], price)
<1>1. \A k \in BookKeys, price \in Prices : QueueAt(os, bk[k], price) \in Seq(OrderIds)
    BY FilterRange DEF QueueAt
<1> QED
    BY <1>1 DEF AbstractQueueOf

\* Two functions that differ at one place of one function.
LEMMA ChangedAt ==
    ASSUME NEW K, NEW P, NEW V, NEW f \in [K -> [P -> V]], NEW g \in [K -> [P -> V]],
           NEW m \in K, NEW r \in P, NEW v,
           \A k \in K, p \in P : g[k][p] = IF k = m /\ p = r THEN v ELSE f[k][p]
    PROVE  g = [f EXCEPT ![m][r] = v]
<1>1. g[m] = [f[m] EXCEPT ![r] = v]
    OBVIOUS
<1>2. \A k \in K : k # m => g[k] = f[k]
    OBVIOUS
<1> QED
    BY <1>1, <1>2

\* A queue holds what is on the side at its price, ...
LEMMA QueueIds ==
    ASSUME IInv, NEW k \in BookKeys, NEW price
    PROVE  Ids(QueueAt(orders, book[k], price)) = {x \in Ids(book[k]) : orders[x].Price = price}
<1> DEFINE A == {x \in DOMAIN orders : orders[x].Price = price}
<1>1. book[k] \in Seq(OrderIds)
    BY DEF IInv, TypeOK
<1>2. Ids(Filter(book[k], A)) = Ids(book[k]) \cap A
    <2>1. PICK s \in Seq(OrderIds) : s = book[k]
        BY <1>1
    <2> HIDE DEF A
    <2>2. {Filter(s, A)[i] : i \in DOMAIN Filter(s, A)} = {s[i] : i \in DOMAIN s} \cap A
        BY FilterElements
    <2> QED
        BY <2>1, <2>2 DEF Ids
<1>3. Ids(book[k]) \subseteq DOMAIN orders
    BY DEF IInv, RestingOK
<1> QED
    BY <1>2, <1>3 DEF QueueAt

\* ... and together they hold the side.
LEMMA QueuesOfSide ==
    ASSUME IInv, PricesOK, NEW k \in BookKeys
    PROVE  UNION {X!Ids(AbstractQueue[k][price]) : price \in Prices} = Ids(book[k])
<1>1. \A price \in Prices :
         X!Ids(AbstractQueue[k][price]) = {x \in Ids(book[k]) : orders[x].Price = price}
    <2> TAKE price \in Prices
    <2>1. AbstractQueue[k][price] = QueueAt(orders, book[k], price)
        BY MappingIs, QueueType DEF IInv, TypeOK
    <2> QED
        BY <2>1, SameOperators, QueueIds
<1>2. \A x \in Ids(book[k]) : orders[x].Price \in Prices
    BY DEF PricesOK, IInv, RestingOK
<1> QED
    BY <1>1, <1>2

\* The partners of an order are the orders findCounterparty looks for.
LEMMA PartnersAre ==
    ASSUME IInv, PricesOK, NEW x \in OpenIds, NEW m \in BookKeys, m = OppositeKey(orders[x])
    PROVE  X!Partners(x) = {y \in Ids(book[m]) : /\ orders[y].UserID # orders[x].UserID
                                                 /\ CanMatch(orders[x], orders[y])}
<1>1. AbstractOpen[x] = Abstract(orders[x])
    BY DEF AbstractOpen
<1>2. X!Key(AbstractOpen[x], X!Opposite(AbstractOpen[x].Side)) = m
    BY <1>1, AbstractFields, SameOperators DEF X!Key, OppositeKey
<1>3. X!Partners(x) = {y \in UNION {X!Ids(AbstractQueue[m][price]) : price \in Prices} :
                          /\ AbstractOpen[y].UserID # AbstractOpen[x].UserID
                          /\ X!CanMatch(AbstractOpen[x], AbstractOpen[y])}
    BY <1>2 DEF X!Partners
<1>4. X!Partners(x) = {y \in Ids(book[m]) :
                          /\ AbstractOpen[y].UserID # AbstractOpen[x].UserID
                          /\ X!CanMatch(AbstractOpen[x], AbstractOpen[y])}
    BY <1>3, QueuesOfSide
<1>5. ASSUME NEW y \in Ids(book[m])
      PROVE  /\ AbstractOpen[y].UserID = orders[y].UserID
             /\ X!CanMatch(AbstractOpen[x], AbstractOpen[y]) <=> CanMatch(orders[x], orders[y])
    <2>1. y \in OpenIds
        BY DEF IInv, RestingOK, OpenIds
    <2>2. AbstractOpen[y] = Abstract(orders[y])
        BY <2>1 DEF AbstractOpen
    <2>3. X!CanMatch(AbstractOpen[x], AbstractOpen[y])
             <=> CanMatch(Abstract(orders[x]), Abstract(orders[y]))
        BY <1>1, <2>2, SameOperators
    <2>4. CanMatch(Abstract(orders[x]), Abstract(orders[y])) <=> CanMatch(orders[x], orders[y])
        BY AbstractFields DEF CanMatch
    <2> QED
        BY <2>2, <2>3, <2>4, AbstractFields
<1>6. AbstractOpen[x].UserID = orders[x].UserID
    BY <1>1, AbstractFields
<1> QED
    BY <1>4, <1>5, <1>6

\* findCounterparty finds nobody exactly when there is no partner, and an index
\* is a candidate exactly when a partner is there.
LEMMA PartnersFound ==
    ASSUME IInv, PricesOK, NEW x \in OpenIds, NEW m \in BookKeys, m = OppositeKey(orders[x])
    PROVE  /\ \A i \in DOMAIN book[m] :
                 i \in Candidates(orders, book[m], orders[x]) <=> book[m][i] \in X!Partners(x)
           /\ X!Partners(x) \subseteq Ids(book[m])
           /\ Candidates(orders, book[m], orders[x]) = {} => X!Partners(x) = {}
<1>1. X!Partners(x) = {y \in Ids(book[m]) : /\ orders[y].UserID # orders[x].UserID
                                            /\ CanMatch(orders[x], orders[y])}
    BY PartnersAre
<1>2. ASSUME NEW i \in DOMAIN book[m]
      PROVE  i \in Candidates(orders, book[m], orders[x]) <=> book[m][i] \in X!Partners(x)
    <2>1. book[m][i] \in Ids(book[m]) /\ ~Dead(orders[book[m][i]])
        <3>1. PICK y : y = book[m][i]
            OBVIOUS
        <3>2. /\ y \in Ids(book[m]) /\ orders[y] \in Order
              /\ Open(orders[y]) /\ orders[y].RemainingQuantity > 0
            BY <3>1, OnBook
        <3>3. ~Dead(orders[y])
            BY <3>2 DEF Dead, Open, StatusPending, StatusPartial, StatusFilled, StatusCanceled, Order
        <3> QED
            BY <3>1, <3>2, <3>3
    <2> QED
        BY <1>1, <2>1 DEF Candidates
<1> QED
    BY <1>1, <1>2 DEF Ids

-----------------------------------------------------------------------------
(* Implementing the exchange: step by step                                 *)

\* The order being matched, as the mutex says.
LEMMA ActiveIs ==
    /\ mu = Free => AbstractActive = NoOrder
    /\ mu' = Free => AbstractActive' = NoOrder
    /\ mu # Free => AbstractActive = cur[mu]
    /\ mu' # Free => AbstractActive' = cur'[mu']
    BY DEF AbstractActive

\* A step that changes neither orders nor books nor the holder of the mutex is
\* none of the exchange.
LEMMA Unseen ==
    ASSUME orders' = orders, book' = book, AbstractActive' = AbstractActive
    PROVE  UNCHANGED X!exchangeVars
<1>1. AbstractOpen' = AbstractOpen
    BY MappingIs
<1>2. AbstractQueue' = AbstractQueue
    BY MappingIs
<1> QED
    BY <1>1, <1>2 DEF X!exchangeVars

\* A worker that is not in the matching loop may turn to another order.
LEMMA ActiveKept ==
    ASSUME IInv, NEW p \in Partitions, pc[p] # "matching", mu' = mu,
           \A r \in Partitions : r # p => cur'[r] = cur[r]
    PROVE  AbstractActive' = AbstractActive
<1>1. mu \in Partitions \cup {Free} /\ mu # p
    BY DEF IInv, TypeOK, WorkersOK, MutexOK
<1> QED
    BY <1>1 DEF AbstractActive

\* An order leaves the exchange.
LEMMA OpenWithout ==
    ASSUME NEW x, OpenOf(orders') = OpenOf(orders) \ {x},
           \A z \in OpenOf(orders') : Abstract(orders'[z]) = Abstract(orders[z])
    PROVE  AbstractOpen' = [y \in DOMAIN AbstractOpen \ {x} |-> AbstractOpen[y]]
<1>1. DOMAIN AbstractOpenOf(orders) \ {x} = OpenOf(orders')
    BY DEF AbstractOpenOf
<1>2. \A y \in OpenOf(orders') : AbstractOpenOf(orders)[y] = Abstract(orders'[y])
    BY DEF AbstractOpenOf
<1>3. AbstractOpenOf(orders')
         = [y \in DOMAIN AbstractOpenOf(orders) \ {x} |-> AbstractOpenOf(orders)[y]]
    BY <1>1, <1>2 DEF AbstractOpenOf
<1> QED
    BY <1>3, MappingIs

\* What is on side k keeps its price in a step.
KeepsPrices(k) ==
    \A z \in Ids(book[k]) : z \in DOMAIN orders' /\ orders'[z].Price = orders[z].Price

\* The queues of a side that a step leaves alone.
LEMMA SideKept ==
    ASSUME IInv, NEW k \in BookKeys, KeepsPrices(k), NEW price
    PROVE  QueueAt(orders', book[k], price) = QueueAt(orders, book[k], price)
<1>1. PICK s \in Seq(OrderIds) : s = book[k]
    BY DEF IInv, TypeOK
<1>2. \A i \in DOMAIN s : /\ s[i] \in DOMAIN orders /\ s[i] \in DOMAIN orders'
                          /\ orders'[s[i]].Price = orders[s[i]].Price
    BY <1>1, OnBook DEF KeepsPrices
<1>3. PICK os, ns : os = orders /\ ns = orders'
    OBVIOUS
<1>4. \A i \in DOMAIN s : s[i] \in DOMAIN os /\ s[i] \in DOMAIN ns /\ ns[s[i]].Price = os[s[i]].Price
    BY <1>2, <1>3
<1>5. QueueAt(ns, s, price) = QueueAt(os, s, price)
    BY <1>4, QueueCong
<1> QED
    BY <1>1, <1>3, <1>5

\* And those of a side that an order leaves.
LEMMA SideLess ==
    ASSUME IInv, NEW k \in BookKeys, KeepsPrices(k), NEW n \in DOMAIN book[k], NEW price
    PROVE  QueueAt(orders', RemoveIndex(book[k], n), price)
             = RemoveOrder(QueueAt(orders, book[k], price), book[k][n])
<1>1. PICK s \in Seq(OrderIds) : s = book[k]
    BY DEF IInv, TypeOK
<1>2. n \in DOMAIN s /\ Distinct(s) /\ n \in 1 .. Len(s)
    BY <1>1, LenProperties DEF IInv, NoDuplicates
<1>3. PICK r \in Seq(OrderIds) : r = RemoveIndex(s, n)
    BY <1>2, RemoveIndexProperties
<1>4. Ids(r) \subseteq Ids(s)
    BY <1>2, <1>3, RemoveIndexIds
<1>5. \A z \in Ids(s) : /\ z \in DOMAIN orders /\ z \in DOMAIN orders'
                        /\ orders'[z].Price = orders[z].Price
    BY <1>1 DEF KeepsPrices, IInv, RestingOK
<1>6. PICK os, ns : os = orders /\ ns = orders'
    OBVIOUS
<1>7. \A i \in DOMAIN r : r[i] \in DOMAIN os /\ r[i] \in DOMAIN ns /\ ns[r[i]].Price = os[r[i]].Price
    <2> TAKE i \in DOMAIN r
    <2>1. r[i] \in Ids(s)
        BY <1>4 DEF Ids
    <2> QED
        BY <1>5, <1>6, <2>1
<1>8. QueueAt(ns, r, price) = QueueAt(os, r, price)
    BY <1>7, QueueCong
<1>9. QueueAt(os, r, price) = RemoveOrder(QueueAt(os, s, price), s[n])
    <2>1. PICK A : A = {x \in DOMAIN os : os[x].Price = price}
        OBVIOUS
    <2>2. Filter(RemoveIndex(s, n), A) = RemoveOrder(Filter(s, A), s[n])
        BY <1>2, FilterRemove
    <2> QED
        BY <1>3, <2>1, <2>2 DEF QueueAt
<1> QED
    BY <1>1, <1>3, <1>6, <1>8, <1>9

\* Nothing is removed from the queues of a side the order is not on.
LEMMA NotOnSide ==
    ASSUME IInv, NEW k \in BookKeys, NEW x, x \notin Ids(book[k]), NEW price
    PROVE  RemoveOrder(QueueAt(orders, book[k], price), x) = QueueAt(orders, book[k], price)
<1>1. x \notin Ids(QueueAt(orders, book[k], price))
    BY QueueIds
<1> QED
    BY <1>1, RemoveOrderAbsent

\* The queues after a step, place by place.
LEMMA QueueAfter ==
    ASSUME IInv, IInv'
    PROVE  /\ AbstractQueue \in [BookKeys -> [Prices -> Seq(OrderIds)]]
           /\ AbstractQueue' \in [BookKeys -> [Prices -> Seq(OrderIds)]]
           /\ \A k \in BookKeys, price \in Prices :
                 /\ AbstractQueue[k][price] = QueueAt(orders, book[k], price)
                 /\ AbstractQueue'[k][price] = QueueAt(orders', book'[k], price)
<1>1. book \in [BookKeys -> Seq(OrderIds)] /\ book' \in [BookKeys -> Seq(OrderIds)]
    BY DEF IInv, TypeOK
<1>2. /\ AbstractQueue \in [BookKeys -> [Prices -> Seq(OrderIds)]]
      /\ \A k \in BookKeys, price \in Prices :
            AbstractQueue[k][price] = QueueAt(orders, book[k], price)
    BY <1>1, MappingIs, QueueType
<1>3. /\ AbstractQueue' \in [BookKeys -> [Prices -> Seq(OrderIds)]]
      /\ \A k \in BookKeys, price \in Prices :
            AbstractQueue'[k][price] = QueueAt(orders', book'[k], price)
    <2>1. PICK ns, nb : ns = orders' /\ nb = book'
        OBVIOUS
    <2>2. /\ AbstractQueueOf(ns, nb) \in [BookKeys -> [Prices -> Seq(OrderIds)]]
          /\ \A k \in BookKeys, price \in Prices :
                AbstractQueueOf(ns, nb)[k][price] = QueueAt(ns, nb[k], price)
        BY <1>1, <2>1, QueueType
    <2> QED
        BY <2>1, <2>2, MappingIs
<1> QED
    BY <1>2, <1>3

\* They stay the same when no side changes.
LEMMA QueuesKept ==
    ASSUME IInv, IInv', book' = book, \A k \in BookKeys : KeepsPrices(k)
    PROVE  AbstractQueue' = AbstractQueue
<1>1. \A k \in BookKeys, price \in Prices : AbstractQueue'[k][price] = AbstractQueue[k][price]
    BY QueueAfter, SideKept
<1>2. /\ AbstractQueue \in [BookKeys -> [Prices -> Seq(OrderIds)]]
      /\ AbstractQueue' \in [BookKeys -> [Prices -> Seq(OrderIds)]]
    BY QueueAfter
<1>3. PICK f, g : f = AbstractQueue /\ g = AbstractQueue'
    OBVIOUS
<1>4. /\ f \in [BookKeys -> [Prices -> Seq(OrderIds)]] /\ g \in [BookKeys -> [Prices -> Seq(OrderIds)]]
      /\ \A k \in BookKeys, price \in Prices : g[k][price] = f[k][price]
    BY <1>1, <1>2, <1>3
<1>5. g = f
    BY <1>4
<1> QED
    BY <1>3, <1>5

\* Order x leaves the exchange while nobody matches: handleCancelOrderP, and
\* an ORDER_CREATED that could not be emitted.
LEMMA Withdrawn ==
    ASSUME IInv, IInv', mu = Free, mu' = Free, NEW x \in OpenIds,
           OpenOf(orders') = OpenOf(orders) \ {x},
           \A z \in OpenOf(orders') : Abstract(orders'[z]) = Abstract(orders[z]),
           \A k \in BookKeys : KeepsPrices(k),
           \A k \in BookKeys :
              \/ x \notin Ids(book[k]) /\ book'[k] = book[k]
              \/ \E n \in DOMAIN book[k] : x = book[k][n] /\ book'[k] = RemoveIndex(book[k], n)
    PROVE  X!ExchangeNext
<1>1. AbstractActive = NoOrder /\ AbstractActive' = NoOrder
    BY ActiveIs
<1>2. x \in DOMAIN AbstractOpen /\ x \in OrderIds
    BY DEF AbstractOpen, OpenIds, IInv, TypeOK
<1>3. AbstractOpen' = [y \in DOMAIN AbstractOpen \ {x} |-> AbstractOpen[y]]
    BY OpenWithout
<1>4. ASSUME NEW k \in BookKeys, NEW price \in Prices
      PROVE  AbstractQueue'[k][price] = X!RemoveOrder(AbstractQueue[k][price], x)
    <2>1. QueueAt(orders', book'[k], price) = RemoveOrder(QueueAt(orders, book[k], price), x)
        <3>1. CASE x \notin Ids(book[k]) /\ book'[k] = book[k]
            BY <3>1, SideKept, NotOnSide
        <3>2. CASE \E n \in DOMAIN book[k] : x = book[k][n] /\ book'[k] = RemoveIndex(book[k], n)
            BY <3>2, SideLess
        <3> QED
            BY <3>1, <3>2
    <2> QED
        BY <2>1, QueueAfter, SameOperators
<1>5. AbstractQueue' = [k \in BookKeys |->
                          [price \in Prices |-> X!RemoveOrder(AbstractQueue[k][price], x)]]
    <2>1. AbstractQueue' \in [BookKeys -> [Prices -> Seq(OrderIds)]]
        BY QueueAfter
    <2> DEFINE R(k, price) == X!RemoveOrder(AbstractQueue[k][price], x)
    <2>2. PICK g : g = AbstractQueue'
        OBVIOUS
    <2>3. /\ g \in [BookKeys -> [Prices -> Seq(OrderIds)]]
          /\ \A k \in BookKeys, price \in Prices : g[k][price] = R(k, price)
        BY <1>4, <2>1, <2>2
    <2> HIDE DEF R
    <2>4. \A k \in BookKeys : g[k] = [price \in Prices |-> R(k, price)]
        BY <2>3
    <2>5. g = [k \in BookKeys |-> [price \in Prices |-> R(k, price)]]
        BY <2>3, <2>4
    <2> QED
        BY <2>2, <2>5 DEF R
<1>6. X!Withdraw(x)
    BY <1>1, <1>2, <1>3, <1>5 DEF X!Withdraw
<1> QED
    BY <1>2, <1>6 DEF X!ExchangeNext

\* handleCancelOrderP withdraws the order.
LEMMA CancelWithdraws ==
    ASSUME IInv, IInv', NEW p \in Partitions, NEW x \in OrderIds, CancelOrder(p, x)
    PROVE  X!ExchangeNext
<1>1. PICK k \in BookKeys : Cancels(x, k)
    BY CancelOrderCancels
<1>2. /\ mu = Free /\ mu' = Free /\ x \in DOMAIN orders /\ Open(orders[x]) /\ ~Open(orders'[x])
      /\ DOMAIN orders' = DOMAIN orders
      /\ \A z \in DOMAIN orders : z # x => orders'[z] = orders[z]
      /\ orders'[x].Price = orders[x].Price
      /\ \A j \in BookKeys : j # k => x \notin Ids(book[j]) /\ book'[j] = book[j]
      /\ \/ x \notin Ids(book[k]) /\ book'[k] = book[k]
         \/ \E n \in DOMAIN book[k] : x = book[k][n] /\ book'[k] = RemoveIndex(book[k], n)
    BY <1>1 DEF Cancels, SameTerms
<1>3. x \in OpenIds
    BY <1>2 DEF OpenIds
<1>4. OpenOf(orders') = OpenOf(orders) \ {x}
    BY <1>2 DEF OpenOf
<1>5. \A z \in OpenOf(orders') : Abstract(orders'[z]) = Abstract(orders[z])
    BY <1>2, <1>4 DEF OpenOf
<1>6. \A j \in BookKeys : KeepsPrices(j)
    BY <1>2 DEF KeepsPrices, IInv, RestingOK
<1>7. \A j \in BookKeys :
         \/ x \notin Ids(book[j]) /\ book'[j] = book[j]
         \/ \E n \in DOMAIN book[j] : x = book[j][n] /\ book'[j] = RemoveIndex(book[j], n)
    BY <1>2
<1> QED
    BY <1>2, <1>3, <1>4, <1>5, <1>6, <1>7, Withdrawn

\* So does handleCreateOrderCore when it cannot announce the order, unless a
\* cancel came first.
LEMMA UndoWithdraws ==
    ASSUME IInv, IInv', NEW p \in Partitions, EmitCreatedFails(p)
    PROVE  X!ExchangeNext \/ UNCHANGED X!exchangeVars
<1>1. PICK x : x = cur[p]
    OBVIOUS
<1>2. /\ mu = Free /\ mu' = Free /\ book' = book /\ orders' = Without(x) /\ pc[p] \in InFlightPhases
    BY <1>1 DEF EmitCreatedFails, InFlightPhases
<1>3. x \in DOMAIN orders /\ \A k \in BookKeys : x \notin Ids(book[k])
    BY <1>1, <1>2, InFlightProperties
<1>4. DOMAIN orders' = DOMAIN orders \ {x} /\ \A z \in DOMAIN orders' : orders'[z] = orders[z]
    BY <1>2 DEF Without
<1>5. \A k \in BookKeys : KeepsPrices(k)
    BY <1>3, <1>4 DEF KeepsPrices, IInv, RestingOK
<1>6. OpenOf(orders') = OpenOf(orders) \ {x} /\ \A z \in OpenOf(orders') : orders'[z] = orders[z]
    BY <1>4 DEF OpenOf
<1>7. CASE Open(orders[x])
    <2>1. x \in OpenIds
        BY <1>3, <1>7 DEF OpenIds
    <2>2. \A k \in BookKeys : x \notin Ids(book[k]) /\ book'[k] = book[k]
        BY <1>2, <1>3
    <2> QED
        BY <1>2, <1>5, <1>6, <2>1, <2>2, Withdrawn
<1>8. CASE ~Open(orders[x])
    <2>1. OpenOf(orders') = OpenOf(orders)
        BY <1>6, <1>8 DEF OpenOf
    <2>2. AbstractOpen' = AbstractOpen
        <3>1. AbstractOpenOf(orders') = AbstractOpenOf(orders)
            BY <1>6, <2>1 DEF AbstractOpenOf
        <3> QED
            BY <3>1, MappingIs
    <2>3. AbstractQueue' = AbstractQueue
        BY <1>2, <1>5, QueuesKept
    <2>4. AbstractActive' = AbstractActive
        BY <1>2, ActiveIs
    <2> QED
        BY <2>2, <2>3, <2>4 DEF X!exchangeVars
<1> QED
    BY <1>7, <1>8

\* An accepted order arrives.
LEMMA AcceptArrives ==
    ASSUME IInv, IInv', NEW p \in Partitions, NEW x \in OrderIds, NEW req \in ValidOrders,
           AcceptOrder(p, x, req)
    PROVE  X!ExchangeNext
<1>1. /\ mu = Free /\ mu' = mu /\ book' = book /\ x \notin DOMAIN orders
    BY DEF AcceptOrder, Submitted, Idle
<1>2. PICK a : orders' = Store(x, NewOrder(req, a))
    BY DEF AcceptOrder
<1>3. /\ DOMAIN orders' = DOMAIN orders \cup {x}
      /\ orders'[x] = NewOrder(req, a) /\ \A z \in DOMAIN orders : orders'[z] = orders[z]
    BY <1>1, <1>2 DEF Store
<1>4. AbstractActive = NoOrder /\ AbstractActive' = NoOrder
    BY <1>1, ActiveIs
<1>5. Open(NewOrder(req, a))
    BY DEF Open, NewOrder
<1>6. OpenOf(orders') = OpenOf(orders) \cup {x} /\ x \notin OpenOf(orders)
    BY <1>1, <1>3, <1>5 DEF OpenOf
<1>7. PICK o \in AbstractOrders : o = Abstract(NewOrder(req, a))
    <2>1. Abstract(NewOrder(req, a)) = Abstract(NewOrder(req, 0))
        BY DEF Abstract, NewOrder
    <2> QED
        BY <2>1 DEF AbstractOrders
<1>8. AbstractOpen' = [y \in DOMAIN AbstractOpen \cup {x} |-> IF y = x THEN o ELSE AbstractOpen[y]]
    <2>1. DOMAIN AbstractOpenOf(orders) \cup {x} = OpenOf(orders')
        BY <1>6 DEF AbstractOpenOf
    <2>2. \A y \in OpenOf(orders') :
             Abstract(orders'[y]) = IF y = x THEN o ELSE AbstractOpenOf(orders)[y]
        BY <1>3, <1>6, <1>7 DEF AbstractOpenOf, OpenOf
    <2>3. AbstractOpenOf(orders') = [y \in DOMAIN AbstractOpenOf(orders) \cup {x} |->
                                        IF y = x THEN o ELSE AbstractOpenOf(orders)[y]]
        BY <2>1, <2>2 DEF AbstractOpenOf
    <2> QED
        BY <2>3, MappingIs
<1>9. AbstractQueue' = AbstractQueue
    <2>1. \A k \in BookKeys : KeepsPrices(k)
        BY <1>3 DEF KeepsPrices, IInv, RestingOK
    <2> QED
        BY <1>1, <2>1, QueuesKept
<1>10. x \notin DOMAIN AbstractOpen
    BY <1>1 DEF AbstractOpen, OpenIds
<1>11. X!Arrive(x)
    BY <1>4, <1>8, <1>9, <1>10 DEF X!Arrive
<1> QED
    BY <1>11 DEF X!ExchangeNext

\* matchOrder takes the mutex: the turn of the order comes, unless it was
\* canceled.
LEMMA BeginBegins ==
    ASSUME IInv, IInv', PricesOK, NEW p \in Partitions, BeginMatch(p)
    PROVE  X!ExchangeNext \/ UNCHANGED X!exchangeVars
<1>1. PICK x : x = cur[p]
    OBVIOUS
<1>2. /\ mu = Free /\ orders' = orders /\ book' = book /\ pc[p] \in InFlightPhases
      /\ pc[p] # "matching"
    BY DEF BeginMatch, InFlightPhases
<1>3. /\ x \in DOMAIN orders /\ x \in OrderIds /\ \A k \in BookKeys : x \notin Ids(book[k])
      /\ orders[x].Status \in {StatusPending, StatusCanceled}
    BY <1>1, <1>2, InFlightProperties DEF IInv, WorkersOK, InFlightOK
<1>4. CASE orders[x].Status = StatusCanceled
    <2>1. mu' = mu
        BY <1>1, <1>4 DEF BeginMatch
    <2>2. AbstractActive' = AbstractActive
        BY <1>2, <2>1, ActiveIs
    <2> QED
        BY <1>2, <2>2, Unseen
<1>5. CASE orders[x].Status # StatusCanceled
    <2>1. mu' = p /\ cur' = [cur EXCEPT ![p] = cur[p]]
        BY <1>1, <1>5 DEF BeginMatch, Goto
    <2>2. p # Free
        BY NullsAssumption
    <2>3. AbstractActive = NoOrder /\ AbstractActive' = x
        BY <1>1, <1>2, <2>1, <2>2, ActiveIs DEF IInv, TypeOK
    <2>4. x \in DOMAIN AbstractOpen
        BY <1>3, <1>5 DEF AbstractOpen, OpenIds, Open
    <2>5. x \notin X!Resting
        <3>1. \A k \in BookKeys :
                 UNION {X!Ids(AbstractQueue[k][price]) : price \in Prices} = Ids(book[k])
            BY QueuesOfSide
        <3>2. \A k \in BookKeys, price \in Prices : x \notin X!Ids(AbstractQueue[k][price])
            BY <1>3, <3>1
        <3> QED
            BY <3>2 DEF X!Resting
    <2>6. AbstractOpen' = AbstractOpen /\ AbstractQueue' = AbstractQueue
        BY <1>2, MappingIs
    <2>7. X!Begin(x)
        BY <2>3, <2>4, <2>5, <2>6 DEF X!Begin, X!Arriving
    <2> QED
        BY <1>3, <2>7 DEF X!ExchangeNext
<1> QED
    BY <1>4, <1>5

\* findCounterparty takes the best price, and the oldest order at that price.
LEMMA FoundFirst ==
    ASSUME IInv, SidesInv, NEW p \in Partitions, NEW x \in OrderIds, NEW y \in OrderIds,
           NEW m \in BookKeys, NEW n \in Nat, NEW q \in Nat, TradesWith(p, x, y, m, n, q)
    PROVE  X!First(x, y)
<1>1. /\ x \in DOMAIN orders /\ Open(orders[x]) /\ orders[x] \in Order /\ m = OppositeKey(orders[x])
      /\ y \in DOMAIN orders /\ Open(orders[y]) /\ orders[y] \in Order
      /\ n \in DOMAIN book[m] /\ y = book[m][n] /\ orders[y].OrderType = OrderTypeLimit
      /\ FindCounterparty(orders, book[m], orders[x], n)
    BY DEF TradesWith
<1>2. x \in OpenIds /\ y \in OpenIds
    BY <1>1 DEF OpenIds
<1>3. /\ \A i \in DOMAIN book[m] :
            i \in Candidates(orders, book[m], orders[x]) <=> book[m][i] \in X!Partners(x)
      /\ X!Partners(x) \subseteq Ids(book[m])
    BY <1>1, <1>2, PartnersFound DEF SidesInv
<1>4. /\ n \in Candidates(orders, book[m], orders[x])
      /\ \A j \in Candidates(orders, book[m], orders[x]) : n <= j
    BY <1>1 DEF FindCounterparty
<1>5. y \in X!Partners(x)
    BY <1>1, <1>3, <1>4
<1>6. X!Key(AbstractOpen[x], X!Opposite(AbstractOpen[x].Side)) = m
    <2>1. AbstractOpen[x] = Abstract(orders[x])
        BY <1>2 DEF AbstractOpen
    <2> QED
        BY <1>1, <2>1, AbstractFields, SameOperators DEF X!Key, OppositeKey
<1>7. ASSUME NEW z \in X!Partners(x)
      PROVE  ~X!Better(m[3], AbstractOpen[z].Price, AbstractOpen[y].Price)
    <2>1. PICK j \in DOMAIN book[m] : z = book[m][j]
        BY <1>3 DEF Ids
    <2>2. z \in OpenIds /\ orders[z].Price \in Nat /\ orders[y].Price \in Nat /\ n \in Nat /\ j \in Nat
        BY <1>1, <2>1, OnBook DEF OpenIds
    <2>3. AbstractOpen[z].Price = orders[z].Price /\ AbstractOpen[y].Price = orders[y].Price
        BY <1>2, <2>2, AbstractFields DEF AbstractOpen
    <2>4. n <= j
        BY <1>3, <1>4, <2>1
    <2>5. ~Better(m[3], orders[z].Price, orders[y].Price)
        <3>1. CASE n < j
            BY <1>1, <2>1, <3>1 DEF SidesInv, SortedBooks, SortedSide
        <3>2. CASE n = j
            BY <1>1, <2>1, <2>2, <3>2 DEF Better
        <3> QED
            BY <2>2, <2>4, <3>1, <3>2
    <2> QED
        BY <2>3, <2>5, SameOperators
<1>8. PICK f : f = AbstractQueue[m][AbstractOpen[y].Price]
    OBVIOUS
<1>9. ASSUME NEW i \in DOMAIN f, NEW j \in DOMAIN f, f[j] = y, i < j
      PROVE  f[i] \notin X!Partners(x)
    <2>1. PICK price \in Prices : price = orders[y].Price
        BY <1>1 DEF SidesInv, PricesOK
    <2>2. AbstractOpen[y].Price = price
        BY <1>2, <2>1, AbstractFields DEF AbstractOpen
    <2>3. f = QueueAt(orders, book[m], price)
        <3>1. AbstractQueue[m][price] = QueueAt(orders, book[m], price)
            BY MappingIs, QueueType DEF IInv, TypeOK
        <3>2. f = AbstractQueue[m][price]
            BY <1>8, <2>2
        <3> QED
            BY <3>1, <3>2
    <2>4. PICK s \in Seq(OrderIds) : s = book[m]
        BY DEF IInv, TypeOK
    <2>5. PICK A : A = {z \in DOMAIN orders : orders[z].Price = price}
        OBVIOUS
    <2>6. f = Filter(s, A) /\ y \in A /\ y = s[n] /\ n \in DOMAIN s /\ Distinct(s)
        BY <1>1, <2>1, <2>3, <2>4, <2>5 DEF QueueAt, IInv, NoDuplicates
    <2>7. PICK h \in DOMAIN s : h < n /\ s[h] = f[i]
        <3>1. s[n] \in A /\ f = Filter(s, A) /\ f[j] = s[n]
            BY <1>9, <2>6
        <3> QED
            BY <1>9, <2>6, <3>1, FilterOrder
    <2>8. h \in Nat /\ ~(n <= h)
        BY <2>7, LenProperties
    <2> QED
        BY <1>3, <1>4, <2>4, <2>7, <2>8
<1> QED
    BY <1>5, <1>6, <1>7, <1>8, <1>9 DEF X!First

\* The queues after a trade: a filled order leaves the queue of its price.
LEMMA TradeQueues ==
    ASSUME IInv, IInv', SidesInv, NEW p \in Partitions, NEW x \in OrderIds, NEW y \in OrderIds,
           NEW m \in BookKeys, NEW n \in Nat, NEW q \in Nat, TradesWith(p, x, y, m, n, q),
           NEW price \in Prices, price = orders[y].Price
    PROVE  IF orders[y].RemainingQuantity = q
           THEN AbstractQueue' = [AbstractQueue EXCEPT ![m][price] = X!RemoveOrder(@, y)]
           ELSE AbstractQueue' = AbstractQueue
<1>1. /\ y \in DOMAIN orders /\ n \in DOMAIN book[m] /\ y = book[m][n]
      /\ DOMAIN orders' = DOMAIN orders
      /\ \A z \in DOMAIN orders : orders'[z].Price = orders[z].Price
      /\ book'[m] = IF orders[y].RemainingQuantity = q THEN RemoveIndex(book[m], n) ELSE book[m]
      /\ \A k \in BookKeys : k # m => book'[k] = book[k]
    BY DEF TradesWith, SameTerms
<1>2. \A k \in BookKeys : KeepsPrices(k)
    BY <1>1 DEF KeepsPrices, IInv, RestingOK
<1>3. /\ AbstractQueue \in [BookKeys -> [Prices -> Seq(OrderIds)]]
      /\ AbstractQueue' \in [BookKeys -> [Prices -> Seq(OrderIds)]]
      /\ \A k \in BookKeys, r \in Prices :
            /\ AbstractQueue[k][r] = QueueAt(orders, book[k], r)
            /\ AbstractQueue'[k][r] = QueueAt(orders', book'[k], r)
    BY QueueAfter
<1>4. CASE orders[y].RemainingQuantity = q
    <2>1. PICK v : v = RemoveOrder(AbstractQueue[m][price], y)
        OBVIOUS
    <2>2. ASSUME NEW k \in BookKeys, NEW r \in Prices
          PROVE  AbstractQueue'[k][r] = IF k = m /\ r = price THEN v ELSE AbstractQueue[k][r]
        <3>1. CASE k # m
            <4>1. QueueAt(orders', book'[k], r) = QueueAt(orders, book[k], r)
                BY <1>1, <1>2, <3>1, SideKept
            <4> QED
                BY <1>3, <3>1, <4>1
        <3>2. CASE k = m
            <4>1. book'[m] = RemoveIndex(book[m], n)
                BY <1>1, <1>4
            <4>2. QueueAt(orders', RemoveIndex(book[m], n), r)
                    = RemoveOrder(QueueAt(orders, book[m], r), y)
                BY <1>1, <1>2, SideLess
            <4>3. CASE r = price
                BY <1>3, <2>1, <3>2, <4>1, <4>2, <4>3
            <4>4. CASE r # price
                <5>1. y \notin Ids(QueueAt(orders, book[m], r))
                    BY <4>4, QueueIds
                <5>2. RemoveOrder(QueueAt(orders, book[m], r), y) = QueueAt(orders, book[m], r)
                    BY <5>1, RemoveOrderAbsent
                <5> QED
                    BY <1>3, <3>2, <4>1, <4>2, <4>4, <5>2
            <4> QED
                BY <4>3, <4>4
        <3> QED
            BY <3>1, <3>2
    <2>3. PICK f, g : f = AbstractQueue /\ g = AbstractQueue'
        OBVIOUS
    <2>4. /\ f \in [BookKeys -> [Prices -> Seq(OrderIds)]]
          /\ g \in [BookKeys -> [Prices -> Seq(OrderIds)]]
          /\ \A k \in BookKeys, r \in Prices : g[k][r] = IF k = m /\ r = price THEN v ELSE f[k][r]
        BY <1>3, <2>2, <2>3
    <2>5. g = [f EXCEPT ![m][price] = v]
        BY <2>4, ChangedAt
    <2>6. v = X!RemoveOrder(f[m][price], y)
        BY <2>1, <2>3, SameOperators
    <2>7. g = [f EXCEPT ![m][price] = X!RemoveOrder(@, y)]
        BY <2>5, <2>6
    <2> QED
        BY <1>4, <2>3, <2>7
<1>5. CASE orders[y].RemainingQuantity # q
    <2>1. book' = book
        <3>1. book \in [BookKeys -> Seq(OrderIds)] /\ book' \in [BookKeys -> Seq(OrderIds)]
            BY DEF IInv, TypeOK
        <3>2. \A k \in BookKeys : book'[k] = book[k]
            BY <1>1, <1>5
        <3> QED
            BY <3>1, <3>2
    <2> QED
        BY <1>2, <1>5, <2>1, QueuesKept
<1> QED
    BY <1>4, <1>5

\* The orders after a trade of q between x and y.
Traded(x, y, q) ==
    IF orders[y].RemainingQuantity = q
    THEN AbstractOpen' = [z \in DOMAIN AbstractOpen \ {y} |->
                            IF z = x THEN [AbstractOpen[x] EXCEPT !.Left = @ - q]
                                     ELSE AbstractOpen[z]]
    ELSE AbstractOpen' = [AbstractOpen EXCEPT ![x].Left = @ - q, ![y].Left = @ - q]

\* They are so after one iteration of matchAgainstBook.
LEMMA TradeOrders ==
    ASSUME IInv, NEW p \in Partitions, NEW x \in OrderIds, NEW y \in OrderIds,
           NEW m \in BookKeys, NEW n \in Nat, NEW q \in Nat, TradesWith(p, x, y, m, n, q)
    PROVE  Traded(x, y, q)
<1>1. /\ x \in DOMAIN orders /\ y \in DOMAIN orders /\ x # y
      /\ Open(orders[x]) /\ Open(orders[y]) /\ DOMAIN orders' = DOMAIN orders
      /\ \A z \in DOMAIN orders : z # x /\ z # y => orders'[z] = orders[z]
      /\ \A z \in {x, y} : /\ SameTerms(orders'[z], orders[z])
                           /\ orders'[z].RemainingQuantity = orders[z].RemainingQuantity - q
      /\ orders'[x].Status = orders[x].Status
      /\ orders'[y].Status = IF orders[y].RemainingQuantity = q THEN StatusFilled ELSE StatusPartial
    BY DEF TradesWith
<1>2. PICK ax, ay : /\ ax = [Abstract(orders[x]) EXCEPT !.Left = @ - q]
                    /\ ay = [Abstract(orders[y]) EXCEPT !.Left = @ - q]
    OBVIOUS
<1>3. Abstract(orders'[x]) = ax /\ Abstract(orders'[y]) = ay
    BY <1>1, <1>2, AbstractFill
<1>4. PICK f, g : f = AbstractOpenOf(orders) /\ g = AbstractOpenOf(orders')
    OBVIOUS
<1>5. /\ DOMAIN f = OpenOf(orders) /\ x \in OpenOf(orders) /\ y \in OpenOf(orders)
      /\ \A z \in OpenOf(orders) : f[z] = Abstract(orders[z])
      /\ \A z \in OpenOf(orders') : g[z] = Abstract(orders'[z])
      /\ DOMAIN g = OpenOf(orders')
    BY <1>1, <1>4 DEF AbstractOpenOf, OpenOf
<1>6. ax = [f[x] EXCEPT !.Left = @ - q] /\ ay = [f[y] EXCEPT !.Left = @ - q]
    BY <1>2, <1>5
<1>7. Open(orders'[x]) /\ (Open(orders'[y]) <=> orders[y].RemainingQuantity # q)
    BY <1>1 DEF Open, StatusPending, StatusPartial, StatusFilled
<1>8. CASE orders[y].RemainingQuantity = q
    <2>1. OpenOf(orders') = OpenOf(orders) \ {y}
        BY <1>1, <1>7, <1>8 DEF OpenOf
    <2>2. \A z \in OpenOf(orders') : g[z] = IF z = x THEN ax ELSE f[z]
        BY <1>1, <1>3, <1>5, <2>1 DEF OpenOf
    <2>3. g = [z \in DOMAIN f \ {y} |-> IF z = x THEN ax ELSE f[z]]
        <3>1. g = [z \in OpenOf(orders') |-> g[z]]
            BY <1>4 DEF AbstractOpenOf
        <3> QED
            BY <1>5, <2>1, <2>2, <3>1
    <2> QED
        BY <1>4, <1>6, <1>8, <2>3, MappingIs DEF Traded
<1>9. CASE orders[y].RemainingQuantity # q
    <2>1. OpenOf(orders') = OpenOf(orders)
        BY <1>1, <1>7, <1>9 DEF OpenOf
    <2>2. \A z \in OpenOf(orders) : g[z] = IF z = y THEN ay ELSE IF z = x THEN ax ELSE f[z]
        BY <1>1, <1>3, <1>5, <2>1 DEF OpenOf
    <2>3. g = [[f EXCEPT ![x] = ax] EXCEPT ![y] = ay]
        <3>1. g = [z \in OpenOf(orders) |-> g[z]] /\ f = [z \in OpenOf(orders) |-> f[z]]
            BY <1>4, <2>1 DEF AbstractOpenOf
        <3> QED
            BY <1>1, <1>5, <2>2, <3>1
    <2>4. g = [f EXCEPT ![x].Left = @ - q, ![y].Left = @ - q]
        BY <1>1, <1>6, <2>3
    <2> QED
        BY <1>4, <1>9, <2>4, MappingIs DEF Traded
<1> QED
    BY <1>8, <1>9

\* One iteration of matchAgainstBook is a trade with the first partner.
LEMMA MatchTrades ==
    ASSUME IInv, IInv', SidesInv, NEW p \in Partitions, MatchPair(p)
    PROVE  X!ExchangeNext
<1>1. PICK x \in OrderIds, y \in OrderIds, m \in BookKeys, n \in Nat, q \in Nat :
         TradesWith(p, x, y, m, n, q)
    BY MatchPairTrades
<1>2. /\ pc[p] = "matching" /\ x = cur[p] /\ x \in DOMAIN orders /\ y \in DOMAIN orders
      /\ Open(orders[x]) /\ Open(orders[y]) /\ BookKey(orders[y]) = m
      /\ orders[y].OrderType = OrderTypeLimit /\ orders[x].RemainingQuantity > 0
      /\ q = Min2(orders[x].RemainingQuantity, orders[y].RemainingQuantity)
      /\ mu' = mu /\ cur' = cur
    BY <1>1 DEF TradesWith
<1>3. mu = p /\ p # Free
    BY <1>2, NullsAssumption DEF IInv, WorkersOK, MutexOK
<1>4. AbstractActive = x /\ AbstractActive' = x /\ x # NoOrder
    BY <1>2, <1>3, ActiveIs, NullsAssumption
<1>5. /\ AbstractOpen[x] = Abstract(orders[x]) /\ AbstractOpen[y] = Abstract(orders[y])
    BY <1>2 DEF AbstractOpen, OpenIds
<1>6. /\ AbstractOpen[x].Left = orders[x].RemainingQuantity
      /\ AbstractOpen[y].Left = orders[y].RemainingQuantity
      /\ AbstractOpen[y].Price = orders[y].Price
      /\ X!Key(AbstractOpen[y], AbstractOpen[y].Side) = m
    BY <1>2, <1>5, AbstractFields DEF X!Key, BookKey
<1>7. X!Min2(AbstractOpen[x].Left, AbstractOpen[y].Left) = q
    BY <1>2, <1>6, SameOperators
<1>8. X!First(x, y)
    BY <1>1, FoundFirst
<1>9. PICK price \in Prices : price = orders[y].Price
    BY <1>2 DEF SidesInv, PricesOK
<1>10. IF AbstractOpen[y].Left = q
       THEN AbstractQueue' = [AbstractQueue EXCEPT ![m][AbstractOpen[y].Price] = X!RemoveOrder(@, y)]
       ELSE AbstractQueue' = AbstractQueue
    BY <1>1, <1>6, <1>9, TradeQueues
<1>11. IF AbstractOpen[y].Left = q
       THEN AbstractOpen' = [z \in DOMAIN AbstractOpen \ {y} |->
                               IF z = x THEN [AbstractOpen[x] EXCEPT !.Left = @ - q]
                                        ELSE AbstractOpen[z]]
       ELSE AbstractOpen' = [AbstractOpen EXCEPT ![x].Left = @ - q, ![y].Left = @ - q]
    <2>1. Traded(x, y, q)
        BY <1>1, TradeOrders
    <2>2. CASE orders[y].RemainingQuantity = q
        BY <1>6, <2>1, <2>2 DEF Traded
    <2>3. CASE orders[y].RemainingQuantity # q
        BY <1>6, <2>1, <2>3 DEF Traded
    <2> QED
        BY <2>2, <2>3
<1>12. X!TradeWith(y)
    BY <1>2, <1>4, <1>6, <1>7, <1>8, <1>10, <1>11 DEF X!TradeWith
<1> QED
    BY <1>12 DEF X!ExchangeNext

\* The queues after an order rests: it is the last one at its price.
LEMMA RestQueues ==
    ASSUME IInv, IInv', SidesInv, NEW p \in Partitions, NEW x \in OrderIds, NEW k \in BookKeys,
           Finishes(p, x, k), Rests(x, k), NEW price \in Prices, price = orders[x].Price
    PROVE  AbstractQueue' = [AbstractQueue EXCEPT ![k][price] = Append(@, x)]
<1>1. /\ x \in DOMAIN orders /\ orders[x] \in Order /\ k = BookKey(orders[x])
      /\ DOMAIN orders' = DOMAIN orders
      /\ \A z \in DOMAIN orders : orders'[z].Price = orders[z].Price
      /\ book'[k] = AddToBook(orders, book[k], x)
      /\ \A j \in BookKeys : j # k => book'[j] = book[j]
    BY DEF Finishes, SameTerms, Rests
<1>2. \A j \in BookKeys : KeepsPrices(j)
    BY <1>1 DEF KeepsPrices, IInv, RestingOK
<1>3. /\ AbstractQueue \in [BookKeys -> [Prices -> Seq(OrderIds)]]
      /\ AbstractQueue' \in [BookKeys -> [Prices -> Seq(OrderIds)]]
      /\ \A j \in BookKeys, r \in Prices :
            /\ AbstractQueue[j][r] = QueueAt(orders, book[j], r)
            /\ AbstractQueue'[j][r] = QueueAt(orders', book'[j], r)
    BY QueueAfter
<1>4. PICK s \in Seq(OrderIds) : s = book[k]
    BY DEF IInv, TypeOK
<1>5. PICK side \in Sides : side = orders[x].Side
    BY <1>1 DEF Order
<1>6. k[3] = side
    BY <1>1, <1>5 DEF BookKey
<1>7. SortedSide(orders, s, side)
    BY <1>4, <1>6 DEF SidesInv, SortedBooks
<1>8. /\ orders[x].Price \in Nat /\ \A i \in DOMAIN s : orders[s[i]].Price \in Nat
      /\ \A i \in DOMAIN s : s[i] \in DOMAIN orders
    BY <1>1, <1>4, OnBook DEF Order
<1>9. PICK n \in 0 .. Len(s) : /\ AddToBook(orders, s, x) = InsertAfter(s, n, x)
                               /\ PutInPlace(orders, s, x, side, n)
    BY <1>5, <1>7, <1>8, AddToBookPlace
<1>10. \A i \in DOMAIN s : i > n => orders[s[i]].Price # price
    <2> TAKE i \in DOMAIN s
    <2> HAVE i > n
    <2>1. i \in Nat /\ n \in Nat /\ ~(i <= n)
        BY LenProperties
    <2>2. Better(side, orders[x].Price, orders[s[i]].Price)
        BY <1>9, <2>1 DEF PutInPlace
    <2> QED
        BY <1>8, <2>2 DEF Better
<1>11. PICK t \in Seq(OrderIds) : t = InsertAfter(s, n, x)
    BY InsertAfterProperties
<1>12. book'[k] = t /\ Ids(t) = Ids(s) \cup {x}
    BY <1>1, <1>4, <1>9, <1>11, InsertAfterIds
<1>13. ASSUME NEW r \in Prices
       PROVE  /\ QueueAt(orders', t, r) = QueueAt(orders, t, r)
              /\ r # price => QueueAt(orders, t, r) = QueueAt(orders, s, r)
              /\ r = price => QueueAt(orders, t, r) = Append(QueueAt(orders, s, r), x)
    <2>1. PICK os, ns : os = orders /\ ns = orders'
        OBVIOUS
    <2>2. \A i \in DOMAIN t : /\ t[i] \in DOMAIN os /\ t[i] \in DOMAIN ns
                              /\ ns[t[i]].Price = os[t[i]].Price
        <3> TAKE i \in DOMAIN t
        <3>1. t[i] \in Ids(t)
            BY DEF Ids
        <3>2. t[i] \in DOMAIN orders
            BY <1>1, <1>8, <1>12, <3>1 DEF Ids
        <3> QED
            BY <1>1, <2>1, <3>2
    <2>3. QueueAt(ns, t, r) = QueueAt(os, t, r)
        BY <2>2, QueueCong
    <2>4. PICK A : A = {z \in DOMAIN orders : orders[z].Price = r}
        OBVIOUS
    <2>5. QueueAt(orders, t, r) = Filter(t, A) /\ QueueAt(orders, s, r) = Filter(s, A)
        BY <2>4 DEF QueueAt
    <2>6. CASE r # price
        <3>1. x \notin A
            BY <2>4, <2>6
        <3>2. Filter(InsertAfter(s, n, x), A) = Filter(s, A)
            BY <3>1, FilterInsert
        <3> QED
            BY <1>11, <2>1, <2>3, <2>5, <2>6, <3>2
    <2>7. CASE r = price
        <3>1. x \in A /\ \A i \in DOMAIN s : i > n => s[i] \notin A
            BY <1>1, <1>10, <2>4, <2>7
        <3>2. Filter(InsertAfter(s, n, x), A) = Append(Filter(s, A), x)
            BY <3>1, FilterInsert
        <3> QED
            BY <1>11, <2>1, <2>3, <2>5, <2>7, <3>2
    <2> QED
        BY <2>6, <2>7
<1>14. PICK v : v = Append(QueueAt(orders, s, price), x)
    OBVIOUS
<1>15. ASSUME NEW j \in BookKeys, NEW r \in Prices
       PROVE  AbstractQueue'[j][r] = IF j = k /\ r = price THEN v ELSE AbstractQueue[j][r]
    <2>1. CASE j # k
        <3>1. QueueAt(orders', book'[j], r) = QueueAt(orders, book[j], r)
            BY <1>1, <1>2, <2>1, SideKept
        <3> QED
            BY <1>3, <2>1, <3>1
    <2>2. CASE j = k
        <3>1. /\ AbstractQueue'[j][r] = QueueAt(orders', t, r)
              /\ AbstractQueue[j][r] = QueueAt(orders, s, r)
            BY <1>3, <1>4, <1>12, <2>2
        <3>2. CASE r = price
            BY <1>13, <1>14, <2>2, <3>1, <3>2
        <3>3. CASE r # price
            BY <1>13, <2>2, <3>1, <3>3
        <3> QED
            BY <3>2, <3>3
    <2> QED
        BY <2>1, <2>2
<1>16. PICK f, g : f = AbstractQueue /\ g = AbstractQueue'
    OBVIOUS
<1>17. /\ f \in [BookKeys -> [Prices -> Seq(OrderIds)]]
       /\ g \in [BookKeys -> [Prices -> Seq(OrderIds)]]
       /\ \A j \in BookKeys, r \in Prices : g[j][r] = IF j = k /\ r = price THEN v ELSE f[j][r]
    BY <1>3, <1>15, <1>16
<1>18. g = [f EXCEPT ![k][price] = v]
    BY <1>17, ChangedAt
<1>19. v = Append(f[k][price], x)
    BY <1>3, <1>4, <1>14, <1>16
<1>20. g = [f EXCEPT ![k][price] = Append(@, x)]
    BY <1>18, <1>19
<1> QED
    BY <1>16, <1>20

\* The end of matchOrder: the order rests or leaves.
LEMMA FinishEnds ==
    ASSUME IInv, IInv', SidesInv, NEW p \in Partitions, FinishMatch(p)
    PROVE  X!ExchangeNext
<1>1. PICK x \in OrderIds, k \in BookKeys : Finishes(p, x, k)
    BY FinishMatchFinishes
<1>2. PICK m \in BookKeys : m = OppositeKey(orders[x])
    BY <1>1 DEF Finishes
<1>3. /\ pc[p] = "matching" /\ x = cur[p] /\ k = BookKey(orders[x])
      /\ x \in DOMAIN orders /\ orders[x] \in Order /\ Open(orders[x])
      /\ DOMAIN orders' = DOMAIN orders
      /\ \A z \in DOMAIN orders : z # x => orders'[z] = orders[z]
      /\ SameTerms(orders'[x], orders[x])
      /\ orders'[x].RemainingQuantity = orders[x].RemainingQuantity
      /\ Rests(x, k) \/ Leaves(x)
      /\ mu' = Free
    BY <1>1 DEF Finishes
<1>4. mu = p /\ p # Free
    BY <1>3, NullsAssumption DEF IInv, WorkersOK, MutexOK
<1>5. AbstractActive = x /\ AbstractActive' = NoOrder /\ x # NoOrder
    BY <1>3, <1>4, ActiveIs, NullsAssumption
<1>6. x \in OpenIds /\ AbstractOpen[x] = Abstract(orders[x])
    BY <1>3 DEF AbstractOpen, OpenIds
<1>7. /\ AbstractOpen[x].Left = orders[x].RemainingQuantity
      /\ AbstractOpen[x].OrderType = orders[x].OrderType
      /\ AbstractOpen[x].Price = orders[x].Price
      /\ X!Key(AbstractOpen[x], AbstractOpen[x].Side) = k
    BY <1>3, <1>6, AbstractFields DEF X!Key, BookKey
<1>8. Candidates(orders, book[m], orders[x]) = {} => X!Partners(x) = {}
    BY <1>2, <1>6, PartnersFound DEF SidesInv
<1>9. \A z \in DOMAIN orders : Abstract(orders'[z]) = Abstract(orders[z])
    BY <1>3, AbstractSame
<1>10. CASE Rests(x, k)
    <2>1. /\ orders[x].OrderType = OrderTypeLimit /\ orders[x].RemainingQuantity > 0
          /\ Candidates(orders, book[m], orders[x]) = {} /\ Open(orders'[x])
        BY <1>2, <1>10 DEF Rests
    <2>2. AbstractOpen' = AbstractOpen
        <3>1. OpenOf(orders') = OpenOf(orders)
            BY <1>3, <2>1 DEF OpenOf
        <3>2. \A z \in OpenOf(orders) : Abstract(orders'[z]) = Abstract(orders[z])
            BY <1>9 DEF OpenOf
        <3>3. AbstractOpenOf(orders') = AbstractOpenOf(orders)
            BY <3>1, <3>2 DEF AbstractOpenOf
        <3> QED
            BY <3>3, MappingIs
    <2>3. PICK price \in Prices : price = orders[x].Price
        BY <1>3, <2>1 DEF SidesInv, PricesOK
    <2>4. AbstractQueue' = [AbstractQueue EXCEPT ![k][price] = Append(@, x)]
        BY <1>1, <1>10, <2>3, RestQueues
    <2>5. AbstractQueue' = [AbstractQueue EXCEPT
                              ![X!Key(AbstractOpen[x], AbstractOpen[x].Side)][AbstractOpen[x].Price] =
                                 Append(@, x)]
        BY <1>7, <2>3, <2>4
    <2>6. /\ AbstractOpen[x].Left > 0 /\ AbstractOpen[x].OrderType = X!OrderTypeLimit
          /\ X!Partners(x) = {}
        BY <1>7, <1>8, <2>1, SameOperators
    <2>7. X!Rest
        BY <1>5, <2>2, <2>5, <2>6 DEF X!Rest
    <2> QED
        BY <2>7 DEF X!ExchangeNext
<1>11. CASE Leaves(x)
    <2>1. /\ \/ orders[x].RemainingQuantity = 0
             \/ /\ orders[x].OrderType = OrderTypeMarket
                /\ Candidates(orders, book[m], orders[x]) = {}
          /\ ~Open(orders'[x]) /\ book' = book
        BY <1>2, <1>11 DEF Leaves
    <2>2. AbstractOpen' = [y \in DOMAIN AbstractOpen \ {x} |-> AbstractOpen[y]]
        <3>1. OpenOf(orders') = OpenOf(orders) \ {x}
            BY <1>3, <2>1 DEF OpenOf
        <3>2. \A z \in OpenOf(orders') : Abstract(orders'[z]) = Abstract(orders[z])
            BY <1>3, <1>9 DEF OpenOf
        <3> QED
            BY <3>1, <3>2, OpenWithout
    <2>3. AbstractQueue' = AbstractQueue
        <3>1. \A j \in BookKeys : KeepsPrices(j)
            BY <1>3 DEF KeepsPrices, SameTerms, IInv, RestingOK
        <3> QED
            BY <2>1, <3>1, QueuesKept
    <2>4. \/ AbstractOpen[x].Left = 0
          \/ AbstractOpen[x].OrderType = X!OrderTypeMarket /\ X!Partners(x) = {}
        BY <1>7, <1>8, <2>1, SameOperators
    <2>5. X!Leave
        BY <1>5, <2>2, <2>3, <2>4 DEF X!Leave
    <2> QED
        BY <2>5 DEF X!ExchangeNext
<1> QED
    BY <1>3, <1>10, <1>11

\* The other steps of a worker are none of the exchange.
LEMMA OthersUnseen ==
    ASSUME IInv, NEW p \in Partitions,
           \/ \E e \in Events : CreateEvent(p, e)
           \/ \E u \in Users : UserCreated(p, u)
           \/ \E x \in OrderIds, req \in ValidOrders : RefuseOrder(p, x, req)
           \/ EmitCreated(p) \/ PublishTrade(p) \/ EmitCanceled(p)
    PROVE  UNCHANGED X!exchangeVars
<1>1. orders' = orders /\ book' = book /\ mu' = mu /\ pc[p] # "matching"
    BY DEF CreateEvent, UserCreated, RefuseOrder, Submitted, Idle, EmitCreated, PublishTrade,
           EmitCanceled, marketVars
<1>2. cur \in [Partitions -> OrderIds \cup {NoOrder}]
    BY DEF IInv, TypeOK
<1>3. \A r \in Partitions : r # p => cur'[r] = cur[r]
    BY <1>2 DEF CreateEvent, UserCreated, RefuseOrder, EmitCreated, PublishTrade, EmitCanceled,
                Goto, workerVars
<1>4. AbstractActive' = AbstractActive
    BY <1>1, <1>3, ActiveKept
<1> QED
    BY <1>1, <1>4, Unseen

\* Every step of the engine is a step of the exchange, or none.
LEMMA EngineSteps ==
    ASSUME IInv, IInv', SidesInv, [Next]_vars
    PROVE  [X!ExchangeNext]_(X!exchangeVars)
<1>1. CASE UNCHANGED vars
    <2>1. orders' = orders /\ book' = book /\ mu' = mu /\ cur' = cur
        BY <1>1 DEF vars, marketVars, workerVars
    <2>2. AbstractActive' = AbstractActive
        BY <2>1 DEF AbstractActive
    <2> QED
        BY <2>1, <2>2, Unseen
<1>2. ASSUME NEW p \in Partitions,
             \/ \E e \in Events : CreateEvent(p, e)
             \/ \E u \in Users : UserCreated(p, u)
             \/ \E x \in OrderIds, req \in ValidOrders : RefuseOrder(p, x, req)
             \/ EmitCreated(p) \/ PublishTrade(p) \/ EmitCanceled(p)
      PROVE  [X!ExchangeNext]_(X!exchangeVars)
    BY <1>2, OthersUnseen
<1>3. ASSUME NEW p \in Partitions, NEW x \in OrderIds, NEW req \in ValidOrders,
             AcceptOrder(p, x, req)
      PROVE  [X!ExchangeNext]_(X!exchangeVars)
    BY <1>3, AcceptArrives
<1>4. ASSUME NEW p \in Partitions, EmitCreatedFails(p)
      PROVE  [X!ExchangeNext]_(X!exchangeVars)
    BY <1>4, UndoWithdraws
<1>5. ASSUME NEW p \in Partitions, BeginMatch(p)
      PROVE  [X!ExchangeNext]_(X!exchangeVars)
    BY <1>5, BeginBegins DEF SidesInv
<1>6. ASSUME NEW p \in Partitions, MatchPair(p)
      PROVE  [X!ExchangeNext]_(X!exchangeVars)
    BY <1>6, MatchTrades
<1>7. ASSUME NEW p \in Partitions, FinishMatch(p)
      PROVE  [X!ExchangeNext]_(X!exchangeVars)
    BY <1>7, FinishEnds
<1>8. ASSUME NEW p \in Partitions, NEW x \in OrderIds, CancelOrder(p, x)
      PROVE  [X!ExchangeNext]_(X!exchangeVars)
    BY <1>8, CancelWithdraws
<1> QED
    BY <1>1, <1>2, <1>3, <1>4, <1>5, <1>6, <1>7, <1>8, Zenon DEF Next, Submit, Continue

\* It starts as an exchange without orders.
LEMMA EngineStarts ==
    ASSUME Init
    PROVE  X!ExchangeInit
<1>1. DOMAIN orders = {} /\ mu = Free /\ book = [k \in BookKeys |-> << >>]
    BY DEF Init
<1>2. AbstractOpen = [x \in {} |-> x]
    <2>1. OpenIds = {}
        BY <1>1 DEF OpenIds
    <2> QED
        BY <2>1 DEF AbstractOpen
<1>3. AbstractQueue = [k \in BookKeys |-> [price \in Prices |-> << >>]]
    <2>1. \A price : Filter(<< >>, Priced(price)) = << >>
        BY FilterSteps
    <2> QED
        BY <1>1, <2>1 DEF AbstractQueue
<1>4. AbstractActive = NoOrder
    BY <1>1 DEF AbstractActive
<1> QED
    BY <1>2, <1>3, <1>4 DEF X!ExchangeInit

\* Price-time priority: the slices, the stable sort, findCounterparty's scan,
\* the clean-up of dead orders and the workers' critical sections implement an
\* exchange with a first-in first-out queue for every price, however many
\* partitions, users, orders and prices there are.
THEOREM EngineImplementsExchange == Spec => ImplementsExchange
<1>1. Init => X!ExchangeInit
    BY EngineStarts
<1>2. IInv /\ IInv' /\ SidesInv /\ [Next]_vars => [X!ExchangeNext]_(X!exchangeVars)
    BY EngineSteps
<1> QED
    BY <1>1, <1>2, Invariance, SidesAlwaysSorted, PTL DEF Spec, ImplementsExchange, X!ExchangeSpec
=============================================================================
