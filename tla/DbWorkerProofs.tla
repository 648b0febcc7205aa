--------------------------- MODULE DbWorkerProofs ---------------------------
(***************************************************************************)
(* Proofs about DbWorker, for any number of workers, users, events,        *)
(* partitions and orders, any batches, redeliveries and failures: what is  *)
(* acknowledged is applied, every trade is settled once, every refusal has *)
(* one of four explanations and, with one worker, rows have the right      *)
(* status and Postgres catches up with the engine.                         *)
(***************************************************************************)
EXTENDS DbWorker, DataTheorems

\* Order o takes part in trade t.
Involves(t, o) == o = t.taker \/ o = t.maker

\* What entry i of the stream announces.
IsTrade(i) == stream[i].type = "TRADE_EXECUTED"
IsCreate(i, o) == stream[i].type = "ORDER_CREATED" /\ stream[i].order = o
IsCancel(i, o) == stream[i].type = "ORDER_CANCELED" /\ stream[i].order = o

-----------------------------------------------------------------------------
(* Sums over trades                                                        *)

\* The quantities and the costs of the trades of T.
Fills(T) == [id \in DOMAIN T |-> T[id].quantity]
Costs(T) == [id \in DOMAIN T |-> Cost(T[id])]

\* The trades among S of one order, buyer, seller or event.
With(T, S, o) == {id \in S : Involves(T[id], o)}
BoughtBy(T, S, u) == {id \in S : Buyer(T[id]) = u}
SoldBy(T, S, u) == {id \in S : Seller(T[id]) = u}
About(T, S, e) == {id \in S : EventOfTrade(T[id]) = e}

\* What the trades of S add up to: the fill of order o, what user u is worth,
\* the shares that u has of event e, and the volume of e.
Filled(T, S, o) == SumFunctionOnSet(Fills(T), With(T, S, o))
Worth(T, S, u) ==
    Balance + SumFunctionOnSet(Costs(T), SoldBy(T, S, u))
            - SumFunctionOnSet(Costs(T), BoughtBy(T, S, u))
Position(T, S, u, e) ==
    SumFunctionOnSet(Fills(T), About(T, BoughtBy(T, S, u), e))
    - SumFunctionOnSet(Fills(T), About(T, SoldBy(T, S, u), e))
Turnover(T, S, e) == SumFunctionOnSet(Costs(T), About(T, S, e))

\* What trade t alone contributes to each.
Fill(t, o) == IF Involves(t, o) THEN t.quantity ELSE 0
Gain(t, u) == IF u = Buyer(t) THEN -Cost(t) ELSE IF u = Seller(t) THEN Cost(t) ELSE 0
Lots(t, u, e) ==
    IF e # EventOfTrade(t) THEN 0
    ELSE IF u = Buyer(t) THEN t.quantity ELSE IF u = Seller(t) THEN -t.quantity ELSE 0
Paid(t, e) == IF e = EventOfTrade(t) THEN Cost(t) ELSE 0

\* A trade has natural quantity and cost, and users.
LEMMA TradeFacts ==
    ASSUME NEW t \in Trade
    PROVE  /\ t.taker \in Orders /\ t.maker \in Orders
           /\ t.quantity \in Nat /\ t.quantity > 0 /\ Cost(t) \in Nat
           /\ Buyer(t) \in Users /\ Seller(t) \in Users /\ EventOfTrade(t) \in Events
<1>1. t.taker \in Orders /\ t.maker \in Orders /\ t.quantity \in Nat /\ t.quantity > 0
    BY DEF Trade
<1>2. PriceOf[t.maker] \in Nat
    BY <1>1, OrdersAssumption
<1>3. Cost(t) \in Nat
    <2>1. \A a, b \in Nat : a * b \in Nat
        OBVIOUS
    <2> QED
        BY <1>1, <1>2, <2>1 DEF Cost
<1> QED
    BY <1>1, <1>3, OrdersAssumption DEF Buyer, Seller, EventOfTrade

\* Sets of trades are finite and have natural sums.
LEMMA TradeSums ==
    ASSUME NEW T \in Seq(Trade), NEW S, S \subseteq DOMAIN T
    PROVE  /\ IsFiniteSet(S)
           /\ \A id \in DOMAIN T : /\ Fills(T)[id] = T[id].quantity /\ Fills(T)[id] \in Nat
                                   /\ Costs(T)[id] = Cost(T[id]) /\ Costs(T)[id] \in Nat
           /\ SumFunctionOnSet(Fills(T), S) \in Nat
           /\ SumFunctionOnSet(Costs(T), S) \in Nat
<1>1. IsFiniteSet(S)
    <2>1. DOMAIN T = 1 .. Len(T) /\ Len(T) \in Nat
        OBVIOUS
    <2>2. IsFiniteSet(1 .. Len(T))
        BY <2>1, FS_Interval
    <2> QED
        BY <2>1, <2>2, FS_Subset
<1>2. \A id \in DOMAIN T : T[id] \in Trade
    OBVIOUS
<1>3. \A id \in DOMAIN T : /\ Fills(T)[id] = T[id].quantity /\ Fills(T)[id] \in Nat
                           /\ Costs(T)[id] = Cost(T[id]) /\ Costs(T)[id] \in Nat
    BY <1>2, TradeFacts DEF Fills, Costs
<1>4. SumFunctionOnSet(Fills(T), S) \in Nat
    BY <1>1, <1>3, SumNat
<1>5. SumFunctionOnSet(Costs(T), S) \in Nat
    BY <1>1, <1>3, SumNat
<1> QED
    BY <1>1, <1>3, <1>4, <1>5

\* One more trade adds its quantity and its cost.
LEMMA TradeSumsAdd ==
    ASSUME NEW T \in Seq(Trade), NEW S, S \subseteq DOMAIN T, NEW id \in DOMAIN T, id \notin S
    PROVE  /\ SumFunctionOnSet(Fills(T), S \cup {id}) =
                SumFunctionOnSet(Fills(T), S) + T[id].quantity
           /\ SumFunctionOnSet(Costs(T), S \cup {id}) =
                SumFunctionOnSet(Costs(T), S) + Cost(T[id])
<1>1. /\ IsFiniteSet(S)
      /\ \A i \in DOMAIN T : /\ Fills(T)[i] = T[i].quantity /\ Fills(T)[i] \in Nat
                             /\ Costs(T)[i] = Cost(T[i]) /\ Costs(T)[i] \in Nat
      /\ SumFunctionOnSet(Fills(T), S) \in Nat
      /\ SumFunctionOnSet(Costs(T), S) \in Nat
    BY TradeSums
<1>2. /\ \A i \in S \cup {id} : Fills(T)[i] \in Int
      /\ \A i \in S \cup {id} : Costs(T)[i] \in Int
    BY <1>1
<1>3. SumFunctionOnSet(Fills(T), S \cup {id}) = Fills(T)[id] + SumFunctionOnSet(Fills(T), S)
    BY <1>1, <1>2, SumAdd
<1>4. SumFunctionOnSet(Costs(T), S \cup {id}) = Costs(T)[id] + SumFunctionOnSet(Costs(T), S)
    BY <1>1, <1>2, SumAdd
<1> QED
    BY <1>1, <1>3, <1>4

\* The sums over a set of trades are numbers.
LEMMA SumTypes ==
    ASSUME NEW T \in Seq(Trade), NEW S \in SUBSET DOMAIN T
    PROVE  /\ \A o : Filled(T, S, o) \in Nat
           /\ \A u : Worth(T, S, u) \in Int
           /\ \A u, e : Position(T, S, u, e) \in Int
           /\ \A e : Turnover(T, S, e) \in Nat
<1>1. ASSUME NEW s \in SUBSET S
      PROVE  SumFunctionOnSet(Fills(T), s) \in Nat /\ SumFunctionOnSet(Costs(T), s) \in Nat
    BY TradeSums
<1>2. \A o, u, e : /\ With(T, S, o) \in SUBSET S /\ About(T, S, e) \in SUBSET S
                   /\ BoughtBy(T, S, u) \in SUBSET S /\ SoldBy(T, S, u) \in SUBSET S
                   /\ About(T, BoughtBy(T, S, u), e) \in SUBSET S
                   /\ About(T, SoldBy(T, S, u), e) \in SUBSET S
    BY DEF With, About, BoughtBy, SoldBy
<1>3. ASSUME NEW o PROVE Filled(T, S, o) \in Nat
    BY <1>1, <1>2 DEF Filled
<1>4. ASSUME NEW e PROVE Turnover(T, S, e) \in Nat
    BY <1>1, <1>2 DEF Turnover
<1>5. ASSUME NEW u PROVE Worth(T, S, u) \in Int
    <2>1. /\ SumFunctionOnSet(Costs(T), SoldBy(T, S, u)) \in Nat
          /\ SumFunctionOnSet(Costs(T), BoughtBy(T, S, u)) \in Nat
        BY <1>1, <1>2
    <2> QED
        BY <2>1, LimitsAssumption DEF Worth
<1>6. ASSUME NEW u, NEW e PROVE Position(T, S, u, e) \in Int
    <2>1. /\ SumFunctionOnSet(Fills(T), About(T, BoughtBy(T, S, u), e)) \in Nat
          /\ SumFunctionOnSet(Fills(T), About(T, SoldBy(T, S, u), e)) \in Nat
        BY <1>1, <1>2
    <2> QED
        BY <2>1 DEF Position
<1> QED
    BY <1>3, <1>4, <1>5, <1>6

\* No trades, no sums.
LEMMA SumNone ==
    ASSUME NEW T
    PROVE  /\ \A o : Filled(T, {}, o) = 0
           /\ \A u : Worth(T, {}, u) = Balance
           /\ \A u, e : Position(T, {}, u, e) = 0
           /\ \A e : Turnover(T, {}, e) = 0
<1>1. /\ \A x : /\ With(T, {}, x) = {} /\ BoughtBy(T, {}, x) = {} /\ SoldBy(T, {}, x) = {}
                 /\ About(T, {}, x) = {}
      /\ \A f : SumFunctionOnSet(f, {}) = 0
    BY FS_EmptySet, SumRecursion DEF With, BoughtBy, SoldBy, About
<1>2. Balance + 0 - 0 = Balance /\ 0 - 0 = 0
    BY LimitsAssumption
<1> QED
    BY <1>1, <1>2, Zenon DEF Filled, Worth, Position, Turnover

\* R is S and the new trade id, which is t.
Adds(T, S, R, id, t) ==
    /\ T \in Seq(Trade) /\ S \subseteq DOMAIN T
    /\ id \in DOMAIN T \ S /\ R = S \cup {id}
    /\ T[id] = t /\ Buyer(t) # Seller(t)

\* A trade adds to the sums over a set what it contributes alone.
LEMMA SumsAdd ==
    ASSUME NEW T, NEW S, NEW R, NEW id, NEW t, Adds(T, S, R, id, t)
    PROVE  /\ \A o : Filled(T, R, o) = Filled(T, S, o) + Fill(t, o)
           /\ \A u : Worth(T, R, u) = Worth(T, S, u) + Gain(t, u)
           /\ \A u, e : Position(T, R, u, e) = Position(T, S, u, e) + Lots(t, u, e)
           /\ \A e : Turnover(T, R, e) = Turnover(T, S, e) + Paid(t, e)
<1> DEFINE F(s) == SumFunctionOnSet(Fills(T), s)
           C(s) == SumFunctionOnSet(Costs(T), s)
<1>1. t.quantity \in Nat /\ Cost(t) \in Nat /\ Buyer(t) # Seller(t)
    BY TradeFacts DEF Adds
<1>2. ASSUME NEW s, s \subseteq S
      PROVE  /\ F(s \cup {id}) = F(s) + t.quantity /\ C(s \cup {id}) = C(s) + Cost(t)
             /\ F(s) \in Nat /\ C(s) \in Nat
    <2>1. s \subseteq DOMAIN T /\ id \notin s /\ T \in Seq(Trade) /\ id \in DOMAIN T /\ T[id] = t
        BY <1>2 DEF Adds
    <2> QED
        BY <2>1, TradeSums, TradeSumsAdd
<1>3. R = S \cup {id} /\ T[id] = t
    BY DEF Adds
<1> HIDE DEF F, C
<1>4. ASSUME NEW o
      PROVE  F(With(T, R, o)) = F(With(T, S, o)) + Fill(t, o)
    <2>1. With(T, R, o) = IF Involves(t, o) THEN With(T, S, o) \cup {id} ELSE With(T, S, o)
        BY <1>3 DEF With
    <2>2. With(T, S, o) \subseteq S
        BY DEF With
    <2>3. /\ F(With(T, S, o) \cup {id}) = F(With(T, S, o)) + t.quantity
          /\ F(With(T, S, o)) \in Nat
        BY <1>2, <2>2
    <2>4. CASE Involves(t, o)
        BY <2>1, <2>3, <2>4 DEF Fill
    <2>5. CASE ~Involves(t, o)
        BY <2>1, <2>3, <2>5 DEF Fill
    <2> QED
        BY <2>4, <2>5
<1>5. ASSUME NEW u
      PROVE  Worth(T, R, u) = Worth(T, S, u) + Gain(t, u)
    <2>1. /\ BoughtBy(T, R, u) =
                IF u = Buyer(t) THEN BoughtBy(T, S, u) \cup {id} ELSE BoughtBy(T, S, u)
          /\ SoldBy(T, R, u) =
                IF u = Seller(t) THEN SoldBy(T, S, u) \cup {id} ELSE SoldBy(T, S, u)
        BY <1>3 DEF BoughtBy, SoldBy
    <2>2. BoughtBy(T, S, u) \subseteq S /\ SoldBy(T, S, u) \subseteq S
        BY DEF BoughtBy, SoldBy
    <2>3. /\ Worth(T, R, u) = Balance + C(SoldBy(T, R, u)) - C(BoughtBy(T, R, u))
          /\ Worth(T, S, u) = Balance + C(SoldBy(T, S, u)) - C(BoughtBy(T, S, u))
        BY DEF Worth, C
    <2>4. /\ C(BoughtBy(T, S, u) \cup {id}) = C(BoughtBy(T, S, u)) + Cost(t)
          /\ C(SoldBy(T, S, u) \cup {id}) = C(SoldBy(T, S, u)) + Cost(t)
          /\ C(BoughtBy(T, S, u)) \in Nat /\ C(SoldBy(T, S, u)) \in Nat
        BY <1>2, <2>2
    <2> QED
        BY <1>1, <2>1, <2>3, <2>4, LimitsAssumption DEF Gain
<1>6. ASSUME NEW u, NEW e
      PROVE  Position(T, R, u, e) = Position(T, S, u, e) + Lots(t, u, e)
    <2> DEFINE B(s) == About(T, BoughtBy(T, s, u), e)
               D(s) == About(T, SoldBy(T, s, u), e)
    <2>1. /\ B(R) = IF u = Buyer(t) /\ e = EventOfTrade(t) THEN B(S) \cup {id} ELSE B(S)
          /\ D(R) = IF u = Seller(t) /\ e = EventOfTrade(t) THEN D(S) \cup {id} ELSE D(S)
        BY <1>3 DEF BoughtBy, SoldBy, About
    <2>2. B(S) \subseteq S /\ D(S) \subseteq S
        BY DEF BoughtBy, SoldBy, About
    <2>3. Position(T, R, u, e) = F(B(R)) - F(D(R)) /\ Position(T, S, u, e) = F(B(S)) - F(D(S))
        BY DEF Position, F
    <2> HIDE DEF B, D
    <2>4. /\ F(B(S) \cup {id}) = F(B(S)) + t.quantity /\ F(D(S) \cup {id}) = F(D(S)) + t.quantity
          /\ F(B(S)) \in Nat /\ F(D(S)) \in Nat
        BY <1>2, <2>2
    <2> QED
        BY <1>1, <2>1, <2>3, <2>4 DEF Lots
<1>7. ASSUME NEW e
      PROVE  C(About(T, R, e)) = C(About(T, S, e)) + Paid(t, e)
    <2>1. About(T, R, e) = IF e = EventOfTrade(t) THEN About(T, S, e) \cup {id} ELSE About(T, S, e)
        BY <1>3 DEF About
    <2>2. About(T, S, e) \subseteq S
        BY DEF About
    <2>3. /\ C(About(T, S, e) \cup {id}) = C(About(T, S, e)) + Cost(t)
          /\ C(About(T, S, e)) \in Nat
        BY <1>2, <2>2
    <2>4. CASE e = EventOfTrade(t)
        BY <2>1, <2>3, <2>4 DEF Paid
    <2>5. CASE e # EventOfTrade(t)
        BY <2>1, <2>3, <2>5 DEF Paid
    <2> QED
        BY <2>4, <2>5
<1>8. \A o : Filled(T, R, o) = Filled(T, S, o) + Fill(t, o)
    BY <1>4 DEF Filled, F
<1>9. \A e : Turnover(T, R, e) = Turnover(T, S, e) + Paid(t, e)
    BY <1>7 DEF Turnover, C
<1> QED
    BY <1>5, <1>6, <1>8, <1>9

\* R has the trades of S as T has them.
Keeps(T, R, S) ==
    /\ T \in Seq(Trade) /\ R \in Seq(Trade)
    /\ S \subseteq DOMAIN T /\ S \subseteq DOMAIN R
    /\ \A id \in S : R[id] = T[id]

\* Trades that are executed later do not change the sums over earlier ones.
LEMMA SumsKept ==
    ASSUME NEW T, NEW R, NEW S, Keeps(T, R, S)
    PROVE  /\ \A o : Filled(R, S, o) = Filled(T, S, o)
           /\ \A u : Worth(R, S, u) = Worth(T, S, u)
           /\ \A u, e : Position(R, S, u, e) = Position(T, S, u, e)
           /\ \A e : Turnover(R, S, e) = Turnover(T, S, e)
<1>1. \A o, u, e :
        /\ With(R, S, o) = With(T, S, o) /\ With(T, S, o) \in SUBSET S
        /\ BoughtBy(R, S, u) = BoughtBy(T, S, u) /\ BoughtBy(T, S, u) \in SUBSET S
        /\ SoldBy(R, S, u) = SoldBy(T, S, u) /\ SoldBy(T, S, u) \in SUBSET S
        /\ About(R, S, e) = About(T, S, e) /\ About(T, S, e) \in SUBSET S
        /\ About(R, BoughtBy(T, S, u), e) = About(T, BoughtBy(T, S, u), e)
        /\ About(T, BoughtBy(T, S, u), e) \in SUBSET S
        /\ About(R, SoldBy(T, S, u), e) = About(T, SoldBy(T, S, u), e)
        /\ About(T, SoldBy(T, S, u), e) \in SUBSET S
    BY DEF Keeps, With, BoughtBy, SoldBy, About
<1>2. ASSUME NEW s \in SUBSET S
      PROVE  /\ SumFunctionOnSet(Fills(R), s) = SumFunctionOnSet(Fills(T), s)
             /\ SumFunctionOnSet(Costs(R), s) = SumFunctionOnSet(Costs(T), s)
    <2>1. /\ IsFiniteSet(s)
          /\ \A id \in s : Fills(R)[id] = Fills(T)[id] /\ Costs(R)[id] = Costs(T)[id]
        BY TradeSums DEF Keeps
    <2>2. SumFunctionOnSet(Fills(R), s) = SumFunctionOnSet(Fills(T), s)
        BY <2>1, SumCong
    <2>3. SumFunctionOnSet(Costs(R), s) = SumFunctionOnSet(Costs(T), s)
        BY <2>1, SumCong
    <2> QED
        BY <2>2, <2>3
<1>3. ASSUME NEW o PROVE Filled(R, S, o) = Filled(T, S, o)
    <2>1. With(R, S, o) = With(T, S, o) /\ With(T, S, o) \in SUBSET S
        BY <1>1
    <2>2. SumFunctionOnSet(Fills(R), With(T, S, o)) = SumFunctionOnSet(Fills(T), With(T, S, o))
        BY <1>2, <2>1, Zenon
    <2> QED
        BY <2>1, <2>2, Zenon DEF Filled
<1>4. ASSUME NEW u PROVE Worth(R, S, u) = Worth(T, S, u)
    BY <1>1, <1>2, Zenon DEF Worth
<1>5. ASSUME NEW u, NEW e PROVE Position(R, S, u, e) = Position(T, S, u, e)
    <2> DEFINE B == About(T, BoughtBy(T, S, u), e)
               D == About(T, SoldBy(T, S, u), e)
    <2>1. /\ About(R, BoughtBy(R, S, u), e) = B /\ B \in SUBSET S
          /\ About(R, SoldBy(R, S, u), e) = D /\ D \in SUBSET S
        BY <1>1, Zenon
    <2>2. /\ Position(T, S, u, e) = SumFunctionOnSet(Fills(T), B) - SumFunctionOnSet(Fills(T), D)
          /\ Position(R, S, u, e) = SumFunctionOnSet(Fills(R), B) - SumFunctionOnSet(Fills(R), D)
        BY <2>1, Zenon DEF Position
    <2> HIDE DEF B, D
    <2> QED
        BY <1>2, <2>1, <2>2, Zenon
<1>6. ASSUME NEW e PROVE Turnover(R, S, e) = Turnover(T, S, e)
    BY <1>1, <1>2, Zenon DEF Turnover
<1> QED
    BY <1>3, <1>4, <1>5, <1>6

-----------------------------------------------------------------------------
(* The engine and its stream                                               *)

\* What the engine and the stream keep.
EngineTypes ==
    /\ status \in [Orders -> Statuses \cup {"NONE"}]
    /\ got \in [Orders -> Nat]
    /\ trades \in Seq(Trade)
    /\ taking \in [Partitions -> Orders \cup {NoOrder}]
    /\ unsent \in [Partitions -> Seq(Nat)]
    /\ stream \in Seq(OrderEvent \cup TradeEvent)

\* Trades are between orders of one event, different sides and users.
TradesOK ==
    \A id \in DOMAIN trades :
        LET t == trades[id]
        IN  /\ EventOf[t.taker] = EventOf[t.maker]
            /\ SideOf[t.taker] # SideOf[t.maker]
            /\ UserOf[t.taker] # UserOf[t.maker]
            /\ status[t.taker] # "NONE" /\ status[t.maker] # "NONE"

\* A partition matches its own orders, and none that is canceled.
TakingOK ==
    \A p \in Partitions : taking[p] # NoOrder =>
        /\ PartitionOfOrder(taking[p]) = p
        /\ status[taking[p]] \notin {"NONE", "CANCELED"}

\* The status that n filled shares give an order.
StatusOf(o, n) ==
    IF n = 0 THEN "PENDING" ELSE IF n < QuantityOf[o] THEN "PARTIAL" ELSE "FILLED"

\* Fills decide on the status of an order that is not canceled.
StatusOK ==
    \A o \in Orders :
        /\ got[o] <= QuantityOf[o]
        /\ status[o] \notin {"NONE", "CANCELED"} => status[o] = StatusOf(o, got[o])
        /\ status[o] = "NONE" => got[o] = 0

\* Orders and cancellations are announced, those of market orders aside.
AnnouncedOK ==
    \A o \in Orders :
        /\ status[o] # "NONE" => \E i \in 1 .. Len(stream) : IsCreate(i, o)
        /\ status[o] = "CANCELED" /\ o \notin MarketOrders =>
              \E i \in 1 .. Len(stream) : IsCancel(i, o)

\* Only what happened is announced, and a canceled order is never filled.
EventsOK ==
    \A i \in 1 .. Len(stream), o \in Orders :
        /\ IsCreate(i, o) => status[o] # "NONE"
        /\ IsCancel(i, o) => status[o] = "CANCELED" /\ got[o] < QuantityOf[o]

\* A trade is on the stream once.
OnceOK ==
    \A i, j \in 1 .. Len(stream) :
        IsTrade(i) /\ IsTrade(j) /\ stream[i].trade = stream[j].trade => i = j

\* A trade that is not published yet waits in one place, in the partition of
\* its orders, and none of them has been announced as canceled.
UnsentOK ==
    \A p \in Partitions : \A k \in 1 .. Len(unsent[p]) :
        /\ unsent[p][k] \in DOMAIN trades
        /\ PartitionOfOrder(trades[unsent[p][k]].taker) = p
        /\ \A q \in Partitions : \A l \in 1 .. Len(unsent[q]) :
              unsent[p][k] = unsent[q][l] => p = q /\ k = l
        /\ \A i \in 1 .. Len(stream) :
              /\ IsTrade(i) => stream[i].trade # unsent[p][k]
              /\ \A o \in Orders : IsCancel(i, o) => ~Involves(trades[unsent[p][k]], o)

\* Every trade is published or waits for it.
PublishedOK ==
    \A id \in DOMAIN trades :
        \/ \E i \in 1 .. Len(stream) : IsTrade(i) /\ stream[i].trade = id
        \/ \E p \in Partitions : \E k \in 1 .. Len(unsent[p]) : unsent[p][k] = id

\* A trade comes after the creation of its orders and before their cancellation.
OrderingOK ==
    \A j \in 1 .. Len(stream) : IsTrade(j) =>
        /\ stream[j].trade \in DOMAIN trades
        /\ \A o \in Orders : Involves(trades[stream[j].trade], o) =>
              /\ \E i \in 1 .. j - 1 : IsCreate(i, o)
              /\ \A i \in 1 .. j - 1 : ~IsCancel(i, o)

\* Fills in the engine are the sums of its trades.
GotOK == \A o \in Orders : got[o] = Filled(trades, DOMAIN trades, o)

\* What always holds of the engine and its stream.
EngineInv ==
    /\ EngineTypes
    /\ TradesOK /\ TakingOK /\ StatusOK
    /\ AnnouncedOK /\ EventsOK /\ OnceOK
    /\ UnsentOK /\ PublishedOK /\ OrderingOK
    /\ GotOK

\* The engine starts with nothing.
LEMMA EngineInit == Init => EngineInv
<1> SUFFICES ASSUME Init PROVE EngineInv
    OBVIOUS
<1>1. /\ trades = << >> /\ stream = << >> /\ Len(stream) = 0 /\ DOMAIN trades = {}
      /\ \A p \in Partitions : unsent[p] = << >> /\ Len(unsent[p]) = 0
    BY DEF Init
<1>2. EngineTypes
    BY LimitsAssumption DEF Init, EngineTypes, Statuses
<1>3. TradesOK /\ PublishedOK
    BY <1>1 DEF TradesOK, PublishedOK
<1>4. AnnouncedOK /\ EventsOK /\ OnceOK /\ OrderingOK /\ UnsentOK /\ TakingOK /\ StatusOK
    BY <1>1, OrdersAssumption
    DEF Init, AnnouncedOK, EventsOK, OnceOK, OrderingOK, UnsentOK, TakingOK, StatusOK
<1>6. GotOK
    <2>1. \A o \in Orders : got[o] = 0
        BY DEF Init
    <2> QED
        BY <1>1, SumNone, <2>1, Zenon DEF GotOK
<1> QED
    BY <1>2, <1>3, <1>4, <1>6 DEF EngineInv

\* The trades of the engine.
LEMMA TradesAre ==
    ASSUME EngineTypes
    PROVE  /\ Len(trades) \in Nat /\ DOMAIN trades = 1 .. Len(trades)
           /\ \A id \in DOMAIN trades :
                 trades[id] \in Trade /\ trades[id].taker \in Orders /\ trades[id].maker \in Orders
<1>1. Len(trades) \in Nat /\ DOMAIN trades = 1 .. Len(trades)
      /\ \A id \in DOMAIN trades : trades[id] \in Trade
    BY DEF EngineTypes
<1> QED
    BY <1>1, TradeFacts

\* An event at the end of the stream.
LEMMA StreamGrows ==
    ASSUME EngineTypes, NEW ev \in OrderEvent \cup TradeEvent, stream' = Append(stream, ev)
    PROVE  /\ stream' \in Seq(OrderEvent \cup TradeEvent)
           /\ Len(stream) \in Nat /\ Len(stream') = Len(stream) + 1
           /\ \A i \in 1 .. Len(stream) : stream'[i] = stream[i]
           /\ stream'[Len(stream) + 1] = ev
           /\ \A i \in 1 .. Len(stream') : i \in 1 .. Len(stream) \/ i = Len(stream) + 1
           /\ 1 .. Len(stream) \subseteq 1 .. Len(stream')
           /\ Len(stream) + 1 \in 1 .. Len(stream')
    BY DEF EngineTypes

\* Facts about an event at the end of the stream, in the terms above.
LEMMA EventsGrow ==
    ASSUME EngineTypes, NEW ev \in OrderEvent \cup TradeEvent, stream' = Append(stream, ev)
    PROVE  /\ \A i \in 1 .. Len(stream) :
                 /\ IsTrade(i)' <=> IsTrade(i)
                 /\ \A o : (IsCreate(i, o)' <=> IsCreate(i, o)) /\ (IsCancel(i, o)' <=> IsCancel(i, o))
           /\ \A i : i = Len(stream) + 1 =>
                 /\ IsTrade(i)' <=> ev.type = "TRADE_EXECUTED"
                 /\ \A o : /\ IsCreate(i, o)' <=> ev.type = "ORDER_CREATED" /\ ev.order = o
                           /\ IsCancel(i, o)' <=> ev.type = "ORDER_CANCELED" /\ ev.order = o
    BY StreamGrows DEF IsTrade, IsCreate, IsCancel

\* The sums of the trades do not depend on anything but the trades.
LEMMA SumsUnchanged ==
    ASSUME EngineInv, UNCHANGED <<trades, got>>
    PROVE  GotOK'
    BY DEF EngineInv, GotOK

\* An order is accepted and announced.
LEMMA AcceptOrderOK ==
    ASSUME EngineInv, NEW x \in Orders, AcceptOrder(x)
    PROVE  EngineInv'
<1> DEFINE ev == [type |-> "ORDER_CREATED", order |-> x]
           n == Len(stream)
<1>1. /\ status[x] = "NONE" /\ status' = [status EXCEPT ![x] = "PENDING"]
      /\ taking' = [taking EXCEPT ![PartitionOfOrder(x)] = x]
      /\ stream' = Append(stream, ev)
      /\ UNCHANGED <<got, trades, unsent>>
    BY DEF AcceptOrder
<1>2. ev \in OrderEvent /\ ev.type = "ORDER_CREATED" /\ ev.order = x
    BY DEF OrderEvent
<1> HIDE DEF ev
<1>3. /\ stream' \in Seq(OrderEvent \cup TradeEvent)
      /\ n \in Nat /\ Len(stream') = n + 1
      /\ \A i \in 1 .. n : stream'[i] = stream[i]
      /\ \A i \in 1 .. Len(stream') : i \in 1 .. n \/ i = n + 1
      /\ 1 .. n \subseteq 1 .. Len(stream')
      /\ n + 1 \in 1 .. Len(stream')
    BY <1>1, <1>2, StreamGrows DEF EngineInv
<1>4. /\ \A i \in 1 .. n :
            /\ IsTrade(i)' <=> IsTrade(i)
            /\ \A o : (IsCreate(i, o)' <=> IsCreate(i, o)) /\ (IsCancel(i, o)' <=> IsCancel(i, o))
      /\ \A i : i = n + 1 => /\ ~IsTrade(i)'
                             /\ \A o : (IsCreate(i, o)' <=> o = x) /\ ~IsCancel(i, o)'
    BY <1>1, <1>2, EventsGrow DEF EngineInv
<1> HIDE DEF n
<1>5. /\ status' \in [Orders -> Statuses \cup {"NONE"}]
      /\ status'[x] = "PENDING" /\ \A o \in Orders : o # x => status'[o] = status[o]
      /\ \A o \in Orders : status[o] # "NONE" => status'[o] = status[o]
    BY <1>1 DEF EngineInv, EngineTypes, Statuses
<1>6. EngineTypes'
    BY <1>1, <1>3, <1>5 DEF EngineInv, EngineTypes
<1>7. TradesOK'
    <2>1. \A id \in DOMAIN trades : trades[id].taker \in Orders /\ trades[id].maker \in Orders
        BY TradesAre DEF EngineInv
    <2> QED
        BY <1>1, <1>5, <2>1 DEF EngineInv, TradesOK
<1>8. TakingOK'
    BY <1>1, <1>5 DEF EngineInv, EngineTypes, TakingOK, PartitionOfOrder
<1>9. StatusOK'
    BY <1>1, <1>5 DEF EngineInv, StatusOK, StatusOf
<1>10. AnnouncedOK'
    <2> SUFFICES ASSUME NEW o \in Orders
                 PROVE  /\ status'[o] # "NONE" => \E i \in 1 .. Len(stream') : IsCreate(i, o)'
                        /\ status'[o] = "CANCELED" /\ o \notin MarketOrders =>
                              \E i \in 1 .. Len(stream') : IsCancel(i, o)'
        BY DEF AnnouncedOK
    <2>1. CASE o = x
        BY <1>3, <1>4, <1>5, <2>1
    <2>2. CASE o # x
        BY <1>3, <1>4, <1>5, <2>2 DEF EngineInv, AnnouncedOK, n
    <2> QED
        BY <2>1, <2>2
<1>11. EventsOK'
    BY <1>1, <1>3, <1>4, <1>5 DEF EngineInv, EventsOK, n
<1>12. OnceOK'
    BY <1>3, <1>4 DEF EngineInv, OnceOK, n
<1>13. UnsentOK'
    BY <1>1, <1>3, <1>4 DEF EngineInv, UnsentOK, PartitionOfOrder, Involves, n
<1>14. PublishedOK'
    BY <1>1, <1>3, <1>4 DEF EngineInv, PublishedOK, n
<1>15. OrderingOK'
    <2> SUFFICES ASSUME NEW j \in 1 .. Len(stream'), IsTrade(j)'
                 PROVE  /\ stream'[j].trade \in DOMAIN trades'
                        /\ \A o \in Orders : Involves(trades'[stream'[j].trade], o) =>
                              /\ \E i \in 1 .. j - 1 : IsCreate(i, o)'
                              /\ \A i \in 1 .. j - 1 : ~IsCancel(i, o)'
        BY DEF OrderingOK, Involves
    <2>1. j \in 1 .. n /\ IsTrade(j)
        BY <1>3, <1>4
    <2>2. \A i \in 1 .. j - 1 : i \in 1 .. n
        BY <1>3, <2>1
    <2> QED
        BY <1>1, <1>3, <1>4, <2>1, <2>2 DEF EngineInv, OrderingOK, n
<1>16. GotOK'
    BY <1>1, SumsUnchanged
<1> QED
    BY <1>6, <1>7, <1>8, <1>9, <1>10, <1>11, <1>12, <1>13, <1>14, <1>15, <1>16 DEF EngineInv

\* An order is canceled, and that is announced.
LEMMA CancelOrderOK ==
    ASSUME EngineInv, NEW x \in Orders, CancelOrder(x)
    PROVE  EngineInv'
<1> DEFINE ev == [type |-> "ORDER_CANCELED", order |-> x]
           n == Len(stream)
<1>1. /\ status[x] \in Open /\ status' = [status EXCEPT ![x] = "CANCELED"]
      /\ taking[PartitionOfOrder(x)] = NoOrder /\ unsent[PartitionOfOrder(x)] = << >>
      /\ stream' = Append(stream, ev)
      /\ UNCHANGED <<got, trades, taking, unsent>>
    BY DEF CancelOrder, AtRest
<1>2. ev \in OrderEvent /\ ev.type = "ORDER_CANCELED" /\ ev.order = x
    BY DEF OrderEvent
<1> HIDE DEF ev
<1>3. /\ stream' \in Seq(OrderEvent \cup TradeEvent)
      /\ n \in Nat /\ Len(stream') = n + 1
      /\ \A i \in 1 .. n : stream'[i] = stream[i]
      /\ \A i \in 1 .. Len(stream') : i \in 1 .. n \/ i = n + 1
      /\ 1 .. n \subseteq 1 .. Len(stream')
      /\ n + 1 \in 1 .. Len(stream')
    BY <1>1, <1>2, StreamGrows DEF EngineInv
<1>4. /\ \A i \in 1 .. n :
            /\ IsTrade(i)' <=> IsTrade(i)
            /\ \A o : (IsCreate(i, o)' <=> IsCreate(i, o)) /\ (IsCancel(i, o)' <=> IsCancel(i, o))
      /\ \A i : i = n + 1 => /\ ~IsTrade(i)'
                             /\ \A o : (IsCancel(i, o)' <=> o = x) /\ ~IsCreate(i, o)'
    BY <1>1, <1>2, EventsGrow DEF EngineInv
<1> HIDE DEF n
<1>5. /\ status' \in [Orders -> Statuses \cup {"NONE"}]
      /\ status'[x] = "CANCELED" /\ \A o \in Orders : o # x => status'[o] = status[o]
      /\ status[x] # "NONE"
    BY <1>1 DEF EngineInv, EngineTypes, Statuses, Open
<1>6. EngineTypes'
    BY <1>1, <1>3, <1>5 DEF EngineInv, EngineTypes
<1>7. TradesOK'
    <2>1. \A id \in DOMAIN trades : trades[id].taker \in Orders /\ trades[id].maker \in Orders
        BY TradesAre DEF EngineInv
    <2> QED
        BY <1>1, <1>5, <2>1 DEF EngineInv, TradesOK
<1>8. TakingOK'
    <2>1. \A p \in Partitions : taking[p] # NoOrder => taking[p] \in Orders /\ taking[p] # x
        BY <1>1 DEF EngineInv, EngineTypes, TakingOK
    <2> QED
        BY <1>1, <1>5, <2>1 DEF EngineInv, TakingOK, PartitionOfOrder
<1>9. StatusOK'
    BY <1>1, <1>5 DEF EngineInv, StatusOK, StatusOf
<1>10. AnnouncedOK'
    <2> SUFFICES ASSUME NEW o \in Orders
                 PROVE  /\ status'[o] # "NONE" => \E i \in 1 .. Len(stream') : IsCreate(i, o)'
                        /\ status'[o] = "CANCELED" /\ o \notin MarketOrders =>
                              \E i \in 1 .. Len(stream') : IsCancel(i, o)'
        BY DEF AnnouncedOK
    <2>1. CASE o = x
        BY <1>3, <1>4, <1>5, <2>1 DEF EngineInv, AnnouncedOK, n
    <2>2. CASE o # x
        BY <1>3, <1>4, <1>5, <2>2 DEF EngineInv, AnnouncedOK, n
    <2> QED
        BY <2>1, <2>2
<1>11. EventsOK'
    <2>1. got[x] < QuantityOf[x]
        <3>1. status[x] = StatusOf(x, got[x]) /\ got[x] \in Nat /\ QuantityOf[x] \in Nat \ {0}
            BY <1>1, OrdersAssumption DEF EngineInv, EngineTypes, StatusOK, Open
        <3> QED
            BY <1>1, <3>1 DEF StatusOf, Open
    <2> SUFFICES ASSUME NEW i \in 1 .. Len(stream'), NEW o \in Orders
                 PROVE  /\ IsCreate(i, o)' => status'[o] # "NONE"
                        /\ IsCancel(i, o)' => status'[o] = "CANCELED" /\ got'[o] < QuantityOf[o]
        BY DEF EventsOK
    <2>2. CASE i \in 1 .. n
        BY <1>1, <1>4, <1>5, <2>2, <2>1 DEF EngineInv, EventsOK, n
    <2>3. CASE i = n + 1
        BY <1>1, <1>4, <1>5, <2>1, <2>3
    <2> QED
        BY <1>3, <2>2, <2>3
<1>12. OnceOK'
    BY <1>3, <1>4 DEF EngineInv, OnceOK, n
<1>13. UnsentOK'
    <2>1. ASSUME NEW p \in Partitions, NEW k \in 1 .. Len(unsent[p])
          PROVE  ~Involves(trades[unsent[p][k]], x)
        <3> DEFINE t == trades[unsent[p][k]]
        <3>1. unsent[p][k] \in DOMAIN trades /\ PartitionOfOrder(t.taker) = p
            BY <2>1 DEF EngineInv, UnsentOK
        <3>2. EventOf[t.taker] = EventOf[t.maker]
            BY <3>1 DEF EngineInv, TradesOK
        <3>3. Involves(t, x) => PartitionOfOrder(x) = p
            BY <3>1, <3>2 DEF Involves, PartitionOfOrder
        <3>4. p # PartitionOfOrder(x)
            BY <1>1, <2>1
        <3> QED
            BY <3>3, <3>4
    <2> SUFFICES ASSUME NEW p \in Partitions, NEW k \in 1 .. Len(unsent[p])
                 PROVE  /\ unsent[p][k] \in DOMAIN trades
                        /\ PartitionOfOrder(trades[unsent[p][k]].taker) = p
                        /\ \A q \in Partitions : \A l \in 1 .. Len(unsent[q]) :
                              unsent[p][k] = unsent[q][l] => p = q /\ k = l
                        /\ \A i \in 1 .. Len(stream') :
                              /\ IsTrade(i)' => stream'[i].trade # unsent[p][k]
                              /\ \A o \in Orders :
                                    IsCancel(i, o)' => ~Involves(trades[unsent[p][k]], o)
        BY <1>1 DEF UnsentOK, PartitionOfOrder, Involves
    <2> QED
        BY <1>3, <1>4, <2>1 DEF EngineInv, UnsentOK, n
<1>14. PublishedOK'
    BY <1>1, <1>3, <1>4 DEF EngineInv, PublishedOK, n
<1>15. OrderingOK'
    <2> SUFFICES ASSUME NEW j \in 1 .. Len(stream'), IsTrade(j)'
                 PROVE  /\ stream'[j].trade \in DOMAIN trades'
                        /\ \A o \in Orders : Involves(trades'[stream'[j].trade], o) =>
                              /\ \E i \in 1 .. j - 1 : IsCreate(i, o)'
                              /\ \A i \in 1 .. j - 1 : ~IsCancel(i, o)'
        BY DEF OrderingOK, Involves
    <2>1. j \in 1 .. n /\ IsTrade(j)
        BY <1>3, <1>4
    <2>2. \A i \in 1 .. j - 1 : i \in 1 .. n
        BY <1>3, <2>1
    <2> QED
        BY <1>1, <1>3, <1>4, <2>1, <2>2 DEF EngineInv, OrderingOK, n
<1>16. GotOK'
    BY <1>1, SumsUnchanged
<1> QED
    BY <1>6, <1>7, <1>8, <1>9, <1>10, <1>11, <1>12, <1>13, <1>14, <1>15, <1>16 DEF EngineInv

\* Matching ends. What is left of a market order is canceled without a word.
LEMMA FinishMatchOK ==
    ASSUME EngineInv, NEW p \in Partitions, FinishMatch(p)
    PROVE  EngineInv'
<1> DEFINE x == taking[p]
<1>1. /\ x # NoOrder /\ taking' = [taking EXCEPT ![p] = NoOrder]
      /\ \/ status' = status
         \/ x \in MarketOrders /\ status' = [status EXCEPT ![x] = "CANCELED"]
      /\ UNCHANGED <<got, trades, unsent, stream>>
    BY DEF FinishMatch
<1>2. x \in Orders
    BY <1>1 DEF EngineInv, EngineTypes
<1>3. /\ status' \in [Orders -> Statuses \cup {"NONE"}]
      /\ \A o \in Orders : o # x => status'[o] = status[o]
      /\ status[x] \notin {"NONE", "CANCELED"}
      /\ status'[x] = status[x] \/ (status'[x] = "CANCELED" /\ x \in MarketOrders)
    BY <1>1, <1>2 DEF EngineInv, EngineTypes, Statuses, TakingOK
<1>4. EngineTypes'
    BY <1>1, <1>3 DEF EngineInv, EngineTypes
<1>5. TradesOK'
    <2>1. \A id \in DOMAIN trades : trades[id].taker \in Orders /\ trades[id].maker \in Orders
        BY TradesAre DEF EngineInv
    <2> QED
        BY <1>1, <1>3, <2>1 DEF EngineInv, TradesOK
<1>6. TakingOK'
    <2>1. \A q \in Partitions : taking'[q] # NoOrder =>
              q # p /\ taking'[q] = taking[q] /\ taking[q] \in Orders
        BY <1>1 DEF EngineInv, EngineTypes
    <2>2. PartitionOfOrder(x) = p
        BY <1>1 DEF EngineInv, TakingOK
    <2> QED
        BY <1>1, <1>3, <2>1, <2>2 DEF EngineInv, TakingOK, PartitionOfOrder
<1>7. StatusOK'
    BY <1>1, <1>3 DEF EngineInv, StatusOK, StatusOf
<1>8. UNCHANGED <<stream, trades, unsent>> /\ got' = got
    BY <1>1
<1>9. /\ \A i, o : (IsCreate(i, o)' <=> IsCreate(i, o)) /\ (IsCancel(i, o)' <=> IsCancel(i, o))
      /\ \A i : IsTrade(i)' <=> IsTrade(i)
    BY <1>8 DEF IsCreate, IsCancel, IsTrade
<1> HIDE DEF x
<1>10. AnnouncedOK'
    BY <1>3, <1>8, <1>9 DEF EngineInv, AnnouncedOK
<1>11. EventsOK'
    BY <1>3, <1>8, <1>9 DEF EngineInv, EventsOK
<1>12. OnceOK' /\ PublishedOK'
    BY <1>8, <1>9 DEF EngineInv, OnceOK, PublishedOK
<1>13. UnsentOK' /\ OrderingOK'
    BY <1>8 DEF EngineInv, UnsentOK, OrderingOK, PartitionOfOrder, Involves, IsTrade, IsCreate, IsCancel
<1>14. GotOK'
    BY <1>1, SumsUnchanged
<1> QED
    BY <1>4, <1>5, <1>6, <1>7, <1>10, <1>11, <1>12, <1>13, <1>14 DEF EngineInv

\* A trade is published behind whatever the stream has of its orders.
LEMMA PublishTradeOK ==
    ASSUME EngineInv, NEW p \in Partitions, PublishTrade(p)
    PROVE  EngineInv'
<1> DEFINE h == unsent[p][1]
           ev == [type |-> "TRADE_EXECUTED", trade |-> h]
           n == Len(stream)
<1>1. /\ unsent[p] # << >> /\ unsent' = [unsent EXCEPT ![p] = Tail(@)]
      /\ stream' = Append(stream, [type |-> "TRADE_EXECUTED", trade |-> Head(unsent[p])])
      /\ UNCHANGED <<status, got, trades, taking>>
    BY DEF PublishTrade
<1>2. unsent[p] \in Seq(Nat) /\ unsent \in [Partitions -> Seq(Nat)]
    BY DEF EngineInv, EngineTypes
<1>3. /\ Len(unsent[p]) \in Nat /\ 1 \in 1 .. Len(unsent[p]) /\ Head(unsent[p]) = h
      /\ unsent'[p] \in Seq(Nat) /\ Len(unsent'[p]) = Len(unsent[p]) - 1
      /\ \A k \in 1 .. Len(unsent'[p]) :
            unsent'[p][k] = unsent[p][k + 1] /\ k + 1 \in 1 .. Len(unsent[p]) /\ k + 1 # 1
      /\ \A k \in 1 .. Len(unsent[p]) : k # 1 =>
            k - 1 \in 1 .. Len(unsent'[p]) /\ unsent'[p][k - 1] = unsent[p][k]
      /\ \A q \in Partitions : q # p => unsent'[q] = unsent[q]
    BY <1>1, <1>2
<1>4. stream' = Append(stream, ev)
    BY <1>1, <1>3
<1>5. h \in DOMAIN trades /\ \A i \in 1 .. n : IsTrade(i) => stream[i].trade # h
    BY <1>3 DEF EngineInv, UnsentOK
<1>6. ev \in TradeEvent /\ ev.type = "TRADE_EXECUTED" /\ ev.trade = h
    BY <1>5, TradesAre DEF TradeEvent, EngineInv
<1> HIDE DEF ev
<1>7. /\ stream' \in Seq(OrderEvent \cup TradeEvent)
      /\ n \in Nat /\ Len(stream') = n + 1
      /\ \A i \in 1 .. n : stream'[i] = stream[i]
      /\ stream'[n + 1].trade = h
      /\ \A i \in 1 .. Len(stream') : i \in 1 .. n \/ i = n + 1
      /\ 1 .. n \subseteq 1 .. Len(stream')
      /\ n + 1 \in 1 .. Len(stream')
    BY <1>4, <1>6, StreamGrows DEF EngineInv
<1>8. /\ \A i \in 1 .. n :
            /\ IsTrade(i)' <=> IsTrade(i)
            /\ \A o : (IsCreate(i, o)' <=> IsCreate(i, o)) /\ (IsCancel(i, o)' <=> IsCancel(i, o))
      /\ \A i : i = n + 1 => /\ IsTrade(i)'
                             /\ \A o : ~IsCancel(i, o)' /\ ~IsCreate(i, o)'
    BY <1>4, <1>6, EventsGrow DEF EngineInv
<1>9. EngineTypes'
    <2>1. unsent' \in [Partitions -> Seq(Nat)]
        BY <1>1, <1>2, <1>3
    <2> QED
        BY <1>1, <1>7, <2>1 DEF EngineInv, EngineTypes
<1> HIDE DEF n, h
<1>10. TradesOK' /\ TakingOK' /\ StatusOK'
    BY <1>1 DEF EngineInv, TradesOK, TakingOK, StatusOK, PartitionOfOrder, StatusOf
<1>11. AnnouncedOK'
    BY <1>1, <1>7, <1>8 DEF EngineInv, AnnouncedOK, n
<1>12. EventsOK'
    BY <1>1, <1>7, <1>8 DEF EngineInv, EventsOK, n
<1>13. OnceOK'
    BY <1>5, <1>7, <1>8 DEF EngineInv, OnceOK, n
<1>14. UnsentOK'
    <2>1. ASSUME NEW q \in Partitions, NEW k \in 1 .. Len(unsent'[q])
          PROVE  \E l \in 1 .. Len(unsent[q]) :
                    /\ unsent'[q][k] = unsent[q][l] /\ l = (IF q = p THEN k + 1 ELSE k)
                    /\ unsent[q][l] # h
        <3>1. CASE q = p
            <4>1. k \in 1 .. Len(unsent'[p])
                BY <2>1, <3>1
            <4>2. unsent'[p][k] = unsent[p][k + 1] /\ k + 1 \in 1 .. Len(unsent[p]) /\ k + 1 # 1
                BY <1>3, <4>1
            <4>3. unsent[p][k + 1] # unsent[p][1]
                BY <1>3, <4>2 DEF EngineInv, UnsentOK
            <4> QED
                BY <3>1, <4>2, <4>3 DEF h
        <3>2. CASE q # p
            BY <1>3, <3>2, <2>1 DEF EngineInv, UnsentOK, h
        <3> QED
            BY <3>1, <3>2
    <2>0. trades' = trades
        BY <1>1
    <2> SUFFICES ASSUME NEW q \in Partitions, NEW k \in 1 .. Len(unsent'[q])
                 PROVE  /\ unsent'[q][k] \in DOMAIN trades
                        /\ PartitionOfOrder(trades[unsent'[q][k]].taker) = q
                        /\ \A r \in Partitions : \A m \in 1 .. Len(unsent'[r]) :
                              unsent'[q][k] = unsent'[r][m] => q = r /\ k = m
                        /\ \A i \in 1 .. Len(stream') :
                              /\ IsTrade(i)' => stream'[i].trade # unsent'[q][k]
                              /\ \A o \in Orders :
                                    IsCancel(i, o)' => ~Involves(trades[unsent'[q][k]], o)
        BY <2>0 DEF UnsentOK, PartitionOfOrder, Involves
    <2>2. PICK l \in 1 .. Len(unsent[q]) : /\ unsent'[q][k] = unsent[q][l]
                                           /\ l = (IF q = p THEN k + 1 ELSE k)
                                           /\ unsent[q][l] # h
        BY <2>1
    <2>3. ASSUME NEW r \in Partitions, NEW m \in 1 .. Len(unsent'[r]), unsent'[q][k] = unsent'[r][m]
          PROVE  q = r /\ k = m
        <3>1. PICK s \in 1 .. Len(unsent[r]) : /\ unsent'[r][m] = unsent[r][s]
                                               /\ s = (IF r = p THEN m + 1 ELSE m)
            BY <2>1
        <3>2. q = r /\ l = s
            BY <2>2, <2>3, <3>1 DEF EngineInv, UnsentOK
        <3>3. k \in Int /\ m \in Int
            OBVIOUS
        <3> QED
            BY <2>2, <3>1, <3>2, <3>3
    <2>4. /\ unsent[q][l] \in DOMAIN trades
          /\ PartitionOfOrder(trades[unsent[q][l]].taker) = q
          /\ \A i \in 1 .. n :
                /\ IsTrade(i) => stream[i].trade # unsent[q][l]
                /\ \A o \in Orders : IsCancel(i, o) => ~Involves(trades[unsent[q][l]], o)
        BY DEF EngineInv, UnsentOK, n
    <2> QED
        BY <1>7, <1>8, <2>2, <2>3, <2>4
<1>15. PublishedOK'
    <2> SUFFICES ASSUME NEW id \in DOMAIN trades
                 PROVE  \/ \E i \in 1 .. Len(stream') : IsTrade(i)' /\ stream'[i].trade = id
                        \/ \E q \in Partitions : \E k \in 1 .. Len(unsent'[q]) : unsent'[q][k] = id
        BY <1>1 DEF PublishedOK
    <2>1. CASE \E i \in 1 .. n : IsTrade(i) /\ stream[i].trade = id
        BY <1>7, <1>8, <2>1
    <2>2. CASE id = h
        BY <1>7, <1>8, <2>2
    <2>3. ASSUME NEW q \in Partitions, NEW k \in 1 .. Len(unsent[q]), unsent[q][k] = id, id # h
          PROVE  \E l \in 1 .. Len(unsent'[q]) : unsent'[q][l] = id
        <3>1. CASE q = p
            BY <1>3, <2>3, <3>1 DEF h
        <3>2. CASE q # p
            BY <1>3, <2>3, <3>2
        <3> QED
            BY <3>1, <3>2
    <2> QED
        BY <2>1, <2>2, <2>3 DEF EngineInv, PublishedOK, n
<1>16. OrderingOK'
    <2> SUFFICES ASSUME NEW j \in 1 .. Len(stream'), IsTrade(j)'
                 PROVE  /\ stream'[j].trade \in DOMAIN trades
                        /\ \A o \in Orders : Involves(trades[stream'[j].trade], o) =>
                              /\ \E i \in 1 .. j - 1 : IsCreate(i, o)'
                              /\ \A i \in 1 .. j - 1 : ~IsCancel(i, o)'
        BY <1>1 DEF OrderingOK, Involves
    <2>1. CASE j \in 1 .. n
        <3>1. \A i \in 1 .. j - 1 : i \in 1 .. n
            BY <1>7, <2>1
        <3>2. IsTrade(j) /\ stream'[j] = stream[j]
            BY <1>7, <1>8, <2>1
        <3> QED
            BY <1>8, <2>1, <3>1, <3>2 DEF EngineInv, OrderingOK, n
    <2>2. CASE j = n + 1
        <3>1. /\ \A i \in 1 .. j - 1 : i \in 1 .. n
              /\ \A i \in 1 .. n : i \in 1 .. j - 1
            BY <1>7, <2>2
        <3>2. stream'[j].trade = h
            BY <1>7, <2>2
        <3>3. ASSUME NEW o \in Orders, Involves(trades[h], o)
              PROVE  (\E i \in 1 .. n : IsCreate(i, o)) /\ \A i \in 1 .. n : ~IsCancel(i, o)
            <4>1. status[o] # "NONE"
                BY <1>5, <3>3 DEF EngineInv, TradesOK, Involves
            <4>2. \A i \in 1 .. n : ~IsCancel(i, o)
                BY <1>3, <3>3 DEF EngineInv, UnsentOK, h, n
            <4> QED
                BY <4>1, <4>2 DEF EngineInv, AnnouncedOK, n
        <3> QED
            BY <1>5, <1>8, <3>1, <3>2, <3>3
    <2> QED
        BY <1>7, <2>1, <2>2
<1>17. GotOK'
    BY <1>1, SumsUnchanged
<1> QED
    BY <1>9, <1>10, <1>11, <1>12, <1>13, <1>14, <1>15, <1>16, <1>17 DEF EngineInv

\* Two orders trade.
LEMMA ExecutePairOK ==
    ASSUME EngineInv, NEW p \in Partitions, NEW m \in Orders, ExecutePair(p, m)
    PROVE  EngineInv'
<1> DEFINE o == taking[p]
           lo == QuantityOf[o] - got[o]
           lm == QuantityOf[m] - got[m]
           qu == IF lo < lm THEN lo ELSE lm
           t == [taker |-> o, maker |-> m, quantity |-> qu]
           n == Len(trades) + 1
<1>1. /\ o # NoOrder /\ m # o /\ status[m] \in Open /\ lo > 0
      /\ EventOf[m] = EventOf[o] /\ SideOf[m] # SideOf[o] /\ UserOf[m] # UserOf[o]
      /\ trades' = Append(trades, t)
      /\ got' = [got EXCEPT ![o] = @ + qu, ![m] = @ + qu]
      /\ status' = [status EXCEPT ![o] = IF lo = qu THEN "FILLED" ELSE "PARTIAL",
                                  ![m] = IF lm = qu THEN "FILLED" ELSE "PARTIAL"]
      /\ unsent' = [unsent EXCEPT ![p] = Append(@, n)]
      /\ UNCHANGED <<taking, stream>>
    BY DEF ExecutePair
<1>2. /\ o \in Orders /\ PartitionOfOrder(o) = p /\ PartitionOfOrder(m) = p
      /\ status[o] \notin {"NONE", "CANCELED"} /\ status[m] \notin {"NONE", "CANCELED"}
    BY <1>1 DEF EngineInv, EngineTypes, TakingOK, Open, PartitionOfOrder
<1>3. /\ got \in [Orders -> Nat] /\ got[o] \in Nat /\ got[m] \in Nat
      /\ QuantityOf[o] \in Nat \ {0} /\ QuantityOf[m] \in Nat \ {0}
      /\ got[o] <= QuantityOf[o] /\ got[m] <= QuantityOf[m]
      /\ status[o] = StatusOf(o, got[o]) /\ status[m] = StatusOf(m, got[m])
    BY <1>2, OrdersAssumption DEF EngineInv, EngineTypes, StatusOK
<1>4. lm > 0 /\ lo \in Nat /\ lm \in Nat /\ qu \in Nat /\ qu > 0 /\ qu <= lo /\ qu <= lm
    <2>1. lm > 0
        BY <1>1, <1>3 DEF StatusOf, Open
    <2> QED
        BY <1>1, <1>3, <2>1
<1>5. /\ got'[o] = got[o] + qu /\ got'[m] = got[m] + qu
      /\ \A x \in Orders : x # o /\ x # m => got'[x] = got[x]
      /\ got' \in [Orders -> Nat]
    <2>1. got' = [got EXCEPT ![o] = @ + qu, ![m] = @ + qu] /\ qu \in Nat /\ m # o
        BY <1>1, <1>4
    <2> HIDE DEF qu, o
    <2> QED
        BY <1>2, <1>3, <2>1
<1>6. /\ status' \in [Orders -> Statuses \cup {"NONE"}]
      /\ status'[o] = (IF lo = qu THEN "FILLED" ELSE "PARTIAL")
      /\ status'[m] = (IF lm = qu THEN "FILLED" ELSE "PARTIAL")
      /\ \A x \in Orders : x # o /\ x # m => status'[x] = status[x]
    BY <1>1, <1>2 DEF EngineInv, EngineTypes, Statuses
<1>7. /\ t \in Trade /\ t.taker = o /\ t.maker = m /\ t.quantity = qu
      /\ Buyer(t) # Seller(t) /\ Buyer(t) \in Users /\ Seller(t) \in Users /\ Cost(t) \in Nat
    <2>1. t \in Trade
        BY <1>2, <1>4 DEF Trade
    <2>2. Buyer(t) # Seller(t)
        BY <1>1 DEF Buyer, Seller
    <2> QED
        BY <2>1, <2>2, TradeFacts
<1>8. \A x \in Orders : status[x] # "NONE" => status'[x] # "NONE"
    BY <1>6
<1>9. StatusOK'
    <2> SUFFICES ASSUME NEW x \in Orders
                 PROVE  /\ got'[x] <= QuantityOf[x]
                        /\ status'[x] \notin {"NONE", "CANCELED"} => status'[x] = StatusOf(x, got'[x])
                        /\ status'[x] = "NONE" => got'[x] = 0
        BY DEF StatusOK, StatusOf
    <2>1. lo = QuantityOf[o] - got[o] /\ lm = QuantityOf[m] - got[m]
        OBVIOUS
    <2> HIDE DEF lo, lm, qu, o
    <2>2. CASE x = o
        BY <1>3, <1>4, <1>5, <1>6, <2>1, <2>2 DEF StatusOf
    <2>4. CASE x = m
        BY <1>3, <1>4, <1>5, <1>6, <2>1, <2>4 DEF StatusOf
    <2>3. CASE x # o /\ x # m
        BY <1>5, <1>6, <2>3 DEF EngineInv, StatusOK
    <2> QED
        BY <2>2, <2>3, <2>4
<1> HIDE DEF t, qu, lo, lm
<1>10. /\ Len(trades) \in Nat /\ DOMAIN trades = 1 .. Len(trades) /\ trades \in Seq(Trade)
       /\ trades' \in Seq(Trade) /\ DOMAIN trades' = DOMAIN trades \cup {n}
       /\ n \notin DOMAIN trades /\ trades'[n] = t /\ n \in Nat
       /\ \A id \in DOMAIN trades : /\ trades'[id] = trades[id]
                                    /\ trades[id].taker \in Orders /\ trades[id].maker \in Orders
    <2>1. trades \in Seq(Trade) /\ Len(trades) \in Nat /\ DOMAIN trades = 1 .. Len(trades)
        BY DEF EngineInv, EngineTypes
    <2>2. /\ trades' \in Seq(Trade) /\ DOMAIN trades' = DOMAIN trades \cup {n}
          /\ n \notin DOMAIN trades /\ trades'[n] = t /\ n \in Nat
          /\ \A id \in DOMAIN trades : trades'[id] = trades[id]
        BY <1>1, <1>7, <2>1
    <2> QED
        BY <2>1, <2>2, TradesAre DEF EngineInv
<1> HIDE DEF n
<1>11. TradesOK'
    BY <1>1, <1>2, <1>6, <1>7, <1>8, <1>10 DEF EngineInv, TradesOK
<1>12. TakingOK'
    BY <1>1, <1>6 DEF EngineInv, EngineTypes, TakingOK, PartitionOfOrder
<1>13. /\ \A i, x : (IsCreate(i, x)' <=> IsCreate(i, x)) /\ (IsCancel(i, x)' <=> IsCancel(i, x))
       /\ \A i : IsTrade(i)' <=> IsTrade(i)
       /\ stream' = stream
    BY <1>1 DEF IsCreate, IsCancel, IsTrade
<1>14. AnnouncedOK'
    BY <1>2, <1>6, <1>13 DEF EngineInv, AnnouncedOK
<1>15. EventsOK'
    BY <1>2, <1>5, <1>6, <1>8, <1>13 DEF EngineInv, EventsOK
<1>16. OnceOK'
    BY <1>13 DEF EngineInv, OnceOK
<1>17. OrderingOK'
    BY <1>10, <1>13 DEF EngineInv, OrderingOK
<1> DEFINE U == unsent[p]
<1>18. /\ unsent \in [Partitions -> Seq(Nat)] /\ U \in Seq(Nat) /\ Len(U) \in Nat
       /\ unsent'[p] \in Seq(Nat) /\ Len(unsent'[p]) = Len(U) + 1
       /\ \A k \in 1 .. Len(U) : unsent'[p][k] = U[k] /\ k \in 1 .. Len(unsent'[p])
       /\ unsent'[p][Len(U) + 1] = n
       /\ \A k \in 1 .. Len(unsent'[p]) : k \in 1 .. Len(U) \/ k = Len(U) + 1
       /\ Len(U) + 1 \in 1 .. Len(unsent'[p])
       /\ \A q \in Partitions : q # p => unsent'[q] = unsent[q]
       /\ unsent' \in [Partitions -> Seq(Nat)]
    <2>1. unsent \in [Partitions -> Seq(Nat)] /\ U \in Seq(Nat) /\ n \in Nat
        BY <1>10 DEF EngineInv, EngineTypes
    <2> QED
        BY <1>1, <2>1
<1>19. EngineTypes'
    BY <1>1, <1>5, <1>6, <1>10, <1>18 DEF EngineInv, EngineTypes
<1>20. UnsentOK'
    <2>1. ASSUME NEW q \in Partitions, NEW k \in 1 .. Len(unsent'[q])
          PROVE  \/ /\ k \in 1 .. Len(unsent[q]) /\ unsent'[q][k] = unsent[q][k]
                    /\ unsent[q][k] \in DOMAIN trades
                 \/ q = p /\ k = Len(U) + 1 /\ unsent'[q][k] = n
        BY <1>18, <2>1 DEF EngineInv, UnsentOK
    <2> HIDE DEF U
    <2> SUFFICES ASSUME NEW q \in Partitions, NEW k \in 1 .. Len(unsent'[q])
                 PROVE  /\ unsent'[q][k] \in DOMAIN trades'
                        /\ PartitionOfOrder(trades'[unsent'[q][k]].taker) = q
                        /\ \A r \in Partitions : \A l \in 1 .. Len(unsent'[r]) :
                              unsent'[q][k] = unsent'[r][l] => q = r /\ k = l
                        /\ \A i \in 1 .. Len(stream) :
                              /\ IsTrade(i) => stream[i].trade # unsent'[q][k]
                              /\ \A x \in Orders :
                                    IsCancel(i, x) => ~Involves(trades'[unsent'[q][k]], x)
        BY <1>13 DEF UnsentOK, PartitionOfOrder, Involves
    <2>2. \A r \in Partitions : \A l \in 1 .. Len(unsent'[r]) :
              unsent'[q][k] = unsent'[r][l] => q = r /\ k = l
        <3> SUFFICES ASSUME NEW r \in Partitions, NEW l \in 1 .. Len(unsent'[r]),
                            unsent'[q][k] = unsent'[r][l]
                     PROVE  q = r /\ k = l
            OBVIOUS
        <3>1. \/ /\ k \in 1 .. Len(unsent[q]) /\ unsent'[q][k] = unsent[q][k]
                 /\ unsent[q][k] \in DOMAIN trades
              \/ q = p /\ k = Len(U) + 1 /\ unsent'[q][k] = n
            BY <2>1
        <3>2. \/ /\ l \in 1 .. Len(unsent[r]) /\ unsent'[r][l] = unsent[r][l]
                 /\ unsent[r][l] \in DOMAIN trades
              \/ r = p /\ l = Len(U) + 1 /\ unsent'[r][l] = n
            BY <2>1
        <3>3. CASE unsent'[q][k] = n
            BY <1>10, <3>1, <3>2, <3>3
        <3>4. CASE unsent'[q][k] # n
            BY <3>1, <3>2, <3>4 DEF EngineInv, UnsentOK
        <3> QED
            BY <3>3, <3>4
    <2>3. CASE /\ k \in 1 .. Len(unsent[q]) /\ unsent'[q][k] = unsent[q][k]
               /\ unsent[q][k] \in DOMAIN trades
        BY <1>10, <2>2, <2>3 DEF EngineInv, UnsentOK
    <2>4. CASE q = p /\ unsent'[q][k] = n
        <3>1. \A i \in 1 .. Len(stream) : IsTrade(i) => stream[i].trade # n
            BY <1>10 DEF EngineInv, OrderingOK
        <3>2. \A i \in 1 .. Len(stream), x \in Orders : IsCancel(i, x) => ~Involves(t, x)
            BY <1>2, <1>7 DEF EngineInv, EventsOK, Involves
        <3> QED
            BY <1>2, <1>7, <1>10, <2>2, <2>4, <3>1, <3>2
    <2> QED
        BY <2>1, <2>3, <2>4
<1>21. PublishedOK'
    <2> SUFFICES ASSUME NEW id \in DOMAIN trades'
                 PROVE  \/ \E i \in 1 .. Len(stream) : IsTrade(i) /\ stream[i].trade = id
                        \/ \E q \in Partitions : \E k \in 1 .. Len(unsent'[q]) : unsent'[q][k] = id
        BY <1>13 DEF PublishedOK
    <2>1. CASE id = n
        BY <1>18, <2>1
    <2>2. CASE id \in DOMAIN trades
        <3>1. \A q \in Partitions : \A k \in 1 .. Len(unsent[q]) :
                  k \in 1 .. Len(unsent'[q]) /\ unsent'[q][k] = unsent[q][k]
            BY <1>18
        <3> QED
            BY <2>2, <3>1 DEF EngineInv, PublishedOK
    <2> QED
        BY <1>10, <2>1, <2>2
<1>22. ASSUME NEW S \in SUBSET DOMAIN trades PROVE Keeps(trades, trades', S)
    BY <1>10 DEF Keeps
<1>23. Adds(trades', DOMAIN trades, DOMAIN trades', n, t)
    BY <1>7, <1>10 DEF Adds
<1>24. GotOK'
    <2> SUFFICES ASSUME NEW x \in Orders PROVE got'[x] = Filled(trades', DOMAIN trades', x)
        BY DEF GotOK, Filled, Fills, With, Involves
    <2>1. got[x] = Filled(trades, DOMAIN trades, x)
        BY DEF EngineInv, GotOK
    <2>2. Filled(trades', DOMAIN trades, x) = Filled(trades, DOMAIN trades, x)
        BY <1>22, SumsKept
    <2>3. Filled(trades', DOMAIN trades', x) = Filled(trades', DOMAIN trades, x) + Fill(t, x)
        BY <1>23, SumsAdd
    <2>4. got'[x] = got[x] + Fill(t, x)
        BY <1>1, <1>3, <1>5, <1>7 DEF Fill, Involves
    <2> QED
        BY <2>1, <2>2, <2>3, <2>4
<1> QED
    BY <1>9, <1>11, <1>12, <1>14, <1>15, <1>16, <1>17, <1>19, <1>20, <1>21, <1>24
    DEF EngineInv

\* Nobody but the engine touches its state and its stream.
LEMMA EngineElse ==
    ASSUME EngineInv, UNCHANGED <<engineVars, stream>>
    PROVE  EngineInv'
    BY DEF engineVars, EngineInv, EngineTypes, TradesOK, TakingOK, StatusOK, AnnouncedOK,
       EventsOK, OnceOK, UnsentOK, PublishedOK, OrderingOK, GotOK,
       IsTrade, IsCreate, IsCancel, PartitionOfOrder, Involves, StatusOf

\* What a worker does leaves the engine alone.
LEMMA WorkersOnly ==
    ASSUME NEW w \in Workers, Start(w) \/ WorkerStep(w) \/ WorkerFails(w)
    PROVE  UNCHANGED <<engineVars, stream>>
    BY DEF Start, WorkerStep, WorkerFails, Read, Handle, Ack, OrderCreated, OrderOrphaned, OrderCanceled,
       InsertTrade, TradeKnown, TradeOrphaned, FillTaker, Settle, Insufficient, Refuse, End

\* The engine's part of the inductive invariant.
LEMMA EngineNext == EngineInv /\ [Next]_vars => EngineInv'
<1> SUFFICES ASSUME EngineInv, [Next]_vars PROVE EngineInv'
    OBVIOUS
<1>1. CASE EngineStep
    BY <1>1, AcceptOrderOK, CancelOrderOK, ExecutePairOK, FinishMatchOK, PublishTradeOK
    DEF EngineStep
<1>2. CASE \E w \in Workers : Start(w) \/ WorkerStep(w) \/ WorkerFails(w)
    BY <1>2, WorkersOnly, EngineElse
<1>3. CASE \E e \in Events : DeleteEvent(e)
    BY <1>3, EngineElse DEF DeleteEvent
<1>4. CASE UNCHANGED vars
    BY <1>4, EngineElse DEF vars
<1> QED
    BY <1>1, <1>2, <1>3, <1>4 DEF Next

-----------------------------------------------------------------------------
(* Cash in the engine                                                      *)

\* What the ledger of the engine keeps.
CashTypes ==
    /\ available \in [Users -> Nat]
    /\ reserved \in [Users -> Nat]
    /\ locked \in [Orders -> Nat]
    /\ overspent \subseteq Orders

\* The orders of user u, and what L has frozen for them.
OrdersOf(u) == {o \in Orders : UserOf[o] = u}
Frozen(L, u) == SumFunctionOnSet(L, OrdersOf(u))

\* Among the orders of O there is a MARKET order of user u.
Beyond(O, u) == \E o \in O \cap MarketOrders : UserOf[o] = u

\* Nothing is frozen for an order that has not been accepted.
LockedOK == \A o \in Orders : status[o] = "NONE" => locked[o] = 0

\* What is left of an open limit BUY can be paid at its limit.
CoveredOK ==
    \A o \in Orders \ MarketOrders : SideOf[o] = "BUY" /\ status[o] \in Open =>
        (QuantityOf[o] - got[o]) * PriceOf[o] <= locked[o]

\* A user's reservation is what is frozen for the user's orders.
BackedOK == \A u \in Users : Overspender(u) \/ reserved[u] = Frozen(locked, u)

\* The engine has for every user what the trades have left, or more.
HeldOK ==
    \A u \in Users :
        /\ Worth(trades, DOMAIN trades, u) <= available[u] + reserved[u]
        /\ Overspender(u) \/ Worth(trades, DOMAIN trades, u) = available[u] + reserved[u]

\* A buyer could pay with what the trades before had left.
SolventOK ==
    \A n \in DOMAIN trades :
        \/ Overspender(Buyer(trades[n]))
        \/ Cost(trades[n]) <= Worth(trades, 1 .. n - 1, Buyer(trades[n]))

\* What always holds of the cash in the engine: it is as it should be, for
\* users without a MARKET BUY beyond their cash.
CashInv == CashTypes /\ LockedOK /\ CoveredOK /\ BackedOK /\ HeldOK /\ SolventOK

\* M is L except for order x.
Differs(L, M, x) ==
    /\ L \in [Orders -> Nat] /\ M \in [Orders -> Nat] /\ x \in Orders
    /\ \A o \in Orders : o # x => M[o] = L[o]

\* A frozen amount is part of the sum.
LEMMA FrozenFacts ==
    ASSUME NEW L \in [Orders -> Nat], NEW u
    PROVE  /\ IsFiniteSet(OrdersOf(u)) /\ Frozen(L, u) \in Nat
           /\ \A o \in OrdersOf(u) : L[o] <= Frozen(L, u)
<1> DEFINE S == OrdersOf(u)
<1>1. IsFiniteSet(S) /\ \A o \in S : o \in Orders
    BY OrdersAssumption, FS_Subset DEF OrdersOf
<1>2. \A o \in S : L[o] \in Nat
    BY <1>1
<1> HIDE DEF S
<1>3. SumFunctionOnSet(L, S) \in Nat
    BY <1>1, <1>2, SumNat
<1>4. \A o \in S : L[o] <= SumFunctionOnSet(L, S)
    BY <1>1, <1>2, SumBounds
<1> QED
    BY <1>1, <1>3, <1>4 DEF Frozen, S

\* The amount of one order changes the sum of its user.
LEMMA FrozenChange ==
    ASSUME NEW L, NEW M, NEW x, Differs(L, M, x), NEW u
    PROVE  Frozen(M, u) = IF u = UserOf[x] THEN Frozen(L, u) + (M[x] - L[x]) ELSE Frozen(L, u)
<1> DEFINE S == OrdersOf(u)
<1>1. /\ L \in [Orders -> Nat] /\ M \in [Orders -> Nat] /\ x \in Orders
      /\ \A o \in Orders : o # x => M[o] = L[o]
    BY DEF Differs
<1>2. IsFiniteSet(S)
    BY <1>1, FrozenFacts
<1>3. /\ \A o \in S : L[o] \in Int /\ M[o] \in Int /\ (o # x => M[o] = L[o])
      /\ x \in S <=> u = UserOf[x]
    BY <1>1 DEF OrdersOf
<1> HIDE DEF S
<1>4. CASE u = UserOf[x]
    <2>1. SumFunctionOnSet(M, S) = SumFunctionOnSet(L, S) + (M[x] - L[x])
        BY <1>2, <1>3, <1>4, SumChange
    <2> QED
        BY <1>4, <2>1 DEF Frozen, S
<1>5. CASE u # UserOf[x]
    <2>1. \A o \in S : M[o] = L[o]
        BY <1>3, <1>5
    <2>2. SumFunctionOnSet(M, S) = SumFunctionOnSet(L, S)
        BY <1>2, <2>1, SumCong
    <2> QED
        BY <1>5, <2>2 DEF Frozen, S
<1> QED
    BY <1>4, <1>5

\* Sums of nothing.
LEMMA FrozenNone ==
    ASSUME NEW L \in [Orders -> Nat], \A o \in Orders : L[o] = 0, NEW u
    PROVE  Frozen(L, u) = 0
<1> DEFINE S == OrdersOf(u)
<1>1. IsFiniteSet(S) /\ \A o \in S : o \in Orders
    BY FrozenFacts DEF OrdersOf
<1>2. \A o \in S : L[o] = 0
    BY <1>1
<1> HIDE DEF S
<1>3. SumFunctionOnSet(L, S) = 0 * Cardinality(S)
    BY <1>1, <1>2, SumConst
<1>4. Cardinality(S) \in Nat
    BY <1>1, FS_CardinalityType
<1> QED
    BY <1>3, <1>4 DEF Frozen, S

\* All cash is available at first.
LEMMA CashInit == Init => CashInv
<1> SUFFICES ASSUME Init PROVE CashInv
    OBVIOUS
<1>1. /\ trades = << >> /\ DOMAIN trades = {} /\ Balance \in Nat
      /\ \A u \in Users : available[u] = Balance /\ reserved[u] = 0
      /\ \A o \in Orders : locked[o] = 0 /\ status[o] = "NONE"
      /\ locked \in [Orders -> Nat]
    BY LimitsAssumption DEF Init
<1>2. CashTypes
    BY LimitsAssumption DEF Init, CashTypes
<1>3. LockedOK /\ CoveredOK /\ SolventOK
    BY <1>1 DEF LockedOK, CoveredOK, SolventOK, Open
<1>4. BackedOK
    <2>1. \A u : Frozen(locked, u) = 0
        BY <1>1, FrozenNone
    <2> QED
        BY <1>1, <2>1 DEF BackedOK
<1>5. HeldOK
    <2>1. \A u : Worth(trades, DOMAIN trades, u) = Balance
        BY <1>1, SumNone, Zenon
    <2> QED
        BY <1>1, <2>1 DEF HeldOK
<1> QED
    BY <1>2, <1>3, <1>4, <1>5 DEF CashInv

\* The cash frozen for an order is a number.
LEMMA AmountType ==
    ASSUME CashTypes, NEW x \in Orders
    PROVE  ReserveAmount(x) \in Nat
<1>1. /\ QuantityOf[x] \in Nat /\ PriceOf[x] \in Nat /\ SideOf[x] \in {"BUY", "SELL"}
      /\ available[UserOf[x]] \in Nat
    BY OrdersAssumption DEF CashTypes
<1>2. \A a, b \in Nat : a * b \in Nat
    OBVIOUS
<1>3. QuantityOf[x] * PriceOf[x] \in Nat
    BY <1>1, <1>2
<1> QED
    BY <1>1, <1>3 DEF ReserveAmount

\* An order that is accepted freezes cash of its user.
LEMMA AcceptCash ==
    ASSUME EngineInv, CashInv, NEW x \in Orders, AcceptOrder(x)
    PROVE  CashInv'
<1> DEFINE a == ReserveAmount(x)
           u == UserOf[x]
<1>1. /\ status[x] = "NONE" /\ status' = [status EXCEPT ![x] = "PENDING"]
      /\ a <= available[u]
      /\ available' = [available EXCEPT ![u] = @ - a]
      /\ reserved' = [reserved EXCEPT ![u] = @ + a]
      /\ locked' = [locked EXCEPT ![x] = a]
      /\ UNCHANGED <<got, overspent, trades>>
    BY DEF AcceptOrder
<1>2. /\ available \in [Users -> Nat] /\ reserved \in [Users -> Nat] /\ locked \in [Orders -> Nat]
      /\ a \in Nat /\ u \in Users
    BY AmountType, OrdersAssumption DEF CashInv, CashTypes
<1>3. /\ \A o \in Orders : o # x => status'[o] = status[o]
      /\ status'[x] = "PENDING"
      /\ got[x] = 0 /\ QuantityOf[x] \in Nat
    BY <1>1, OrdersAssumption DEF EngineInv, EngineTypes, StatusOK
<1>4. a = QuantityOf[x] * PriceOf[x] \/ x \in MarketOrders \/ SideOf[x] # "BUY"
    BY OrdersAssumption DEF ReserveAmount
<1> HIDE DEF a, u
<1>5. /\ available' \in [Users -> Nat] /\ reserved' \in [Users -> Nat] /\ locked' \in [Orders -> Nat]
      /\ available'[u] = available[u] - a /\ reserved'[u] = reserved[u] + a /\ locked'[x] = a
      /\ \A v \in Users : v # u => available'[v] = available[v] /\ reserved'[v] = reserved[v]
      /\ \A o \in Orders : o # x => locked'[o] = locked[o]
    <2>1. available[u] - a \in Nat
        BY <1>1, <1>2
    <2> QED
        BY <1>1, <1>2, <2>1
<1>6. CashTypes'
    BY <1>1, <1>5 DEF CashInv, CashTypes
<1>7. LockedOK'
    BY <1>3, <1>5 DEF CashInv, LockedOK
<1>8. CoveredOK'
    <2> SUFFICES ASSUME NEW o \in Orders \ MarketOrders, SideOf[o] = "BUY", status'[o] \in Open
                 PROVE  (QuantityOf[o] - got[o]) * PriceOf[o] <= locked'[o]
        BY <1>1 DEF CoveredOK
    <2>1. CASE o = x
        <3>1. QuantityOf[o] - got[o] = QuantityOf[x]
            BY <1>3, <2>1
        <3>2. (QuantityOf[o] - got[o]) * PriceOf[o] = a
            BY <1>4, <2>1, <3>1
        <3> QED
            BY <1>2, <1>5, <2>1, <3>2
    <2>2. CASE o # x
        BY <1>3, <1>5, <2>2 DEF CashInv, CoveredOK
    <2> QED
        BY <2>1, <2>2
<1>9. \A v : Overspender(v)' <=> Overspender(v)
    BY <1>1 DEF Overspender
<1>10. BackedOK'
    <2> SUFFICES ASSUME NEW v \in Users, ~Overspender(v) PROVE reserved'[v] = Frozen(locked', v)
        BY <1>9 DEF BackedOK
    <2>1. reserved[v] = Frozen(locked, v) /\ locked[x] = 0
        BY <1>1 DEF CashInv, BackedOK, LockedOK
    <2>2. Differs(locked, locked', x)
        BY <1>2, <1>5 DEF Differs
    <2>3. Frozen(locked', v) =
              IF v = u THEN Frozen(locked, v) + (locked'[x] - locked[x]) ELSE Frozen(locked, v)
        BY <2>2, FrozenChange DEF u
    <2> QED
        BY <1>2, <1>5, <2>1, <2>3
<1>11. \A v \in Users : available'[v] + reserved'[v] = available[v] + reserved[v]
    BY <1>2, <1>5
<1>12. HeldOK' /\ SolventOK'
    BY <1>1, <1>9, <1>11 DEF CashInv, HeldOK, SolventOK
<1> QED
    BY <1>6, <1>7, <1>8, <1>10, <1>12 DEF CashInv

\* Order x has come to its end and is released.
Released(x) ==
    /\ x \in Orders /\ ReleaseOrder(x)
    /\ status[x] # "NONE" /\ status'[x] \notin Open \cup {"NONE"}
    /\ \A o \in Orders : o # x => status'[o] = status[o]
    /\ UNCHANGED <<got, trades>>

\* What is released becomes available.
LEMMA ReleaseCash ==
    ASSUME EngineInv, CashInv, NEW x, Released(x)
    PROVE  CashInv'
<1> DEFINE a == locked[x]
           u == UserOf[x]
<1>1. /\ x \in Orders /\ status'[x] \notin Open \cup {"NONE"}
      /\ \A o \in Orders : o # x => status'[o] = status[o]
      /\ available' = [available EXCEPT ![u] = @ + a]
      /\ reserved' = [reserved EXCEPT ![u] = AtLeastZero(@ - a)]
      /\ locked' = [locked EXCEPT ![x] = 0]
      /\ UNCHANGED <<got, overspent, trades>>
    BY DEF Released, ReleaseOrder
<1>2. /\ available \in [Users -> Nat] /\ reserved \in [Users -> Nat] /\ locked \in [Orders -> Nat]
      /\ a \in Nat /\ u \in Users
    BY <1>1, OrdersAssumption DEF CashInv, CashTypes
<1> HIDE DEF a, u
<1>5. /\ available' \in [Users -> Nat] /\ reserved' \in [Users -> Nat] /\ locked' \in [Orders -> Nat]
      /\ available'[u] = available[u] + a
      /\ reserved'[u] = (IF reserved[u] - a < 0 THEN 0 ELSE reserved[u] - a)
      /\ locked'[x] = 0
      /\ \A v \in Users : v # u => available'[v] = available[v] /\ reserved'[v] = reserved[v]
      /\ \A o \in Orders : o # x => locked'[o] = locked[o]
    <2>1. reserved[u] \in Nat /\ AtLeastZero(reserved[u] - a) \in Nat
          /\ AtLeastZero(reserved[u] - a) = (IF reserved[u] - a < 0 THEN 0 ELSE reserved[u] - a)
        BY <1>2 DEF AtLeastZero
    <2>2. reserved' = [reserved EXCEPT ![u] = AtLeastZero(reserved[u] - a)]
        BY <1>1, <1>2
    <2> HIDE DEF AtLeastZero
    <2> QED
        BY <1>1, <1>2, <2>1, <2>2
<1>6. CashTypes'
    BY <1>1, <1>5 DEF CashInv, CashTypes
<1>7. LockedOK'
    BY <1>1, <1>5 DEF CashInv, LockedOK
<1>8. CoveredOK'
    BY <1>1, <1>5 DEF CashInv, CoveredOK
<1>9. \A v : Overspender(v)' <=> Overspender(v)
    BY <1>1 DEF Overspender
<1>10. ASSUME ~Overspender(u) PROVE a <= reserved[u] /\ reserved[u] = Frozen(locked, u)
    <2>1. reserved[u] = Frozen(locked, u)
        BY <1>2, <1>10 DEF CashInv, BackedOK
    <2>2. x \in OrdersOf(u)
        BY <1>1 DEF OrdersOf, u
    <2> QED
        BY <1>2, <2>1, <2>2, FrozenFacts DEF a
<1>11. BackedOK'
    <2> SUFFICES ASSUME NEW v \in Users, ~Overspender(v) PROVE reserved'[v] = Frozen(locked', v)
        BY <1>9 DEF BackedOK
    <2>1. reserved[v] = Frozen(locked, v)
        BY DEF CashInv, BackedOK
    <2>2. Differs(locked, locked', x)
        BY <1>1, <1>2, <1>5 DEF Differs
    <2>3. Frozen(locked', v) =
              IF v = u THEN Frozen(locked, v) + (locked'[x] - locked[x]) ELSE Frozen(locked, v)
        BY <2>2, FrozenChange DEF u
    <2>4. locked[x] = a
        BY DEF a
    <2> QED
        BY <1>2, <1>5, <1>10, <2>1, <2>3, <2>4
<1>12. \A v \in Users : /\ available[v] + reserved[v] <= available'[v] + reserved'[v]
                        /\ Overspender(v) \/ available'[v] + reserved'[v] = available[v] + reserved[v]
    <2> SUFFICES ASSUME NEW v \in Users
                 PROVE  /\ available[v] + reserved[v] <= available'[v] + reserved'[v]
                        /\ Overspender(v) \/ available'[v] + reserved'[v] = available[v] + reserved[v]
        OBVIOUS
    <2>1. CASE v = u
        BY <1>2, <1>5, <1>10, <2>1
    <2>2. CASE v # u
        BY <1>2, <1>5, <2>2
    <2> QED
        BY <2>1, <2>2
<1>13. HeldOK'
    <2> SUFFICES ASSUME NEW v \in Users
                 PROVE  /\ Worth(trades, DOMAIN trades, v) <= available'[v] + reserved'[v]
                        /\ \/ Overspender(v)
                           \/ Worth(trades, DOMAIN trades, v) = available'[v] + reserved'[v]
        BY <1>1, <1>9 DEF HeldOK
    <2>1. /\ Worth(trades, DOMAIN trades, v) <= available[v] + reserved[v]
          /\ Overspender(v) \/ Worth(trades, DOMAIN trades, v) = available[v] + reserved[v]
        BY DEF CashInv, HeldOK
    <2>2. /\ available[v] \in Nat /\ reserved[v] \in Nat /\ available'[v] \in Nat /\ reserved'[v] \in Nat
          /\ Worth(trades, DOMAIN trades, v) \in Int
        BY <1>2, <1>5, SumTypes DEF EngineInv, EngineTypes
    <2> QED
        BY <1>12, <2>1, <2>2
<1>14. SolventOK'
    BY <1>1, <1>9 DEF CashInv, SolventOK
<1> QED
    BY <1>6, <1>7, <1>8, <1>11, <1>13, <1>14 DEF CashInv

\* What a trade of quantity q costs, if an order of left shares has frozen
\* them at price r and they are sold at price s.
LEMMA CoverShrinks ==
    ASSUME NEW left \in Nat, NEW q \in Nat, q <= left, NEW r \in Nat, NEW s \in Nat, s <= r,
           NEW a \in Nat, left * r <= a
    PROVE  q * s <= a /\ (left - q) * r <= a - q * s
<1>1. \A x, y, z \in Nat : x <= y => z * x <= z * y
    OBVIOUS
<1>2. q * s <= q * r
    BY <1>1
<1>3. left * r = (left - q) * r + q * r
    OBVIOUS
<1>4. q * s \in Nat /\ q * r \in Nat /\ (left - q) * r \in Nat
    <2>1. \A x, y \in Nat : x * y \in Nat
        OBVIOUS
    <2> QED
        BY <2>1
<1> QED
    BY <1>2, <1>3, <1>4

\* A trade is paid out of what is frozen for the BUY order, unless that is a
\* MARKET order which has frozen too little.
LEMMA ExecuteCash ==
    ASSUME EngineInv, CashInv, NEW p \in Partitions, NEW m \in Orders, ExecutePair(p, m)
    PROVE  CashInv'
<1> DEFINE o == taking[p]
           lo == QuantityOf[o] - got[o]
           lm == QuantityOf[m] - got[m]
           qu == IF lo < lm THEN lo ELSE lm
           t == [taker |-> o, maker |-> m, quantity |-> qu]
           n == Len(trades) + 1
<1>1. /\ o # NoOrder /\ m # o /\ status[m] \in Open /\ lo > 0 /\ m \notin MarketOrders
      /\ SideOf[m] # SideOf[o] /\ UserOf[m] # UserOf[o]
      /\ CanMatch(o, m)
      /\ trades' = Append(trades, t)
      /\ got' = [got EXCEPT ![o] = @ + qu, ![m] = @ + qu]
      /\ status' = [status EXCEPT ![o] = IF lo = qu THEN "FILLED" ELSE "PARTIAL",
                                  ![m] = IF lm = qu THEN "FILLED" ELSE "PARTIAL"]
      /\ SettleTrade(t)
    BY DEF ExecutePair
<1>2. /\ o \in Orders
      /\ status[o] \notin {"NONE", "CANCELED"} /\ status[m] \notin {"NONE", "CANCELED"}
    BY <1>1 DEF EngineInv, EngineTypes, TakingOK, Open
<1>3. /\ got \in [Orders -> Nat] /\ got[o] \in Nat /\ got[m] \in Nat
      /\ QuantityOf[o] \in Nat \ {0} /\ QuantityOf[m] \in Nat \ {0}
      /\ got[o] <= QuantityOf[o] /\ got[m] <= QuantityOf[m]
      /\ status[o] = StatusOf(o, got[o]) /\ status[m] = StatusOf(m, got[m])
    BY <1>2, OrdersAssumption DEF EngineInv, EngineTypes, StatusOK
<1>4. lm > 0 /\ lo \in Nat /\ lm \in Nat /\ qu \in Nat /\ qu > 0 /\ qu <= lo /\ qu <= lm
    <2>1. lm > 0
        BY <1>1, <1>3 DEF StatusOf, Open
    <2> QED
        BY <1>1, <1>3, <2>1
<1>5. status[o] \in Open
    BY <1>1, <1>3 DEF StatusOf, Open
<1>6. /\ got'[o] = got[o] + qu /\ got'[m] = got[m] + qu
      /\ \A y \in Orders : y # o /\ y # m => got'[y] = got[y]
    <2>1. got' = [got EXCEPT ![o] = @ + qu, ![m] = @ + qu] /\ qu \in Nat /\ m # o
        BY <1>1, <1>4
    <2> HIDE DEF qu, o
    <2> QED
        BY <1>2, <1>3, <2>1
<1>7. /\ \A y \in Orders : y # o /\ y # m => status'[y] = status[y]
      /\ status'[o] # "NONE" /\ status'[m] # "NONE"
    BY <1>1, <1>2 DEF EngineInv, EngineTypes
<1>8. /\ t \in Trade /\ t.taker = o /\ t.maker = m /\ t.quantity = qu
      /\ Buyer(t) # Seller(t) /\ Buyer(t) \in Users /\ Seller(t) \in Users /\ Cost(t) \in Nat
      /\ Cost(t) = qu * PriceOf[m]
    <2>1. t \in Trade
        BY <1>2, <1>4 DEF Trade
    <2>2. Buyer(t) # Seller(t)
        BY <1>1 DEF Buyer, Seller
    <2> QED
        BY <2>1, <2>2, TradeFacts DEF Cost
<1> DEFINE x == BuyOrder(t)
           b == Buyer(t)
           s == Seller(t)
           c == Cost(t)
<1>9. /\ x \in {o, m} /\ x \in Orders /\ SideOf[x] = "BUY" /\ b = UserOf[x]
      /\ \A y \in {o, m} : SideOf[y] = "BUY" => y = x
    BY <1>1, <1>2, OrdersAssumption DEF BuyOrder, Buyer
<1>10. /\ reserved' = [reserved EXCEPT ![b] = AtLeastZero(@ - c)]
       /\ available' = [available EXCEPT ![s] = @ + c]
       /\ locked' = [locked EXCEPT ![x] = AtLeastZero(@ - c)]
       /\ overspent' = IF c > locked[x] THEN overspent \cup {x} ELSE overspent
    BY <1>1 DEF SettleTrade
<1>11. /\ Len(trades) \in Nat /\ DOMAIN trades = 1 .. Len(trades) /\ trades \in Seq(Trade)
       /\ trades' \in Seq(Trade) /\ DOMAIN trades' = DOMAIN trades \cup {n}
       /\ n \notin DOMAIN trades /\ trades'[n] = t /\ n \in Nat
       /\ \A id \in DOMAIN trades : trades'[id] = trades[id]
    <2>1. trades \in Seq(Trade) /\ Len(trades) \in Nat /\ DOMAIN trades = 1 .. Len(trades)
        BY DEF EngineInv, EngineTypes
    <2> HIDE DEF t
    <2> QED
        BY <1>1, <1>8, <2>1
<1>12. \/ x \in MarketOrders
       \/ c <= locked[x] /\ (QuantityOf[x] - got[x] - qu) * PriceOf[x] <= locked[x] - c
    <2> SUFFICES ASSUME x \notin MarketOrders
                 PROVE  c <= locked[x] /\ (QuantityOf[x] - got[x] - qu) * PriceOf[x] <= locked[x] - c
        OBVIOUS
    <2> DEFINE left == QuantityOf[x] - got[x]
    <2>1. left * PriceOf[x] <= locked[x]
        BY <1>1, <1>5, <1>9 DEF CashInv, CoveredOK
    <2>2. left \in Nat /\ qu \in Nat /\ qu <= left
        BY <1>4, <1>9
    <2>3. PriceOf[x] \in Nat /\ PriceOf[m] \in Nat /\ locked[x] \in Nat
        BY <1>9, OrdersAssumption DEF CashInv, CashTypes
    <2>4. PriceOf[m] <= PriceOf[x]
        <3>1. CASE x = m
            BY <2>3, <3>1
        <3>2. CASE x = o
            BY <1>1, <1>9, <3>2 DEF CanMatch
        <3> QED
            BY <1>9, <3>1, <3>2
    <2>5. c = qu * PriceOf[m]
        BY <1>8
    <2> HIDE DEF left, qu, c, x
    <2>6. qu * PriceOf[m] <= locked[x] /\ (left - qu) * PriceOf[x] <= locked[x] - qu * PriceOf[m]
        BY <2>1, <2>2, <2>3, <2>4, CoverShrinks
    <2> QED
        BY <2>5, <2>6 DEF left
<1>13. /\ available \in [Users -> Nat] /\ reserved \in [Users -> Nat] /\ locked \in [Orders -> Nat]
       /\ c \in Nat /\ b \in Users /\ s \in Users /\ b # s /\ locked[x] \in Nat
    BY <1>8, <1>9 DEF CashInv, CashTypes
<1>14. \A u : Gain(t, u) = IF u = b THEN -c ELSE IF u = s THEN c ELSE 0
    BY DEF Gain
<1>15. x \in MarketOrders \/ (QuantityOf[x] - got'[x]) * PriceOf[x] <= locked[x] - c
    <2>1. got'[x] = got[x] + qu /\ got[x] \in Nat /\ QuantityOf[x] \in Nat /\ qu \in Nat
        BY <1>3, <1>4, <1>6, <1>9
    <2>2. QuantityOf[x] - got'[x] = QuantityOf[x] - got[x] - qu
        BY <2>1
    <2> HIDE DEF x, qu, c
    <2> QED
        BY <1>12, <2>2
<1>16. x \in MarketOrders \/ c <= locked[x]
    BY <1>12
<1> HIDE DEF x, b, s, c, t, qu, lo, lm, n
<1>17. /\ available' \in [Users -> Nat] /\ reserved' \in [Users -> Nat] /\ locked' \in [Orders -> Nat]
       /\ available'[s] = available[s] + c
       /\ reserved'[b] = (IF reserved[b] - c < 0 THEN 0 ELSE reserved[b] - c)
       /\ locked'[x] = (IF locked[x] - c < 0 THEN 0 ELSE locked[x] - c)
       /\ \A v \in Users : /\ v # b => reserved'[v] = reserved[v]
                           /\ v # s => available'[v] = available[v]
       /\ \A y \in Orders : y # x => locked'[y] = locked[y]
    <2>1. /\ AtLeastZero(reserved[b] - c) \in Nat /\ AtLeastZero(locked[x] - c) \in Nat
          /\ AtLeastZero(reserved[b] - c) = (IF reserved[b] - c < 0 THEN 0 ELSE reserved[b] - c)
          /\ AtLeastZero(locked[x] - c) = (IF locked[x] - c < 0 THEN 0 ELSE locked[x] - c)
        BY <1>13 DEF AtLeastZero
    <2>2. /\ reserved' = [reserved EXCEPT ![b] = AtLeastZero(reserved[b] - c)]
          /\ locked' = [locked EXCEPT ![x] = AtLeastZero(locked[x] - c)]
        BY <1>9, <1>10, <1>13
    <2> HIDE DEF AtLeastZero
    <2> QED
        BY <1>9, <1>10, <1>13, <2>1, <2>2
<1>18. CashTypes'
    BY <1>9, <1>10, <1>17 DEF CashInv, CashTypes
<1>19. \A u : Overspender(u) => Beyond(overspent', u)
    BY <1>10 DEF Overspender, Beyond
<1>20. ASSUME ~Beyond(overspent', b) PROVE c <= locked[x]
    <2>1. CASE x \notin MarketOrders
        BY <1>16, <2>1
    <2>2. CASE x \in MarketOrders /\ x \in overspent'
        BY <1>9, <1>20, <2>2 DEF Beyond
    <2>3. CASE x \notin overspent'
        BY <1>10, <1>13, <2>3
    <2> QED
        BY <2>1, <2>2, <2>3
<1>21. ASSUME ~Beyond(overspent', b) PROVE c <= reserved[b] /\ reserved[b] = Frozen(locked, b)
    <2>1. reserved[b] = Frozen(locked, b)
        BY <1>13, <1>19, <1>21 DEF CashInv, BackedOK
    <2>2. x \in OrdersOf(b)
        BY <1>9 DEF OrdersOf
    <2>3. locked[x] <= Frozen(locked, b) /\ Frozen(locked, b) \in Nat
        BY <1>13, <2>2, FrozenFacts
    <2> QED
        BY <1>13, <1>20, <1>21, <2>1, <2>3
<1>22. LockedOK'
    <2> SUFFICES ASSUME NEW y \in Orders, status'[y] = "NONE" PROVE locked'[y] = 0
        BY DEF LockedOK
    <2>1. y # o /\ y # m /\ y # x
        BY <1>7, <1>9
    <2> QED
        BY <1>7, <1>17, <2>1 DEF CashInv, LockedOK
<1>23. CoveredOK'
    <2> SUFFICES ASSUME NEW y \in Orders \ MarketOrders, SideOf[y] = "BUY", status'[y] \in Open
                 PROVE  (QuantityOf[y] - got'[y]) * PriceOf[y] <= locked'[y]
        BY DEF CoveredOK
    <2>1. CASE y = x
        <3>1. locked'[x] = locked[x] - c
            BY <1>13, <1>16, <1>17, <2>1
        <3> QED
            BY <1>15, <2>1, <3>1
    <2>2. CASE y # x
        <3>1. y # o /\ y # m
            BY <1>9, <2>2
        <3> QED
            BY <1>6, <1>7, <1>17, <2>2, <3>1 DEF CashInv, CoveredOK
    <2> QED
        BY <2>1, <2>2
<1>24. BackedOK'
    <2> SUFFICES ASSUME NEW v \in Users, ~Beyond(overspent', v) PROVE reserved'[v] = Frozen(locked', v)
        BY DEF BackedOK, Overspender, Beyond, Frozen, OrdersOf
    <2>1. reserved[v] = Frozen(locked, v)
        BY <1>19 DEF CashInv, BackedOK
    <2>2. Differs(locked, locked', x)
        BY <1>9, <1>13, <1>17 DEF Differs
    <2>3. Frozen(locked', v) =
              IF v = b THEN Frozen(locked, v) + (locked'[x] - locked[x]) ELSE Frozen(locked, v)
        BY <1>9, <2>2, FrozenChange
    <2>4. CASE v = b
        <3>1. c <= locked[x] /\ c <= reserved[b] /\ reserved[b] \in Nat
            BY <1>13, <1>20, <1>21, <2>4
        <3>2. locked'[x] = locked[x] - c /\ reserved'[b] = reserved[b] - c
            BY <1>13, <1>17, <3>1
        <3> QED
            BY <1>13, <2>1, <2>3, <2>4, <3>1, <3>2
    <2>5. CASE v # b
        BY <1>17, <2>1, <2>3, <2>5
    <2> QED
        BY <2>4, <2>5
<1>25. ASSUME NEW S \in SUBSET DOMAIN trades PROVE Keeps(trades, trades', S)
    BY <1>11 DEF Keeps
<1>26. Adds(trades', DOMAIN trades, DOMAIN trades', n, t)
    BY <1>8, <1>11 DEF Adds
<1>27. ASSUME NEW v \in Users
       PROVE  /\ Worth(trades', DOMAIN trades', v) = Worth(trades, DOMAIN trades, v) + Gain(t, v)
              /\ Worth(trades', DOMAIN trades, v) = Worth(trades, DOMAIN trades, v)
              /\ Worth(trades, DOMAIN trades, v) \in Int
    <2>1. Worth(trades', DOMAIN trades, v) = Worth(trades, DOMAIN trades, v)
        BY <1>25, SumsKept
    <2>2. Worth(trades', DOMAIN trades', v) = Worth(trades', DOMAIN trades, v) + Gain(t, v)
        BY <1>26, SumsAdd
    <2>3. Worth(trades, DOMAIN trades, v) \in Int
        BY <1>11, SumTypes
    <2> QED
        BY <2>1, <2>2, <2>3
<1>28. HeldOK'
    <2> SUFFICES ASSUME NEW v \in Users
                 PROVE  /\ Worth(trades', DOMAIN trades', v) <= available'[v] + reserved'[v]
                        /\ \/ Beyond(overspent', v)
                           \/ Worth(trades', DOMAIN trades', v) = available'[v] + reserved'[v]
        BY DEF HeldOK, Worth, Costs, Cost, SoldBy, BoughtBy, Buyer, Seller, Overspender, Beyond
    <2>1. /\ Worth(trades, DOMAIN trades, v) <= available[v] + reserved[v]
          /\ Overspender(v) \/ Worth(trades, DOMAIN trades, v) = available[v] + reserved[v]
        BY DEF CashInv, HeldOK
    <2>2. /\ Worth(trades', DOMAIN trades', v) = Worth(trades, DOMAIN trades, v) + Gain(t, v)
          /\ Worth(trades, DOMAIN trades, v) \in Int
        BY <1>27
    <2>3. available[v] \in Nat /\ reserved[v] \in Nat
        BY <1>13
    <2> DEFINE W == Worth(trades, DOMAIN trades, v)
               X == Worth(trades', DOMAIN trades', v)
    <2>4. /\ X = W + Gain(t, v) /\ W \in Int /\ W <= available[v] + reserved[v]
          /\ Overspender(v) \/ W = available[v] + reserved[v]
        BY <2>1, <2>2
    <2> HIDE DEF W, X
    <2>5. CASE v = b
        <3>1. Gain(t, v) = -c /\ available'[v] = available[v]
            BY <1>13, <1>14, <1>17, <2>5
        <3>2. CASE c <= reserved[b]
            BY <1>13, <1>17, <1>19, <2>3, <2>4, <2>5, <3>1, <3>2 DEF X
        <3>3. CASE ~(c <= reserved[b])
            BY <1>13, <1>17, <1>21, <2>3, <2>4, <2>5, <3>1, <3>3 DEF X
        <3> QED
            BY <3>2, <3>3
    <2>6. CASE v = s
        <3>1. Gain(t, v) = c /\ available'[v] = available[v] + c /\ reserved'[v] = reserved[v]
            BY <1>13, <1>14, <1>17, <2>6
        <3> QED
            BY <1>13, <1>19, <2>3, <2>4, <3>1 DEF X
    <2>7. CASE v # b /\ v # s
        <3>1. Gain(t, v) = 0 /\ available'[v] = available[v] /\ reserved'[v] = reserved[v]
            BY <1>14, <1>17, <2>7
        <3> QED
            BY <1>19, <2>3, <2>4, <3>1 DEF X
    <2> QED
        BY <2>5, <2>6, <2>7
<1>29. SolventOK'
    <2> SUFFICES ASSUME NEW k \in DOMAIN trades', ~Beyond(overspent', Buyer(trades'[k]))
                 PROVE  Cost(trades'[k]) <= Worth(trades', 1 .. k - 1, Buyer(trades'[k]))
        BY DEF SolventOK, Worth, Costs, Cost, SoldBy, BoughtBy, Buyer, Seller, Overspender, Beyond
    <2>1. CASE k = n
        <3>1. 1 .. n - 1 = DOMAIN trades
            BY <1>11 DEF n
        <3>2. trades'[k] = t /\ Buyer(t) = b /\ Cost(t) = c
            BY <1>11, <2>1 DEF b, c
        <3>3. ~Beyond(overspent', b)
            BY <3>2
        <3>4. Worth(trades', 1 .. n - 1, b) = Worth(trades, DOMAIN trades, b)
            BY <1>13, <1>27, <3>1, Zenon
        <3>5. Worth(trades, DOMAIN trades, b) = available[b] + reserved[b]
            BY <1>13, <1>19, <3>3 DEF CashInv, HeldOK
        <3>6. c <= available[b] + reserved[b]
            BY <1>13, <1>21, <3>3
        <3>7. c <= Worth(trades', 1 .. n - 1, b)
            BY <3>4, <3>5, <3>6
        <3> QED
            BY <2>1, <3>2, <3>7, Zenon
    <2>2. CASE k \in DOMAIN trades
        <3> DEFINE S == 1 .. k - 1
        <3>1. S \subseteq DOMAIN trades
            BY <1>11, <2>2
        <3>2. trades'[k] = trades[k]
            BY <1>11, <2>2
        <3>3. ~Overspender(Buyer(trades[k]))
            BY <1>19, <3>2
        <3>4. Cost(trades[k]) <= Worth(trades, S, Buyer(trades[k]))
            BY <2>2, <3>3 DEF CashInv, SolventOK
        <3> HIDE DEF S
        <3>5. Worth(trades', S, Buyer(trades[k])) = Worth(trades, S, Buyer(trades[k]))
            BY <1>25, <3>1, SumsKept
        <3>6. Cost(trades'[k]) <= Worth(trades', S, Buyer(trades'[k]))
            BY <3>2, <3>4, <3>5
        <3> QED
            BY <3>6 DEF S
    <2> QED
        BY <1>11, <2>1, <2>2
<1> QED
    BY <1>18, <1>22, <1>23, <1>24, <1>28, <1>29 DEF CashInv

\* Nobody but the engine touches its cash.
LEMMA CashElse ==
    ASSUME CashInv, UNCHANGED <<status, got, cashVars, trades>>
    PROVE  CashInv'
    BY DEF cashVars, CashInv, CashTypes, LockedOK, CoveredOK, BackedOK, HeldOK, SolventOK, Overspender

\* The end of a match releases the order unless it rests.
LEMMA FinishCash ==
    ASSUME EngineInv, CashInv, NEW p \in Partitions, FinishMatch(p)
    PROVE  CashInv'
<1> DEFINE x == taking[p]
<1>1. /\ x # NoOrder
      /\ status' = IF x \in MarketOrders /\ status[x] # "FILLED"
                   THEN [status EXCEPT ![x] = "CANCELED"] ELSE status
      /\ IF status[x] # "FILLED" /\ x \notin MarketOrders
         THEN UNCHANGED cashVars ELSE ReleaseOrder(x)
      /\ UNCHANGED <<got, trades>>
    BY DEF FinishMatch
<1>2. x \in Orders /\ status[x] # "NONE"
    BY <1>1 DEF EngineInv, EngineTypes, TakingOK
<1> HIDE DEF x
<1>3. CASE status[x] # "FILLED" /\ x \notin MarketOrders
    BY <1>1, <1>3, CashElse
<1>4. CASE status[x] = "FILLED" \/ x \in MarketOrders
    <2>1. status \in [Orders -> Statuses \cup {"NONE"}]
        BY DEF EngineInv, EngineTypes
    <2>2. Released(x)
        BY <1>1, <1>2, <1>4, <2>1 DEF Released, Open
    <2> QED
        BY <2>2, ReleaseCash
<1> QED
    BY <1>3, <1>4

\* The cash part of the inductive invariant.
LEMMA CashNext == EngineInv /\ CashInv /\ [Next]_vars => CashInv'
<1> SUFFICES ASSUME EngineInv, CashInv, [Next]_vars PROVE CashInv'
    OBVIOUS
<1>1. ASSUME NEW x \in Orders, CancelOrder(x) PROVE CashInv'
    <2>1. status \in [Orders -> Statuses \cup {"NONE"}]
        BY DEF EngineInv, EngineTypes
    <2>2. Released(x)
        BY <1>1, <2>1 DEF CancelOrder, Released, Open
    <2> QED
        BY <2>2, ReleaseCash
<1>2. ASSUME NEW p \in Partitions, PublishTrade(p) PROVE CashInv'
    BY <1>2, CashElse DEF PublishTrade
<1>3. CASE EngineStep
    BY <1>1, <1>2, <1>3, AcceptCash, ExecuteCash, FinishCash DEF EngineStep
<1>4. CASE \E w \in Workers : Start(w) \/ WorkerStep(w) \/ WorkerFails(w)
    BY <1>4, WorkersOnly, CashElse DEF engineVars
<1>5. CASE \E e \in Events : DeleteEvent(e)
    BY <1>5, CashElse DEF DeleteEvent, engineVars
<1>6. CASE UNCHANGED vars
    BY <1>6, CashElse DEF vars, engineVars
<1> QED
    BY <1>3, <1>4, <1>5, <1>6 DEF Next

-----------------------------------------------------------------------------
(* The workers and Postgres                                                *)

\* What the workers and the group keep.
WorkerTypes ==
    /\ cursor \in 0 .. Len(stream)
    /\ pending \subseteq 1 .. cursor
    /\ pc \in [Workers -> {"down", "read", "handle", "taker", "maker", "ack"}]
    /\ batch \in [Workers -> SUBSET (1 .. cursor)]
    /\ seen \in [Workers -> [taker : Statuses, maker : Statuses]]
    /\ fails \in 0 .. MaxFails

\* What Postgres and the history variables keep.
TableTypes ==
    /\ stored \subseteq Events
    /\ DOMAIN row \subseteq Orders
    /\ row \in [DOMAIN row -> Row]
    /\ settled \subseteq DOMAIN trades
    /\ cash \in [Users -> Nat]
    /\ shares \in [Users \X Events -> Int]
    /\ volume \in [Events -> Nat]
    /\ ledger \subseteq LedgerRow
    /\ applied \subseteq 1 .. cursor
    /\ refused \subseteq 1 .. cursor
    /\ ordered \in BOOLEAN

\* Worker w is handling an entry, or has a transaction open.
Busy(w) == pc[w] \notin {"down", "read"}
InTransaction(w) == pc[w] \in {"taker", "maker"}

\* A busy worker has something to do.
BatchOK == \A w \in Workers : Busy(w) => batch[w] # {}

\* An open transaction is about a trade that is not settled, whose orders have
\* rows, and that no other transaction is about.
TransactionOK ==
    \A w \in Workers : InTransaction(w) =>
        /\ IsTrade(Current(w))
        /\ CurrentEvent(w).trade \notin settled
        /\ KeysExist(CurrentTrade(w))
        /\ \A v \in Workers : v # w /\ InTransaction(v) =>
              CurrentEvent(v).trade # CurrentEvent(w).trade

\* What is about to be acknowledged is in Postgres.
DoneOK == \A w \in Workers : pc[w] = "ack" => Current(w) \in applied

\* Which entries are in Postgres: table trades shows it for a trade. The row of
\* an order goes only with its event.
AppliedOK ==
    \A i \in 1 .. Len(stream) :
        /\ IsTrade(i) => (i \in applied <=> stream[i].trade \in settled)
        /\ \A o \in Orders : IsCreate(i, o) /\ i \in applied /\ EventOf[o] \in stored => o \in DOMAIN row

\* A row is that of an accepted order of a stored event; a settled trade is on the stream, and
\* its orders have rows.
RowsOK ==
    /\ \A o \in DOMAIN row : status[o] # "NONE" /\ EventOf[o] \in stored
    /\ \A id \in settled :
          /\ KeysExist(trades[id])
          /\ \E i \in 1 .. Len(stream) : IsTrade(i) /\ stream[i].trade = id

\* Every settled trade is in every table once.
TablesOK ==
    /\ \A o \in DOMAIN row : row[o].filled = Filled(trades, settled, o)
    /\ \A u \in Users : cash[u] = Worth(trades, settled, u)
    /\ \A u \in Users, e \in Events : shares[<<u, e>>] = Position(trades, settled, u, e)
    /\ \A e \in Events : volume[e] = Turnover(trades, settled, e)
    /\ ledger = UNION {InsertTransaction(trades[id], id) : id \in settled}

\* As long as everything came in order, an initial part of the stream is applied.
PrefixOK == ordered => \A i \in applied : 1 .. i \subseteq applied

\* What always holds of the workers and the group, of Postgres, and of all.
ControlInv == WorkerTypes /\ BatchOK /\ TransactionOK /\ DoneOK /\ AckedApplied
TableInv == TableTypes /\ AppliedOK /\ RowsOK /\ TablesOK /\ PrefixOK /\ RefusalExplained
WorkerInv == EngineInv /\ CashInv /\ ControlInv /\ TableInv

\* The entry of a busy worker is the first of its batch.
LEMMA CurrentIs ==
    ASSUME WorkerTypes, EngineTypes, NEW w \in Workers, batch[w] # {}
    PROVE  /\ Current(w) \in batch[w] /\ Current(w) \in 1 .. cursor
           /\ Current(w) \in 1 .. Len(stream) /\ Current(w) \in Nat
<1>1. batch[w] \subseteq 1 .. cursor /\ cursor \in 0 .. Len(stream) /\ Len(stream) \in Nat
    BY DEF WorkerTypes, EngineTypes
<1>2. batch[w] \subseteq Nat
    BY <1>1
<1>3. \E n \in batch[w] : \A m \in batch[w] : n <= m
    BY <1>2, SmallestExists
<1>4. Current(w) \in batch[w]
    BY <1>3 DEF Current, Min
<1> QED
    BY <1>1, <1>4

\* The trade of an entry is one of the engine's.
LEMMA EntryTrade ==
    ASSUME EngineInv, NEW i \in 1 .. Len(stream), IsTrade(i)
    PROVE  /\ stream[i].trade \in DOMAIN trades /\ trades[stream[i].trade] \in Trade
           /\ stream[i].trade \in Nat
           /\ trades[stream[i].trade].taker # trades[stream[i].trade].maker
           /\ Buyer(trades[stream[i].trade]) # Seller(trades[stream[i].trade])
<1>1. stream[i].trade \in DOMAIN trades
    BY DEF EngineInv, OrderingOK
<1>2. stream[i].trade \in Nat
    BY <1>1, TradesAre DEF EngineInv
<1>3. trades[stream[i].trade] \in Trade
    BY <1>1, TradesAre DEF EngineInv
<1> QED
    BY <1>1, <1>2, <1>3 DEF EngineInv, TradesOK, Buyer, Seller

\* Nothing is known at first.
LEMMA WorkerInit == Init => WorkerInv
<1> SUFFICES ASSUME Init PROVE WorkerInv
    OBVIOUS
<1>1. EngineInv /\ CashInv
    BY EngineInit, CashInit
<1>2. ControlInv
    <2>1. Len(stream) = 0
        BY DEF Init
    <2>2. WorkerTypes
        BY <2>1, LimitsAssumption DEF Init, WorkerTypes, Statuses
    <2>3. BatchOK /\ TransactionOK /\ DoneOK /\ AckedApplied
        BY DEF Init, BatchOK, TransactionOK, DoneOK, AckedApplied, Busy, InTransaction
    <2> QED
        BY <2>2, <2>3 DEF ControlInv
<1>3. TableTypes
    BY LimitsAssumption DEF Init, TableTypes
<1>4. AppliedOK /\ RowsOK /\ PrefixOK /\ RefusalExplained
    BY DEF Init, AppliedOK, RowsOK, PrefixOK, RefusalExplained
<1>5. TablesOK
    <2>1. DOMAIN row = {} /\ settled = {}
        BY DEF Init
    <2>2. /\ \A u \in Users : cash[u] = Balance
          /\ \A u \in Users, e \in Events : shares[<<u, e>>] = 0
          /\ \A e \in Events : volume[e] = 0
          /\ ledger = {}
        BY DEF Init
    <2>3. {} = UNION {InsertTransaction(trades[id], id) : id \in {}}
        OBVIOUS
    <2> QED
        BY <2>1, <2>2, <2>3, SumNone, Zenon DEF TablesOK
<1> QED
    BY <1>1, <1>2, <1>3, <1>4, <1>5 DEF WorkerInv, TableInv

\* What the workers see of the engine: trades and events are added, orders stay
\* accepted.
EngineGrows ==
    /\ DOMAIN trades \subseteq DOMAIN trades'
    /\ \A id \in DOMAIN trades : trades'[id] = trades[id]
    /\ Len(stream) <= Len(stream')
    /\ \A i \in 1 .. Len(stream) : stream'[i] = stream[i]
    /\ \A o \in Orders : status[o] # "NONE" => status'[o] # "NONE"
    /\ overspent \subseteq overspent'
    /\ UNCHANGED <<groupVars, workerVars, stored, row, tradeTables, historyVars>>

\* Every step of the engine is like that.
LEMMA EngineStepGrows ==
    ASSUME EngineInv, EngineStep
    PROVE  EngineGrows
<1>1. /\ trades \in Seq(Trade) /\ stream \in Seq(OrderEvent \cup TradeEvent)
      /\ status \in [Orders -> Statuses \cup {"NONE"}]
    BY DEF EngineInv, EngineTypes
<1>2. \A s, x : s = Append(stream, x) => /\ Len(stream) <= Len(s)
                                         /\ \A i \in 1 .. Len(stream) : s[i] = stream[i]
    BY <1>1
<1>3. \A s, x : s = Append(trades, x) => /\ DOMAIN trades \subseteq DOMAIN s
                                         /\ \A i \in DOMAIN trades : s[i] = trades[i]
    BY <1>1
<1>4. Len(stream) <= Len(stream)
    BY <1>1
<1>5. ASSUME NEW o \in Orders, AcceptOrder(o) PROVE EngineGrows
    BY <1>1, <1>2, <1>5 DEF AcceptOrder, EngineGrows
<1>6. ASSUME NEW o \in Orders, CancelOrder(o) PROVE EngineGrows
    BY <1>1, <1>2, <1>6 DEF CancelOrder, ReleaseOrder, EngineGrows
<1>7. ASSUME NEW p \in Partitions, NEW m \in Orders, ExecutePair(p, m) PROVE EngineGrows
    <2>1. /\ \E x : trades' = Append(trades, x)
          /\ stream' = stream
          /\ UNCHANGED <<groupVars, workerVars, stored, row, tradeTables, historyVars>>
        BY <1>7, Zenon DEF ExecutePair
    <2>3. overspent \subseteq overspent'
        <3>1. PICK t : SettleTrade(t)
            BY <1>7, Zenon DEF ExecutePair
        <3> QED
            BY <3>1 DEF SettleTrade
    <2>2. \A o \in Orders : status[o] # "NONE" => status'[o] # "NONE"
        <3>1. PICK q : status' =
                  [status EXCEPT
                    ![taking[p]] = IF QuantityOf[taking[p]] - got[taking[p]] = q
                                   THEN "FILLED" ELSE "PARTIAL",
                    ![m] = IF QuantityOf[m] - got[m] = q THEN "FILLED" ELSE "PARTIAL"]
            BY <1>7 DEF ExecutePair
        <3> DEFINE x == taking[p]
                   a == IF QuantityOf[x] - got[x] = q THEN "FILLED" ELSE "PARTIAL"
                   b == IF QuantityOf[m] - got[m] = q THEN "FILLED" ELSE "PARTIAL"
        <3>2. a # "NONE" /\ b # "NONE" /\ status' = [status EXCEPT ![x] = a, ![m] = b]
            BY <3>1
        <3> HIDE DEF a, b, x
        <3> QED
            BY <1>1, <3>2
    <2> QED
        BY <1>3, <1>4, <2>1, <2>2, <2>3 DEF EngineGrows
<1>8. ASSUME NEW p \in Partitions, FinishMatch(p) PROVE EngineGrows
    BY <1>1, <1>4, <1>8 DEF FinishMatch, ReleaseOrder, cashVars, EngineGrows
<1>9. ASSUME NEW p \in Partitions, PublishTrade(p) PROVE EngineGrows
    BY <1>1, <1>2, <1>9 DEF PublishTrade, cashVars, EngineGrows
<1> QED
    BY <1>5, <1>6, <1>7, <1>8, <1>9 DEF EngineStep

\* Nothing that explains a refusal is taken back.
CausesKept ==
    /\ Len(stream) <= Len(stream') /\ \A i \in 1 .. Len(stream) : stream'[i] = stream[i]
    /\ \A id \in DOMAIN trades : trades'[id] = trades[id]
    /\ stored' \subseteq stored /\ overspent \subseteq overspent'

\* Explanations stay.
LEMMA CausesStay ==
    ASSUME EngineInv, EngineInv', CausesKept
    PROVE  /\ Overtaken => Overtaken'
           /\ \A i \in 1 .. Len(stream) :
                 (EventMissing(i) => EventMissing(i)') /\ (Unpayable(i) => Unpayable(i)')
<1>1. /\ Len(stream) \in Nat /\ Len(stream') \in Nat
      /\ DOMAIN stream = 1 .. Len(stream) /\ DOMAIN stream' = 1 .. Len(stream')
    BY DEF EngineInv, EngineTypes
<1>2. /\ Len(stream) <= Len(stream') /\ \A i \in 1 .. Len(stream) : stream'[i] = stream[i]
      /\ \A id \in DOMAIN trades : trades'[id] = trades[id]
      /\ stored' \subseteq stored /\ overspent \subseteq overspent'
    BY DEF CausesKept
<1>3. ASSUME Overtaken PROVE Overtaken'
    <2>1. PICK j \in 1 .. Len(stream) :
              /\ stream[j].type = "TRADE_EXECUTED"
              /\ \E id \in 1 .. stream[j].trade - 1 :
                    \A i \in 1 .. j - 1 : stream[i] # [type |-> "TRADE_EXECUTED", trade |-> id]
        BY <1>1, <1>3, Zenon DEF Overtaken
    <2>2. j \in DOMAIN stream' /\ stream'[j] = stream[j]
        BY <1>1, <1>2
    <2>3. \A i \in 1 .. j - 1 : stream'[i] = stream[i]
        BY <1>1, <1>2
    <2> QED
        BY <2>1, <2>2, <2>3 DEF Overtaken
<1>4. ASSUME NEW i \in 1 .. Len(stream)
      PROVE  (EventMissing(i) => EventMissing(i)') /\ (Unpayable(i) => Unpayable(i)')
    <2>1. stream'[i] = stream[i]
        BY <1>2
    <2>2. IsTrade(i) => trades'[stream[i].trade] = trades[stream[i].trade]
        BY <1>2, EntryTrade
    <2>3. \A u : Overspender(u) => Beyond(overspent', u)
        BY <1>2 DEF Overspender, Beyond
    <2>4. \A t : EventOfTrade(t) = EventOf[t.taker]
        BY DEF EventOfTrade
    <2>5. EventMissing(i) => EventMissing(i)'
        BY <1>2, <2>1, <2>2 DEF EventMissing, IsTrade, EventOfTrade
    <2>6. Unpayable(i) => Unpayable(i)'
        <3> SUFFICES ASSUME Unpayable(i) PROVE Unpayable(i)'
            OBVIOUS
        <3>1. stream[i].type = "TRADE_EXECUTED" /\ Overspender(Buyer(trades[stream[i].trade]))
            BY DEF Unpayable
        <3>2. Beyond(overspent', Buyer(trades'[stream'[i].trade]))
            BY <2>1, <2>2, <2>3, <3>1 DEF IsTrade
        <3> QED
            BY <2>1, <3>1, <3>2 DEF Unpayable, Overspender, Beyond, Buyer
    <2> QED
        BY <2>5, <2>6
<1> QED
    BY <1>3, <1>4

\* Explanations depend on nothing else.
LEMMA CausesSame ==
    ASSUME UNCHANGED <<stream, trades, stored, overspent>>
    PROVE  /\ Overtaken' <=> Overtaken
           /\ \A i : (EventMissing(i)' <=> EventMissing(i)) /\ (Unpayable(i)' <=> Unpayable(i))
    BY DEF Overtaken, EventMissing, Unpayable, Overspender

\* The engine does not disturb the workers' invariant.
LEMMA GrowthOK ==
    ASSUME WorkerInv, EngineInv', EngineGrows
    PROVE  ControlInv' /\ TableInv'
<1>1. /\ DOMAIN trades \subseteq DOMAIN trades'
      /\ \A id \in DOMAIN trades : trades'[id] = trades[id]
      /\ Len(stream) <= Len(stream') /\ Len(stream) \in Nat /\ Len(stream') \in Nat
      /\ \A i \in 1 .. Len(stream) : stream'[i] = stream[i] /\ i \in 1 .. Len(stream')
      /\ \A o \in Orders : status[o] # "NONE" => status'[o] # "NONE"
    <2>1. Len(stream) \in Nat /\ Len(stream') \in Nat
        BY DEF WorkerInv, EngineInv, EngineTypes
    <2> QED
        BY <2>1 DEF EngineGrows
<1>2. /\ UNCHANGED <<cursor, pending, pc, batch, seen, stored, row, settled, cash, shares>>
      /\ UNCHANGED <<ledger, volume>>
      /\ UNCHANGED <<applied, refused, ordered, fails>>
    BY DEF EngineGrows, groupVars, workerVars, tradeTables, historyVars
<1>3. \A i \in 1 .. Len(stream) :
          /\ IsTrade(i)' <=> IsTrade(i)
          /\ \A o : (IsCreate(i, o)' <=> IsCreate(i, o)) /\ (IsCancel(i, o)' <=> IsCancel(i, o))
    BY <1>1 DEF IsTrade, IsCreate, IsCancel
<1>4. \A t : KeysExist(t)' <=> KeysExist(t)
    BY <1>2 DEF KeysExist
<1>5. ControlInv'
    <2>1. WorkerTypes'
        BY <1>1, <1>2 DEF WorkerInv, ControlInv, WorkerTypes
    <2>2. BatchOK'
        BY <1>2 DEF WorkerInv, ControlInv, BatchOK, Busy
    <2>3. DoneOK' /\ AckedApplied'
        BY <1>2 DEF WorkerInv, ControlInv, DoneOK, AckedApplied, Current
    <2>4. ASSUME NEW w \in Workers, InTransaction(w)
          PROVE  /\ Current(w)' = Current(w) /\ Current(w) \in 1 .. Len(stream)
                 /\ CurrentEvent(w)' = CurrentEvent(w) /\ IsTrade(Current(w))
                 /\ CurrentEvent(w).trade \in DOMAIN trades
                 /\ CurrentTrade(w)' = CurrentTrade(w)
        <3>1. Current(w)' = Current(w)
            BY <1>2 DEF Current
        <3>2. Current(w) \in 1 .. Len(stream)
            BY <2>4, CurrentIs DEF WorkerInv, EngineInv, ControlInv, BatchOK, Busy, InTransaction
        <3>3. CurrentEvent(w)' = CurrentEvent(w)
            BY <1>1, <3>1, <3>2 DEF CurrentEvent
        <3>4. IsTrade(Current(w))
            BY <2>4 DEF WorkerInv, ControlInv, TransactionOK
        <3>5. CurrentEvent(w).trade \in DOMAIN trades
            BY <3>2, <3>4, EntryTrade DEF WorkerInv, CurrentEvent
        <3> QED
            BY <1>1, <3>1, <3>2, <3>3, <3>4, <3>5 DEF CurrentTrade
    <2>5. \A w \in Workers : InTransaction(w)' <=> InTransaction(w)
        BY <1>2 DEF InTransaction
    <2>6. TransactionOK'
        <3> SUFFICES ASSUME NEW w \in Workers, InTransaction(w)
                     PROVE  /\ IsTrade(Current(w))' /\ (CurrentEvent(w).trade \notin settled)'
                            /\ KeysExist(CurrentTrade(w))'
                            /\ \A v \in Workers : v # w /\ InTransaction(v) =>
                                  (CurrentEvent(v).trade # CurrentEvent(w).trade)'
            BY <2>5 DEF TransactionOK
        <3>1. IsTrade(Current(w))'
            BY <1>1, <2>4 DEF IsTrade
        <3>2. KeysExist(CurrentTrade(w))'
            BY <1>2, <2>4 DEF WorkerInv, ControlInv, TransactionOK, KeysExist
        <3> QED
            BY <1>2, <2>4, <3>1, <3>2 DEF WorkerInv, ControlInv, TransactionOK
    <2> QED
        BY <2>1, <2>2, <2>3, <2>6 DEF ControlInv
<1>6. TableTypes'
    BY <1>1, <1>2 DEF WorkerInv, TableInv, TableTypes
<1>7. /\ \A o \in DOMAIN row : o \in Orders
      /\ \A id \in settled : id \in DOMAIN trades
      /\ \A i \in applied : i \in 1 .. Len(stream)
    BY DEF WorkerInv, ControlInv, WorkerTypes, TableInv, TableTypes
<1>8. RowsOK'
    <2>1. \A o \in DOMAIN row : status'[o] # "NONE" /\ EventOf[o] \in stored
        BY <1>1, <1>7 DEF WorkerInv, TableInv, RowsOK
    <2>2. ASSUME NEW id \in settled
          PROVE  /\ KeysExist(trades'[id])
                 /\ \E i \in 1 .. Len(stream') : IsTrade(i)' /\ stream'[i].trade = id
        BY <1>1, <1>3, <1>7 DEF WorkerInv, TableInv, RowsOK
    <2> QED
        BY <1>2, <2>1, <2>2 DEF RowsOK, KeysExist
<1>9. AppliedOK'
    <2> SUFFICES ASSUME NEW i \in 1 .. Len(stream')
                 PROVE  /\ IsTrade(i)' => (i \in applied <=> stream'[i].trade \in settled)
                        /\ \A o \in Orders : IsCreate(i, o)' /\ i \in applied /\ EventOf[o] \in stored
                                                => o \in DOMAIN row
        BY <1>2 DEF AppliedOK
    <2>1. CASE i \in 1 .. Len(stream)
        BY <1>1, <1>3, <2>1 DEF WorkerInv, TableInv, AppliedOK
    <2>2. CASE i \notin 1 .. Len(stream)
        <3>1. i \notin applied
            BY <1>7, <2>2
        <3>2. ASSUME IsTrade(i)', stream'[i].trade \in settled PROVE FALSE
            <4>1. PICK k \in 1 .. Len(stream) : IsTrade(k) /\ stream[k].trade = stream'[i].trade
                BY <3>2 DEF WorkerInv, TableInv, RowsOK
            <4>2. k \in 1 .. Len(stream') /\ IsTrade(k)' /\ stream'[k].trade = stream'[i].trade
                BY <1>1, <1>3, <4>1
            <4>3. k = i
                BY <3>2, <4>2 DEF EngineInv, OnceOK
            <4> QED
                BY <2>2, <4>1, <4>3
        <3> QED
            BY <3>1, <3>2
    <2> QED
        BY <2>1, <2>2
<1>10. TablesOK'
    <2>1. Keeps(trades, trades', settled)
        BY <1>1, <1>7 DEF Keeps, WorkerInv, EngineInv, EngineTypes
    <2>2. /\ \A o \in DOMAIN row : row[o].filled = Filled(trades', settled, o)
          /\ \A u \in Users : cash[u] = Worth(trades', settled, u)
          /\ \A u \in Users, e \in Events : shares[<<u, e>>] = Position(trades', settled, u, e)
          /\ \A e \in Events : volume[e] = Turnover(trades', settled, e)
        <3>1. /\ \A o : Filled(trades', settled, o) = Filled(trades, settled, o)
              /\ \A u : Worth(trades', settled, u) = Worth(trades, settled, u)
              /\ \A u, e : Position(trades', settled, u, e) = Position(trades, settled, u, e)
              /\ \A e : Turnover(trades', settled, e) = Turnover(trades, settled, e)
            BY <2>1, SumsKept
        <3> QED
            BY <3>1 DEF WorkerInv, TableInv, TablesOK
    <2>3. ledger = UNION {InsertTransaction(trades'[id], id) : id \in settled}
        <3>1. {InsertTransaction(trades'[id], id) : id \in settled}
                = {InsertTransaction(trades[id], id) : id \in settled}
            BY <1>1, <1>7
        <3>2. ledger = UNION {InsertTransaction(trades[id], id) : id \in settled}
            BY DEF WorkerInv, TableInv, TablesOK
        <3> QED
            BY <3>1, <3>2, Zenon
    <2> QED
        BY <1>2, <2>2, <2>3 DEF TablesOK
<1>11. PrefixOK'
    BY <1>2 DEF WorkerInv, TableInv, PrefixOK
<1>12. RefusalExplained'
    <2>1. CausesKept
        BY <1>1, <1>2 DEF CausesKept, EngineGrows
    <2>2. \A i \in refused : i \in 1 .. Len(stream)
        BY DEF WorkerInv, ControlInv, WorkerTypes, TableInv, TableTypes
    <2> QED
        BY <1>2, <2>1, <2>2, CausesStay DEF WorkerInv, TableInv, RefusalExplained
<1>13. TableInv'
    BY <1>6, <1>8, <1>9, <1>10, <1>11, <1>12 DEF TableInv
<1> QED
    BY <1>5, <1>13

\* A step that adds no effects to Postgres.
LEMMA TableElse ==
    ASSUME TableInv,
           UNCHANGED <<engineVars, stream, stored, row, tradeTables, applied, refused, ordered>>,
           1 .. cursor \subseteq 1 .. cursor'
    PROVE  TableInv'
<1>1. /\ UNCHANGED <<status, trades, stream, stored, row, settled, cash, shares, ledger, volume>>
      /\ UNCHANGED <<applied, refused, ordered, overspent>>
    BY DEF engineVars, cashVars, tradeTables
<1>2. TableTypes'
    BY <1>1 DEF TableInv, TableTypes
<1>3. AppliedOK' /\ RowsOK' /\ PrefixOK'
    BY <1>1 DEF TableInv, AppliedOK, RowsOK, PrefixOK, KeysExist, IsTrade, IsCreate
<1>4. TablesOK'
    BY <1>1 DEF TableInv, TablesOK
<1>5. RefusalExplained'
    BY <1>1, CausesSame DEF TableInv, RefusalExplained
<1> QED
    BY <1>2, <1>3, <1>4, <1>5 DEF TableInv

\* The other workers, and rows, applied entries and settled trades, as far as a
\* step of worker w may change them.
OthersKeep(w) ==
    /\ UNCHANGED <<engineVars, stream>>
    /\ \A v \in Workers : v # w => pc'[v] = pc[v] /\ batch'[v] = batch[v]
    /\ DOMAIN row \subseteq DOMAIN row'
    /\ applied \subseteq applied'
    /\ \A v \in Workers : v # w /\ InTransaction(v) => CurrentEvent(v).trade \notin settled'

\* What worker w has to see to that its transaction is one.
Opens(w) ==
    /\ batch'[w] = batch[w] /\ settled' = settled
    /\ IsTrade(Current(w))
    /\ CurrentEvent(w).trade \notin settled
    /\ KeysExist(CurrentTrade(w))
    /\ \A v \in Workers : v # w /\ InTransaction(v) =>
          CurrentEvent(v).trade # CurrentEvent(w).trade

\* What a step of w has to establish.
LEMMA ControlStep ==
    ASSUME WorkerInv, NEW w \in Workers, OthersKeep(w),
           WorkerTypes', AckedApplied',
           pc'[w] \notin {"down", "read"} => batch'[w] # {},
           pc'[w] = "ack" => batch'[w] = batch[w] /\ Current(w) \in applied',
           pc'[w] \in {"taker", "maker"} => Opens(w)
    PROVE  ControlInv'
<1>1. /\ UNCHANGED <<trades, stream>>
      /\ \A v \in Workers : v # w => pc'[v] = pc[v] /\ batch'[v] = batch[v]
      /\ DOMAIN row \subseteq DOMAIN row' /\ applied \subseteq applied'
    BY DEF OthersKeep, engineVars
<1>2. ASSUME NEW v \in Workers, batch'[v] = batch[v]
      PROVE  /\ Current(v)' = Current(v) /\ CurrentEvent(v)' = CurrentEvent(v)
             /\ CurrentTrade(v)' = CurrentTrade(v)
             /\ IsTrade(Current(v))' <=> IsTrade(Current(v))
             /\ KeysExist(CurrentTrade(v)) => KeysExist(CurrentTrade(v))'
    <2>1. Current(v)' = Current(v)
        BY <1>2 DEF Current
    <2>2. CurrentEvent(v)' = CurrentEvent(v)
        BY <1>1, <2>1 DEF CurrentEvent
    <2>3. CurrentTrade(v)' = CurrentTrade(v)
        BY <1>1, <2>2 DEF CurrentTrade
    <2>4. IsTrade(Current(v))' <=> IsTrade(Current(v))
        BY <1>1, <2>1 DEF IsTrade
    <2>5. KeysExist(CurrentTrade(v)) => KeysExist(CurrentTrade(v))'
        BY <1>1, <2>3 DEF KeysExist
    <2> QED
        BY <2>1, <2>2, <2>3, <2>4, <2>5
<1>3. BatchOK'
    BY <1>1 DEF WorkerInv, ControlInv, BatchOK, Busy
<1>4. DoneOK'
    <2> SUFFICES ASSUME NEW v \in Workers, pc'[v] = "ack" PROVE Current(v)' \in applied'
        BY DEF DoneOK
    <2>1. CASE v = w
        BY <1>2, <2>1
    <2>2. CASE v # w
        BY <1>1, <1>2, <2>2 DEF WorkerInv, ControlInv, DoneOK
    <2> QED
        BY <2>1, <2>2
<1>5. /\ \A v \in Workers : v # w => (InTransaction(v)' <=> InTransaction(v))
      /\ InTransaction(w)' => Opens(w)
    BY <1>1 DEF InTransaction
<1>6. TransactionOK'
    <2> SUFFICES ASSUME NEW x \in Workers, InTransaction(x)'
                 PROVE  /\ IsTrade(Current(x))'
                        /\ CurrentEvent(x)'.trade \notin settled'
                        /\ KeysExist(CurrentTrade(x))'
                        /\ \A v \in Workers : v # x /\ InTransaction(v)' =>
                              CurrentEvent(v)'.trade # CurrentEvent(x)'.trade
        BY DEF TransactionOK
    <2>1. batch'[x] = batch[x]
        BY <1>1, <1>5 DEF Opens
    <2>2. \A v \in Workers : InTransaction(v)' => CurrentEvent(v)' = CurrentEvent(v)
        BY <1>1, <1>2, <1>5 DEF Opens
    <2>3. CASE x = w
        <3>1. Opens(w)
            BY <1>5, <2>3
        <3>2. /\ IsTrade(Current(w)) /\ CurrentEvent(w).trade \notin settled'
              /\ KeysExist(CurrentTrade(w))
              /\ \A v \in Workers : v # w /\ InTransaction(v) =>
                    CurrentEvent(v).trade # CurrentEvent(w).trade
            BY <3>1 DEF Opens
        <3> QED
            BY <1>2, <1>5, <2>1, <2>2, <2>3, <3>2
    <2>4. CASE x # w
        <3>1. InTransaction(x)
            BY <1>5, <2>4
        <3>2. /\ IsTrade(Current(x)) /\ KeysExist(CurrentTrade(x))
              /\ \A v \in Workers : v # x /\ InTransaction(v) =>
                    CurrentEvent(v).trade # CurrentEvent(x).trade
            BY <3>1 DEF WorkerInv, ControlInv, TransactionOK
        <3>3. CurrentEvent(x).trade \notin settled'
            BY <2>4, <3>1 DEF OthersKeep
        <3>4. InTransaction(w)' => CurrentEvent(w).trade # CurrentEvent(x).trade
            BY <1>5, <2>4, <3>1 DEF Opens
        <3>5. ASSUME NEW v \in Workers, v # x, InTransaction(v)'
              PROVE  CurrentEvent(v)'.trade # CurrentEvent(x)'.trade
            <4>1. CASE v = w
                BY <2>2, <3>4, <3>5, <4>1
            <4>2. CASE v # w
                BY <1>5, <2>2, <3>2, <3>5, <4>2
            <4> QED
                BY <4>1, <4>2
        <3> QED
            BY <1>2, <2>1, <2>2, <3>2, <3>3, <3>5
    <2> QED
        BY <2>3, <2>4
<1> QED
    BY <1>3, <1>4, <1>6 DEF ControlInv

\* Facts about a busy worker and its entry.
LEMMA BusyFacts ==
    ASSUME WorkerInv, NEW w \in Workers, pc[w] \notin {"down", "read"}
    PROVE  /\ batch[w] # {} /\ Current(w) \in batch[w]
           /\ Current(w) \in 1 .. cursor /\ Current(w) \in 1 .. Len(stream) /\ Current(w) \in Nat
           /\ CurrentEvent(w) = stream[Current(w)]
    BY CurrentIs DEF WorkerInv, EngineInv, ControlInv, BatchOK, Busy, CurrentEvent

\* A step of w that leaves Postgres and the group's cursor alone.
LEMMA QuietStep ==
    ASSUME WorkerInv, NEW w \in Workers,
           UNCHANGED <<engineVars, stream, stored, row, tradeTables, applied, refused, ordered>>,
           cursor' \in cursor .. Len(stream),
           NEW ph \in {"down", "read", "handle", "taker", "maker", "ack"},
           pc' = [pc EXCEPT ![w] = ph],
           NEW b \in SUBSET (1 .. cursor'), batch' = [batch EXCEPT ![w] = b],
           ph \notin {"down", "read"} => b # {},
           ph = "ack" => b = batch[w] /\ Current(w) \in applied,
           ph \in {"taker", "maker"} => b = batch[w] /\ Opens(w),
           pending' \subseteq 1 .. cursor',
           seen' \in [Workers -> [taker : Statuses, maker : Statuses]],
           fails' \in 0 .. MaxFails,
           AckedApplied'
    PROVE  ControlInv' /\ TableInv'
<1>1. /\ cursor \in 0 .. Len(stream) /\ Len(stream) \in Nat
      /\ pc \in [Workers -> {"down", "read", "handle", "taker", "maker", "ack"}]
      /\ batch \in [Workers -> SUBSET (1 .. cursor)]
    BY DEF WorkerInv, ControlInv, WorkerTypes, EngineInv, EngineTypes
<1>2. 1 .. cursor \subseteq 1 .. cursor' /\ cursor' \in 0 .. Len(stream)
    BY <1>1
<1>3. TableInv'
    BY <1>2, TableElse DEF WorkerInv
<1>4. WorkerTypes'
    <2>1. batch' \in [Workers -> SUBSET (1 .. cursor')]
        BY <1>1, <1>2
    <2> QED
        BY <1>1, <1>2, <2>1 DEF WorkerTypes
<1>5. /\ pc'[w] = ph /\ batch'[w] = b
      /\ \A v \in Workers : v # w => pc'[v] = pc[v] /\ batch'[v] = batch[v]
    BY <1>1
<1>6. OthersKeep(w)
    BY <1>5 DEF OthersKeep, tradeTables, WorkerInv, ControlInv, TransactionOK
<1>7. ControlInv'
    BY <1>4, <1>5, <1>6, ControlStep
<1> QED
    BY <1>3, <1>7

\* A consumer starts with whatever it claims.
LEMMA StartOK ==
    ASSUME WorkerInv, NEW w \in Workers, Start(w)
    PROVE  ControlInv' /\ TableInv'
<1>1. PICK idle \in SUBSET pending :
          /\ batch' = [batch EXCEPT ![w] = idle]
          /\ pc' = [pc EXCEPT ![w] = IF idle = {} THEN "read" ELSE "handle"]
    BY DEF Start
<1>2. /\ UNCHANGED <<engineVars, stream, stored, row, tradeTables, applied, refused, ordered>>
      /\ UNCHANGED <<cursor, pending, seen, fails>>
    BY DEF Start, groupVars, historyVars
<1>3. /\ cursor \in 0 .. Len(stream) /\ Len(stream) \in Nat /\ pending \subseteq 1 .. cursor
      /\ seen \in [Workers -> [taker : Statuses, maker : Statuses]] /\ fails \in 0 .. MaxFails
      /\ AckedApplied
    BY DEF WorkerInv, ControlInv, WorkerTypes, EngineInv, EngineTypes
<1>4. AckedApplied'
    BY <1>2, <1>3 DEF AckedApplied
<1> DEFINE ph == IF idle = {} THEN "read" ELSE "handle"
<1>5. ph \in {"read", "handle"} /\ (ph = "handle" => idle # {}) /\ pc' = [pc EXCEPT ![w] = ph]
    BY <1>1
<1>6. idle \in SUBSET (1 .. cursor') /\ cursor' \in cursor .. Len(stream)
    BY <1>2, <1>3
<1> HIDE DEF ph
<1> QED
    BY <1>1, <1>2, <1>3, <1>4, <1>5, <1>6, QuietStep

\* New entries become pending.
LEMMA ReadOK ==
    ASSUME WorkerInv, NEW w \in Workers, Read(w)
    PROVE  ControlInv' /\ TableInv'
<1>1. PICK n \in 1 .. BatchSize :
          /\ cursor + n <= Len(stream)
          /\ batch' = [batch EXCEPT ![w] = cursor + 1 .. cursor + n]
          /\ pending' = pending \cup (cursor + 1 .. cursor + n)
          /\ cursor' = cursor + n
    BY DEF Read
<1>2. /\ UNCHANGED <<engineVars, stream, stored, row, tradeTables, applied, refused, ordered>>
      /\ UNCHANGED <<seen, fails>>
      /\ pc' = [pc EXCEPT ![w] = "handle"]
    BY DEF Read, historyVars
<1>3. /\ cursor \in 0 .. Len(stream) /\ Len(stream) \in Nat /\ pending \subseteq 1 .. cursor
      /\ seen \in [Workers -> [taker : Statuses, maker : Statuses]] /\ fails \in 0 .. MaxFails
      /\ AckedApplied
    BY DEF WorkerInv, ControlInv, WorkerTypes, EngineInv, EngineTypes
<1> DEFINE b == cursor + 1 .. cursor + n
<1>4. n \in Nat /\ n > 0
    BY <1>1, LimitsAssumption
<1>5. /\ b \in SUBSET (1 .. cursor') /\ b # {} /\ cursor' \in cursor .. Len(stream)
      /\ pending' \subseteq 1 .. cursor'
      /\ \A i \in 1 .. cursor' : i \in 1 .. cursor \/ i \in b
    <2>1. cursor + 1 \in b
        BY <1>3, <1>4
    <2> QED
        BY <1>1, <1>3, <1>4, <2>1
<1>6. AckedApplied'
    BY <1>1, <1>2, <1>3, <1>5 DEF AckedApplied
<1>7. batch' = [batch EXCEPT ![w] = b]
    BY <1>1
<1> HIDE DEF b
<1> QED
    BY <1>2, <1>3, <1>5, <1>6, <1>7, QuietStep

\* An entry is acknowledged after its effects are in Postgres.
LEMMA AckOK ==
    ASSUME WorkerInv, NEW w \in Workers, Ack(w)
    PROVE  ControlInv' /\ TableInv'
<1> DEFINE b == batch[w] \ {Current(w)}
           ph == IF batch[w] = {Current(w)} THEN "read" ELSE "handle"
<1>1. /\ pc[w] = "ack" /\ pending' = pending \ {Current(w)}
      /\ batch' = [batch EXCEPT ![w] = b]
      /\ pc' = [pc EXCEPT ![w] = ph]
      /\ UNCHANGED <<engineVars, stream, stored, row, tradeTables, applied, refused, ordered>>
      /\ UNCHANGED <<cursor, seen, fails>>
    BY DEF Ack, historyVars
<1>2. /\ cursor \in 0 .. Len(stream) /\ Len(stream) \in Nat /\ pending \subseteq 1 .. cursor
      /\ seen \in [Workers -> [taker : Statuses, maker : Statuses]] /\ fails \in 0 .. MaxFails
      /\ batch[w] \in SUBSET (1 .. cursor)
      /\ AckedApplied
    BY DEF WorkerInv, ControlInv, WorkerTypes, EngineInv, EngineTypes
<1>3. Current(w) \in applied
    BY <1>1 DEF WorkerInv, ControlInv, DoneOK
<1>4. AckedApplied'
    BY <1>1, <1>2, <1>3 DEF AckedApplied
<1>5. batch[w] # {} /\ Current(w) \in batch[w]
    BY <1>1, BusyFacts
<1>6. ph \in {"read", "handle"} /\ (ph = "handle" => b # {})
    BY <1>5
<1>7. b \in SUBSET (1 .. cursor') /\ cursor' \in cursor .. Len(stream) /\ pending' \subseteq 1 .. cursor'
    <2>1. cursor' = cursor /\ cursor \in cursor .. Len(stream)
        BY <1>1, <1>2
    <2>2. b \subseteq batch[w] /\ pending' \subseteq pending
        BY <1>1
    <2> HIDE DEF b
    <2> QED
        BY <1>2, <2>1, <2>2
<1> HIDE DEF b, ph
<1> QED
    BY <1>1, <1>2, <1>4, <1>6, <1>7, QuietStep

\* A worker ends and its transaction is rolled back.
LEMMA WorkerFailsOK ==
    ASSUME WorkerInv, NEW w \in Workers, WorkerFails(w)
    PROVE  ControlInv' /\ TableInv'
<1>1. /\ pc' = [pc EXCEPT ![w] = "down"] /\ batch' = [batch EXCEPT ![w] = {}]
      /\ UNCHANGED <<engineVars, stream, stored, row, tradeTables, applied, refused, ordered>>
      /\ UNCHANGED <<cursor, pending, seen>>
      /\ fails < MaxFails /\ fails' = fails + 1
    BY DEF WorkerFails, End, groupVars
<1>2. /\ cursor \in 0 .. Len(stream) /\ Len(stream) \in Nat /\ pending \subseteq 1 .. cursor
      /\ seen \in [Workers -> [taker : Statuses, maker : Statuses]] /\ fails \in 0 .. MaxFails
      /\ AckedApplied
    BY DEF WorkerInv, ControlInv, WorkerTypes, EngineInv, EngineTypes
<1>3. AckedApplied'
    BY <1>1, <1>2 DEF AckedApplied
<1>4. {} \in SUBSET (1 .. cursor') /\ cursor' \in cursor .. Len(stream)
      /\ fails' \in 0 .. MaxFails
    BY <1>1, <1>2, LimitsAssumption
<1> DEFINE b == {}
<1>5. b \in SUBSET (1 .. cursor') /\ batch' = [batch EXCEPT ![w] = b]
    BY <1>1
<1> HIDE DEF b
<1> QED
    BY <1>1, <1>2, <1>3, <1>4, <1>5, QuietStep

\* The statuses that are read are statuses.
LEMMA SeenTypes ==
    ASSUME WorkerInv, NEW w \in Workers, NEW o, NEW q
    PROVE  /\ [seen EXCEPT ![w].taker = FillStatus(o, q)]
                \in [Workers -> [taker : Statuses, maker : Statuses]]
           /\ [seen EXCEPT ![w].maker = FillStatus(o, q)]
                \in [Workers -> [taker : Statuses, maker : Statuses]]
<1>1. FillStatus(o, q) \in Statuses
    BY DEF FillStatus, Statuses
<1>2. seen \in [Workers -> [taker : Statuses, maker : Statuses]]
    BY DEF WorkerInv, ControlInv, WorkerTypes
<1> HIDE DEF FillStatus
<1> QED
    BY <1>1, <1>2

\* A transaction is opened for a trade that nobody has settled or is settling.
LEMMA InsertTradeOK ==
    ASSUME WorkerInv, NEW w \in Workers, InsertTrade(w)
    PROVE  ControlInv' /\ TableInv'
<1>1. /\ pc[w] = "handle" /\ CurrentEvent(w).type = "TRADE_EXECUTED"
      /\ \A v \in Workers \ {w} :
            pc[v] \in {"taker", "maker"} => CurrentEvent(v).trade # CurrentEvent(w).trade
      /\ CurrentEvent(w).trade \notin settled /\ KeysExist(CurrentTrade(w))
      /\ pc' = [pc EXCEPT ![w] = "taker"]
      /\ seen' = [seen EXCEPT ![w].taker = FillStatus(CurrentTrade(w).taker, CurrentTrade(w).quantity)]
      /\ UNCHANGED <<engineVars, stream, stored, row, tradeTables, applied, refused, ordered>>
      /\ UNCHANGED <<cursor, pending, batch, fails>>
    BY DEF InsertTrade, Handling, groupVars, historyVars
<1>2. /\ cursor \in 0 .. Len(stream) /\ Len(stream) \in Nat /\ pending \subseteq 1 .. cursor
      /\ fails \in 0 .. MaxFails /\ batch \in [Workers -> SUBSET (1 .. cursor)]
      /\ AckedApplied
    BY DEF WorkerInv, ControlInv, WorkerTypes, EngineInv, EngineTypes
<1>3. AckedApplied'
    BY <1>1, <1>2 DEF AckedApplied
<1>4. batch[w] # {} /\ IsTrade(Current(w))
    BY <1>1, BusyFacts DEF IsTrade
<1>5. Opens(w)
    BY <1>1, <1>4 DEF Opens, tradeTables, InTransaction
<1>6. seen' \in [Workers -> [taker : Statuses, maker : Statuses]]
    BY <1>1, SeenTypes
<1>7. /\ batch[w] \in SUBSET (1 .. cursor') /\ batch' = [batch EXCEPT ![w] = batch[w]]
      /\ cursor' \in cursor .. Len(stream) /\ pending' \subseteq 1 .. cursor'
      /\ fails' \in 0 .. MaxFails
    BY <1>1, <1>2
<1> QED
    BY <1>1, <1>3, <1>4, <1>5, <1>6, <1>7, QuietStep

\* A redelivered trade is acknowledged.
LEMMA TradeKnownOK ==
    ASSUME WorkerInv, NEW w \in Workers, TradeKnown(w)
    PROVE  ControlInv' /\ TableInv'
<1>1. /\ pc[w] = "handle" /\ CurrentEvent(w).type = "TRADE_EXECUTED"
      /\ CurrentEvent(w).trade \in settled
      /\ pc' = [pc EXCEPT ![w] = "ack"]
      /\ UNCHANGED <<engineVars, stream, stored, row, tradeTables, applied, refused, ordered>>
      /\ UNCHANGED <<cursor, pending, batch, seen, fails>>
    BY DEF TradeKnown, Handling, Goto, groupVars, historyVars
<1>2. /\ cursor \in 0 .. Len(stream) /\ Len(stream) \in Nat /\ pending \subseteq 1 .. cursor
      /\ seen \in [Workers -> [taker : Statuses, maker : Statuses]]
      /\ fails \in 0 .. MaxFails /\ batch \in [Workers -> SUBSET (1 .. cursor)]
      /\ AckedApplied
    BY DEF WorkerInv, ControlInv, WorkerTypes, EngineInv, EngineTypes
<1>3. AckedApplied'
    BY <1>1, <1>2 DEF AckedApplied
<1>4. batch[w] # {} /\ Current(w) \in 1 .. Len(stream) /\ CurrentEvent(w) = stream[Current(w)]
    BY <1>1, BusyFacts
<1>5. Current(w) \in applied
    BY <1>1, <1>4 DEF WorkerInv, TableInv, AppliedOK, IsTrade
<1>7. /\ batch[w] \in SUBSET (1 .. cursor') /\ batch' = [batch EXCEPT ![w] = batch[w]]
      /\ cursor' \in cursor .. Len(stream) /\ pending' \subseteq 1 .. cursor'
      /\ fails' \in 0 .. MaxFails
    BY <1>1, <1>2
<1> QED
    BY <1>1, <1>2, <1>3, <1>4, <1>5, <1>7, QuietStep

\* The transaction goes on.
LEMMA FillTakerOK ==
    ASSUME WorkerInv, NEW w \in Workers, FillTaker(w)
    PROVE  ControlInv' /\ TableInv'
<1>1. /\ pc[w] = "taker"
      /\ pc' = [pc EXCEPT ![w] = "maker"]
      /\ seen' = [seen EXCEPT ![w].maker = FillStatus(CurrentTrade(w).maker, CurrentTrade(w).quantity)]
      /\ UNCHANGED <<engineVars, stream, stored, row, tradeTables, applied, refused, ordered>>
      /\ UNCHANGED <<cursor, pending, batch, fails>>
    BY DEF FillTaker, groupVars, historyVars
<1>2. /\ cursor \in 0 .. Len(stream) /\ Len(stream) \in Nat /\ pending \subseteq 1 .. cursor
      /\ fails \in 0 .. MaxFails /\ batch \in [Workers -> SUBSET (1 .. cursor)]
      /\ AckedApplied
    BY DEF WorkerInv, ControlInv, WorkerTypes, EngineInv, EngineTypes
<1>3. AckedApplied'
    BY <1>1, <1>2 DEF AckedApplied
<1>4. batch[w] # {}
    BY <1>1, BusyFacts
<1>5. Opens(w)
    BY <1>1 DEF Opens, tradeTables, InTransaction, WorkerInv, ControlInv, TransactionOK
<1>6. seen' \in [Workers -> [taker : Statuses, maker : Statuses]]
    BY <1>1, SeenTypes
<1>7. /\ batch[w] \in SUBSET (1 .. cursor') /\ batch' = [batch EXCEPT ![w] = batch[w]]
      /\ cursor' \in cursor .. Len(stream) /\ pending' \subseteq 1 .. cursor'
      /\ fails' \in 0 .. MaxFails
    BY <1>1, <1>2
<1> QED
    BY <1>1, <1>3, <1>4, <1>5, <1>6, <1>7, QuietStep

\* A refusal that can be explained changes nothing but the history.
LEMMA RefuseOK ==
    ASSUME WorkerInv, NEW w \in Workers, pc[w] \notin {"down", "read"}, Refuse(w),
           \/ EventMissing(Current(w)) \/ Unpayable(Current(w))
           \/ ~(ordered /\ InTurn(w)) \/ Overtaken
    PROVE  ControlInv' /\ TableInv'
<1>1. /\ refused' = refused \cup {Current(w)} /\ ordered' = (ordered /\ InTurn(w))
      /\ pc' = [pc EXCEPT ![w] = "down"] /\ batch' = [batch EXCEPT ![w] = {}]
      /\ UNCHANGED <<engineVars, stream, stored, row, tradeTables, applied>>
      /\ UNCHANGED <<cursor, pending, seen, fails>>
    BY DEF Refuse, End, groupVars
<1>2. /\ UNCHANGED <<status, trades, stream, row, settled, cash, shares, ledger, volume, applied>>
      /\ UNCHANGED <<stored, overspent>>
    BY <1>1 DEF engineVars, cashVars, tradeTables
<1>3. Current(w) \in 1 .. cursor
    BY BusyFacts
<1>4. (ordered' => ordered) /\ ordered' \in BOOLEAN
    BY <1>1 DEF WorkerInv, TableInv, TableTypes
<1>5. TableInv'
    <2>1. TableTypes'
        BY <1>1, <1>2, <1>3, <1>4 DEF WorkerInv, TableInv, TableTypes
    <2>2. AppliedOK' /\ RowsOK'
        BY <1>2 DEF WorkerInv, TableInv, AppliedOK, RowsOK, KeysExist, IsTrade, IsCreate
    <2>3. PrefixOK'
        BY <1>2, <1>4 DEF WorkerInv, TableInv, PrefixOK
    <2>4. TablesOK'
        BY <1>2 DEF WorkerInv, TableInv, TablesOK
    <2>5. RefusalExplained'
        <3>1. /\ Overtaken' <=> Overtaken
              /\ \A i : (EventMissing(i)' <=> EventMissing(i)) /\ (Unpayable(i)' <=> Unpayable(i))
            BY <1>2, CausesSame
        <3>2. \A i \in refused : EventMissing(i) \/ Unpayable(i) \/ ~ordered \/ Overtaken
            BY DEF WorkerInv, TableInv, RefusalExplained
        <3> QED
            BY <1>1, <1>4, <3>1, <3>2 DEF RefusalExplained
    <2> QED
        BY <2>1, <2>2, <2>3, <2>4, <2>5 DEF TableInv
<1>6. /\ cursor \in 0 .. Len(stream) /\ Len(stream) \in Nat /\ pending \subseteq 1 .. cursor
      /\ pc \in [Workers -> {"down", "read", "handle", "taker", "maker", "ack"}]
      /\ batch \in [Workers -> SUBSET (1 .. cursor)]
      /\ AckedApplied
    BY DEF WorkerInv, ControlInv, WorkerTypes, EngineInv, EngineTypes
<1>7. AckedApplied'
    BY <1>1, <1>6 DEF AckedApplied
<1>8. WorkerTypes'
    BY <1>1 DEF WorkerInv, ControlInv, WorkerTypes
<1>9. /\ pc'[w] = "down"
      /\ \A v \in Workers : v # w => pc'[v] = pc[v] /\ batch'[v] = batch[v]
    BY <1>1, <1>6
<1>10. OthersKeep(w)
    BY <1>1, <1>2, <1>9 DEF OthersKeep, WorkerInv, ControlInv, TransactionOK
<1>11. ControlInv'
    BY <1>7, <1>8, <1>9, <1>10, ControlStep
<1> QED
    BY <1>5, <1>11

\* A trade whose turn it is finds its orders, if their event is there: their
\* creation precedes it.
LEMMA TradeOrphanedOK ==
    ASSUME WorkerInv, NEW w \in Workers, TradeOrphaned(w)
    PROVE  ControlInv' /\ TableInv'
<1> DEFINE j == Current(w)
           t == trades[stream[j].trade]
<1>1. /\ pc[w] = "handle" /\ CurrentEvent(w).type = "TRADE_EXECUTED"
      /\ CurrentEvent(w).trade \notin settled /\ ~KeysExist(CurrentTrade(w)) /\ Refuse(w)
    BY DEF TradeOrphaned, Handling
<1>2. /\ j \in 1 .. Len(stream) /\ CurrentEvent(w) = stream[j] /\ CurrentTrade(w) = t /\ IsTrade(j)
    BY <1>1, BusyFacts DEF CurrentTrade, IsTrade
<1>3. ASSUME InTurn(w), ~EventMissing(j) PROVE FALSE
    <2>1. j \notin applied
        BY <1>1, <1>2 DEF WorkerInv, TableInv, AppliedOK
    <2>2. 1 .. j - 1 \subseteq applied
        BY <1>3, <2>1 DEF InTurn
    <2>3. t.taker \in Orders /\ t.maker \in Orders
        BY <1>2, EntryTrade, TradeFacts DEF WorkerInv
    <2>5. EventOf[t.taker] \in stored /\ EventOf[t.maker] = EventOf[t.taker]
        <3>1. stream[j].trade \in DOMAIN trades
            BY <1>2, EntryTrade DEF WorkerInv
        <3> QED
            BY <1>2, <1>3, <3>1 DEF EventMissing, EventOfTrade, IsTrade, WorkerInv, EngineInv, TradesOK
    <2>4. ASSUME NEW o \in Orders, Involves(t, o) PROVE o \in DOMAIN row
        <3>1. PICK i \in 1 .. j - 1 : IsCreate(i, o)
            BY <1>2, <2>4 DEF WorkerInv, EngineInv, OrderingOK
        <3>2. i \in applied /\ i \in 1 .. Len(stream)
            BY <1>2, <2>2, <3>1
        <3>3. EventOf[o] \in stored
            BY <2>4, <2>5 DEF Involves
        <3> QED
            BY <3>1, <3>2, <3>3 DEF WorkerInv, TableInv, AppliedOK
    <2> QED
        BY <1>1, <1>2, <2>3, <2>4 DEF KeysExist, Involves
<1> QED
    BY <1>1, <1>3, RefuseOK

\* If no trade was overtaken and it is the turn of one, the trades before it
\* and no others are settled.
LEMMA SettledBefore ==
    ASSUME WorkerInv, ordered, ~Overtaken,
           NEW j \in 1 .. Len(stream), IsTrade(j), j \notin applied, 1 .. j - 1 \subseteq applied
    PROVE  settled = 1 .. stream[j].trade - 1
<1> DEFINE n == stream[j].trade
<1>1. /\ n \in Nat /\ DOMAIN stream = 1 .. Len(stream) /\ Len(stream) \in Nat
      /\ \A i \in 1 .. Len(stream) : IsTrade(i) => stream[i].trade \in Nat
      /\ \A i \in 1 .. Len(stream) : i \in Nat
    BY EntryTrade DEF WorkerInv, EngineInv, EngineTypes
<1>2. ASSUME NEW k \in 1 .. Len(stream), IsTrade(k), NEW id \in 1 .. stream[k].trade - 1
      PROVE  \E i \in 1 .. k - 1 : IsTrade(i) /\ stream[i].trade = id
    <2>1. PICK i \in 1 .. k - 1 : stream[i] = [type |-> "TRADE_EXECUTED", trade |-> id]
        BY <1>1, <1>2 DEF Overtaken, IsTrade
    <2> QED
        BY <2>1 DEF IsTrade
<1>3. ASSUME NEW id \in 1 .. n - 1 PROVE id \in settled
    <2>1. PICK i \in 1 .. j - 1 : IsTrade(i) /\ stream[i].trade = id
        BY <1>2
    <2>2. i \in applied /\ i \in 1 .. Len(stream)
        BY <1>1, <2>1
    <2> QED
        BY <2>1, <2>2 DEF WorkerInv, TableInv, AppliedOK
<1>4. ASSUME NEW id \in settled PROVE id \in 1 .. n - 1
    <2>1. PICK i \in 1 .. Len(stream) : IsTrade(i) /\ stream[i].trade = id
        BY DEF WorkerInv, TableInv, RowsOK
    <2>2. i \in applied /\ id \in Nat /\ id > 0
        <3>1. id \in DOMAIN trades
            BY DEF WorkerInv, TableInv, TableTypes
        <3> QED
            BY <2>1, <3>1, TradesAre DEF WorkerInv, EngineInv, TableInv, AppliedOK
    <2>3. i < j
        <3>1. 1 .. i \subseteq applied
            BY <2>2 DEF WorkerInv, TableInv, PrefixOK
        <3>2. j \notin 1 .. i
            BY <3>1
        <3> QED
            BY <1>1, <3>2
    <2>4. id # n
        BY <2>1, <2>3, <1>1 DEF WorkerInv, EngineInv, OnceOK
    <2>5. ASSUME id > n PROVE FALSE
        <3>1. n > 0
            <4>1. n \in DOMAIN trades
                BY EntryTrade DEF WorkerInv
            <4> QED
                BY <4>1, TradesAre DEF WorkerInv, EngineInv
        <3>2. n \in 1 .. stream[i].trade - 1
            BY <1>1, <2>1, <2>2, <2>5, <3>1
        <3>3. PICK k \in 1 .. i - 1 : IsTrade(k) /\ stream[k].trade = n
            BY <1>2, <2>1, <3>2
        <3>4. k \in 1 .. Len(stream) /\ k < j
            BY <1>1, <2>3, <3>3
        <3> QED
            BY <1>1, <3>3, <3>4 DEF WorkerInv, EngineInv, OnceOK
    <2> QED
        BY <1>1, <2>2, <2>4, <2>5
<1> QED
    BY <1>3, <1>4

\* An order whose event is gone is refused for ever.
LEMMA OrderOrphanedOK ==
    ASSUME WorkerInv, NEW w \in Workers, OrderOrphaned(w)
    PROVE  ControlInv' /\ TableInv'
<1>1. /\ pc[w] = "handle" /\ CurrentEvent(w).type = "ORDER_CREATED"
      /\ EventOf[CurrentEvent(w).order] \notin stored /\ Refuse(w)
    BY DEF OrderOrphaned, Handling
<1>2. EventMissing(Current(w))
    BY <1>1 DEF EventMissing, CurrentEvent
<1> QED
    BY <1>1, <1>2, RefuseOK

\* A trade whose turn it is can be paid, unless it overtook another or its buyer
\* spent more than the engine had frozen.
LEMMA InsufficientOK ==
    ASSUME WorkerInv, NEW w \in Workers, Insufficient(w)
    PROVE  ControlInv' /\ TableInv'
<1> DEFINE j == Current(w)
           id == stream[j].trade
           t == trades[id]
<1>1. /\ pc[w] = "maker" /\ cash[Buyer(CurrentTrade(w))] < Cost(CurrentTrade(w)) /\ Refuse(w)
    BY DEF Insufficient
<1>2. /\ j \in 1 .. Len(stream) /\ CurrentEvent(w) = stream[j] /\ CurrentTrade(w) = t
      /\ IsTrade(j) /\ id \notin settled
    BY <1>1, BusyFacts
       DEF CurrentTrade, CurrentEvent, WorkerInv, ControlInv, TransactionOK, InTransaction
<1>3. ASSUME ordered, InTurn(w), ~Overtaken, ~Unpayable(j) PROVE FALSE
    <2>1. j \notin applied
        BY <1>2 DEF WorkerInv, TableInv, AppliedOK
    <2>2. 1 .. j - 1 \subseteq applied
        BY <1>3, <2>1 DEF InTurn
    <2>3. settled = 1 .. id - 1
        BY <1>2, <1>3, <2>1, <2>2, SettledBefore
    <2>4. id \in DOMAIN trades /\ t \in Trade
        BY <1>2, EntryTrade DEF WorkerInv
    <2>5. Buyer(t) \in Users /\ Cost(t) \in Nat
        BY <2>4, TradeFacts
    <2>6. cash[Buyer(t)] = Worth(trades, settled, Buyer(t)) /\ cash[Buyer(t)] \in Nat
        BY <2>5 DEF WorkerInv, TableInv, TablesOK, TableTypes
    <2>7. Cost(t) <= Worth(trades, 1 .. id - 1, Buyer(t))
        BY <1>2, <1>3, <2>4 DEF Unpayable, IsTrade, WorkerInv, CashInv, SolventOK
    <2> HIDE DEF t, id
    <2>8. Worth(trades, 1 .. id - 1, Buyer(t)) = cash[Buyer(t)]
        BY <2>3, <2>6, Zenon
    <2> QED
        BY <1>1, <1>2, <2>5, <2>6, <2>7, <2>8
<1>4. Unpayable(Current(w)) \/ ~(ordered /\ InTurn(w)) \/ Overtaken
    BY <1>3
<1> QED
    BY <1>1, <1>4, RefuseOK

\* A commit: w's entry is applied and w will acknowledge it.
Commits(w) ==
    /\ pc[w] \notin {"down", "read"}
    /\ Goto(w, "ack") /\ Applied(w)
    /\ UNCHANGED <<engineVars, stream, groupVars, stored>>
    /\ DOMAIN row \subseteq DOMAIN row'
    /\ \A v \in Workers : v # w /\ InTransaction(v) => CurrentEvent(v).trade \notin settled'

\* What a commit has in common, whatever it writes.
LEMMA CommitOK ==
    ASSUME WorkerInv, NEW w \in Workers, Commits(w)
    PROVE  /\ ControlInv' /\ PrefixOK' /\ RefusalExplained'
           /\ applied' = applied \cup {Current(w)}
           /\ applied' \subseteq 1 .. cursor' /\ refused' \subseteq 1 .. cursor' /\ ordered' \in BOOLEAN
           /\ Current(w) \in 1 .. Len(stream)
           /\ UNCHANGED <<status, trades, stream, stored, overspent, cursor>>
<1>1. /\ pc' = [pc EXCEPT ![w] = "ack"] /\ UNCHANGED <<batch, seen>>
      /\ applied' = applied \cup {Current(w)} /\ ordered' = (ordered /\ InTurn(w))
      /\ UNCHANGED <<refused, fails, cursor, pending, engineVars, stream, stored>>
    BY DEF Commits, Goto, Applied, groupVars
<1>2. Current(w) \in 1 .. cursor /\ Current(w) \in 1 .. Len(stream) /\ batch[w] # {}
    BY BusyFacts DEF Commits
<1>3. UNCHANGED <<status, trades, stream, stored, overspent, cursor>>
    BY <1>1 DEF engineVars, cashVars
<1>4. /\ applied' \subseteq 1 .. cursor' /\ refused' \subseteq 1 .. cursor' /\ ordered' \in BOOLEAN
    BY <1>1, <1>2 DEF WorkerInv, TableInv, TableTypes
<1>5. PrefixOK'
    <2> SUFFICES ASSUME ordered', NEW i \in applied' PROVE 1 .. i \subseteq applied'
        BY DEF PrefixOK
    <2>1. ordered /\ InTurn(w)
        BY <1>1
    <2>2. CASE i \in applied
        BY <1>1, <2>1, <2>2 DEF WorkerInv, TableInv, PrefixOK
    <2>3. CASE i = Current(w) /\ i \notin applied
        <3>1. 1 .. i - 1 \subseteq applied
            BY <2>1, <2>3 DEF InTurn
        <3>2. i \in Nat
            BY <1>2, <2>3, BusyFacts DEF Commits
        <3>3. \A k \in 1 .. i : k = i \/ k \in 1 .. i - 1
            BY <3>2
        <3> QED
            BY <1>1, <2>3, <3>1, <3>3
    <2> QED
        BY <1>1, <2>2, <2>3
<1>6. RefusalExplained'
    <2>1. /\ Overtaken' <=> Overtaken
          /\ \A i : (EventMissing(i)' <=> EventMissing(i)) /\ (Unpayable(i)' <=> Unpayable(i))
        BY <1>3, CausesSame
    <2> QED
        BY <1>1, <2>1 DEF WorkerInv, TableInv, RefusalExplained
<1>7. /\ pc \in [Workers -> {"down", "read", "handle", "taker", "maker", "ack"}]
      /\ WorkerTypes /\ AckedApplied
    BY DEF WorkerInv, ControlInv, WorkerTypes
<1>8. WorkerTypes'
    BY <1>1, <1>7 DEF WorkerTypes
<1>9. AckedApplied'
    BY <1>1, <1>7 DEF AckedApplied
<1>10. /\ pc'[w] = "ack" /\ batch'[w] = batch[w]
       /\ \A v \in Workers : v # w => pc'[v] = pc[v] /\ batch'[v] = batch[v]
    BY <1>1, <1>7
<1>11. OthersKeep(w)
    BY <1>1, <1>10 DEF OthersKeep, Commits
<1>12. ControlInv'
    <2>1. Current(w) \in applied'
        BY <1>1
    <2> QED
        BY <1>2, <1>8, <1>9, <1>10, <1>11, <2>1, ControlStep
<1> QED
    BY <1>1, <1>2, <1>3, <1>4, <1>5, <1>6, <1>12

\* A step that changes rows and none of the tables of trades.
LEMMA RowStep ==
    ASSUME WorkerInv, NEW w \in Workers, Commits(w), UNCHANGED tradeTables,
           ~IsTrade(Current(w)),
           \A o \in Orders : IsCreate(Current(w), o) => o \in DOMAIN row',
           DOMAIN row' \subseteq Orders, row' \in [DOMAIN row' -> Row],
           \A o \in DOMAIN row' : /\ status[o] # "NONE" /\ EventOf[o] \in stored
                                  /\ row'[o].filled = Filled(trades, settled, o)
    PROVE  ControlInv' /\ TableInv'
<1>1. /\ ControlInv' /\ PrefixOK' /\ RefusalExplained'
      /\ applied' = applied \cup {Current(w)}
      /\ applied' \subseteq 1 .. cursor' /\ refused' \subseteq 1 .. cursor' /\ ordered' \in BOOLEAN
      /\ Current(w) \in 1 .. Len(stream)
      /\ UNCHANGED <<status, trades, stream, stored, cursor>>
    BY CommitOK
<1>2. UNCHANGED <<settled, cash, shares, ledger, volume>>
    BY DEF tradeTables
<1>3. TableTypes'
    BY <1>1, <1>2 DEF WorkerInv, TableInv, TableTypes
<1>4. /\ \A i : IsTrade(i)' <=> IsTrade(i)
      /\ \A i, o : IsCreate(i, o)' <=> IsCreate(i, o)
    BY <1>1 DEF IsTrade, IsCreate
<1>5. DOMAIN row \subseteq DOMAIN row'
    BY DEF Commits
<1>6. AppliedOK'
    <2> SUFFICES ASSUME NEW i \in 1 .. Len(stream)
                 PROVE  /\ IsTrade(i) => (i \in applied' <=> stream[i].trade \in settled)
                        /\ \A o \in Orders : IsCreate(i, o) /\ i \in applied' /\ EventOf[o] \in stored
                                                => o \in DOMAIN row'
        BY <1>1, <1>2, <1>4 DEF AppliedOK
    <2>1. CASE i = Current(w)
        BY <2>1
    <2>2. CASE i # Current(w)
        BY <1>1, <1>5, <2>2 DEF WorkerInv, TableInv, AppliedOK
    <2> QED
        BY <2>1, <2>2
<1>7. RowsOK'
    <2>1. \A id \in settled : /\ {trades[id].taker, trades[id].maker} \subseteq DOMAIN row'
                              /\ \E i \in 1 .. Len(stream) : IsTrade(i) /\ stream[i].trade = id
        BY <1>5 DEF WorkerInv, TableInv, RowsOK, KeysExist
    <2> QED
        BY <1>1, <1>2, <1>4, <2>1 DEF RowsOK, KeysExist
<1>8. TablesOK'
    BY <1>1, <1>2 DEF WorkerInv, TableInv, TablesOK
<1> QED
    BY <1>1, <1>3, <1>6, <1>7, <1>8 DEF TableInv

\* The order that w's entry is about.
CurrentOrder(w) == CurrentEvent(w).order

\* What the creation of an order finds and writes: no trade of an order that
\* has no row can have been settled.
LEMMA OrderCreatedFacts ==
    ASSUME WorkerInv, NEW w \in Workers, OrderCreated(w)
    PROVE  /\ Current(w) \in 1 .. Len(stream) /\ ~IsTrade(Current(w))
           /\ IsCreate(Current(w), CurrentOrder(w))
           /\ \A x : ~IsCancel(Current(w), x) /\ (IsCreate(Current(w), x) => x = CurrentOrder(w))
           /\ CurrentOrder(w) \in Orders /\ status[CurrentOrder(w)] # "NONE"
           /\ EventOf[CurrentOrder(w)] \in stored
           /\ DOMAIN row' = DOMAIN row \cup {CurrentOrder(w)} /\ row' \in [DOMAIN row' -> Row]
           /\ \A x \in DOMAIN row : row'[x] = row[x]
           /\ CurrentOrder(w) \notin DOMAIN row =>
                 /\ row'[CurrentOrder(w)] =
                      [filled |-> 0, remaining |-> QuantityOf[CurrentOrder(w)], status |-> "PENDING"]
                 /\ Filled(trades, settled, CurrentOrder(w)) = 0
           /\ Commits(w) /\ UNCHANGED tradeTables
<1> DEFINE j == Current(w)
           o == CurrentOrder(w)
<1>1. /\ pc[w] = "handle" /\ CurrentEvent(w).type = "ORDER_CREATED" /\ EventOf[o] \in stored
      /\ row' = IF o \in DOMAIN row THEN row ELSE InsertOrder(o)
      /\ Goto(w, "ack") /\ Applied(w)
      /\ UNCHANGED <<engineVars, stream, groupVars, stored, tradeTables>>
    BY DEF OrderCreated, Handling, CurrentOrder
<1>2. j \in 1 .. Len(stream) /\ CurrentEvent(w) = stream[j]
    BY <1>1, BusyFacts
<1>3. stream[j].type = "ORDER_CREATED" /\ o = stream[j].order /\ o \in Orders
    <2>1. stream[j] \in OrderEvent \cup TradeEvent
        BY <1>2 DEF WorkerInv, EngineInv, EngineTypes
    <2>2. stream[j].type = "ORDER_CREATED" /\ o = stream[j].order
        BY <1>1, <1>2 DEF CurrentOrder
    <2> QED
        BY <2>1, <2>2 DEF OrderEvent, TradeEvent
<1> HIDE DEF o
<1>4. /\ ~IsTrade(j) /\ IsCreate(j, o)
      /\ \A x : ~IsCancel(j, x) /\ (IsCreate(j, x) => x = o)
    BY <1>3 DEF IsTrade, IsCreate, IsCancel
<1>5. status[o] # "NONE"
    BY <1>2, <1>3, <1>4 DEF WorkerInv, EngineInv, EventsOK
<1>6. DOMAIN row \subseteq Orders /\ row \in [DOMAIN row -> Row]
    BY DEF WorkerInv, TableInv, TableTypes
<1> DEFINE fresh == [filled |-> 0, remaining |-> QuantityOf[o], status |-> "PENDING"]
<1>7. /\ DOMAIN row' = DOMAIN row \cup {o}
      /\ \A x \in DOMAIN row : row'[x] = row[x]
      /\ o \notin DOMAIN row => row'[o] = fresh
      /\ row' \in [DOMAIN row' -> Row]
    <2>1. fresh \in Row
        BY <1>3, OrdersAssumption DEF Row, Statuses
    <2>2. CASE o \in DOMAIN row
        BY <1>1, <1>6, <2>2
    <2>3. CASE o \notin DOMAIN row
        <3>1. row' = [x \in DOMAIN row \cup {o} |-> IF x = o THEN fresh ELSE row[x]]
            BY <1>1, <2>3 DEF InsertOrder
        <3> HIDE DEF fresh
        <3>2. /\ DOMAIN row' = DOMAIN row \cup {o} /\ row'[o] = fresh
              /\ \A x \in DOMAIN row : row'[x] = row[x]
            BY <2>3, <3>1
        <3>3. row' \in [DOMAIN row' -> Row]
            BY <1>6, <2>1, <2>3, <3>1, <3>2
        <3> QED
            BY <2>3, <3>2, <3>3
    <2> QED
        BY <2>2, <2>3
<1>8. ASSUME o \notin DOMAIN row PROVE Filled(trades, settled, o) = 0
    <2>1. With(trades, settled, o) = {}
        BY <1>8 DEF With, Involves, WorkerInv, TableInv, RowsOK, KeysExist
    <2>2. \A f : SumFunctionOnSet(f, {}) = 0
        BY FS_EmptySet, SumRecursion
    <2> QED
        BY <2>1, <2>2, Zenon DEF Filled
<1> HIDE DEF fresh
<1>9. Commits(w)
    <2>1. settled' = settled
        BY <1>1 DEF tradeTables
    <2> QED
        BY <1>1, <1>7, <2>1 DEF Commits, WorkerInv, ControlInv, TransactionOK
<1> QED
    BY <1>1, <1>2, <1>3, <1>4, <1>5, <1>7, <1>8, <1>9 DEF fresh, o

\* An order is stored once, unfilled.
LEMMA OrderCreatedOK ==
    ASSUME WorkerInv, NEW w \in Workers, OrderCreated(w)
    PROVE  ControlInv' /\ TableInv'
<1> DEFINE o == CurrentOrder(w)
           fresh == [filled |-> 0, remaining |-> QuantityOf[o], status |-> "PENDING"]
<1>0. /\ ~IsTrade(Current(w)) /\ \A x : IsCreate(Current(w), x) => x = o
      /\ o \in Orders /\ status[o] # "NONE" /\ EventOf[o] \in stored
      /\ DOMAIN row' = DOMAIN row \cup {o} /\ row' \in [DOMAIN row' -> Row]
      /\ \A x \in DOMAIN row : row'[x] = row[x]
      /\ o \notin DOMAIN row => row'[o] = fresh /\ Filled(trades, settled, o) = 0
      /\ Commits(w) /\ UNCHANGED tradeTables
    BY OrderCreatedFacts
<1>1. o \notin DOMAIN row => row'[o].filled = 0
    BY <1>0
<1> HIDE DEF o, fresh
<1>2. \A x \in DOMAIN row' : /\ status[x] # "NONE" /\ EventOf[x] \in stored
                             /\ row'[x].filled = Filled(trades, settled, x)
    <2> SUFFICES ASSUME NEW x \in DOMAIN row'
                 PROVE  /\ status[x] # "NONE" /\ EventOf[x] \in stored
                        /\ row'[x].filled = Filled(trades, settled, x)
        OBVIOUS
    <2>1. CASE x \in DOMAIN row
        BY <1>0, <2>1 DEF WorkerInv, TableInv, RowsOK, TablesOK
    <2>2. CASE x = o /\ o \notin DOMAIN row
        BY <1>0, <1>1, <2>2
    <2> QED
        BY <1>0, <2>1, <2>2
<1>3. /\ DOMAIN row' \subseteq Orders
      /\ \A x \in Orders : IsCreate(Current(w), x) => x \in DOMAIN row'
    BY <1>0 DEF WorkerInv, TableInv, TableTypes
<1> QED
    BY <1>0, <1>2, <1>3, RowStep

\* What a cancellation finds and writes.
LEMMA OrderCanceledFacts ==
    ASSUME WorkerInv, NEW w \in Workers, OrderCanceled(w)
    PROVE  /\ Current(w) \in 1 .. Len(stream) /\ ~IsTrade(Current(w)) /\ CurrentOrder(w) \in Orders
           /\ \A x : ~IsCreate(Current(w), x) /\ (IsCancel(Current(w), x) <=> x = CurrentOrder(w))
           /\ DOMAIN row' = DOMAIN row /\ row' \in [DOMAIN row' -> Row]
           /\ \A x \in DOMAIN row : /\ x # CurrentOrder(w) => row'[x] = row[x]
                                    /\ x = CurrentOrder(w) => row'[x].status = "CANCELED"
                                    /\ row'[x].filled = row[x].filled
                                    /\ row'[x].remaining = row[x].remaining
           /\ Commits(w) /\ UNCHANGED tradeTables
<1> DEFINE o == CurrentOrder(w)
           j == Current(w)
<1>1. /\ pc[w] = "handle" /\ CurrentEvent(w).type = "ORDER_CANCELED"
      /\ row' = IF o \in DOMAIN row THEN [row EXCEPT ![o].status = "CANCELED"] ELSE row
      /\ Goto(w, "ack") /\ Applied(w)
      /\ UNCHANGED <<engineVars, stream, groupVars, stored, tradeTables>>
    BY DEF OrderCanceled, Handling, UpdateOrderStatus, CurrentOrder
<1>2. j \in 1 .. Len(stream) /\ CurrentEvent(w) = stream[j]
    BY <1>1, BusyFacts
<1>3. stream[j].type = "ORDER_CANCELED" /\ o = stream[j].order /\ o \in Orders
    <2>1. stream[j] \in OrderEvent \cup TradeEvent
        BY <1>2 DEF WorkerInv, EngineInv, EngineTypes
    <2>2. stream[j].type = "ORDER_CANCELED" /\ o = stream[j].order
        BY <1>1, <1>2 DEF CurrentOrder
    <2> QED
        BY <2>1, <2>2 DEF OrderEvent, TradeEvent
<1> HIDE DEF o
<1>4. ~IsTrade(j) /\ \A x : ~IsCreate(j, x) /\ (IsCancel(j, x) <=> x = o)
    BY <1>3 DEF IsTrade, IsCreate, IsCancel
<1>5. DOMAIN row \subseteq Orders /\ row \in [DOMAIN row -> Row]
    BY DEF WorkerInv, TableInv, TableTypes
<1>6. /\ DOMAIN row' = DOMAIN row /\ row' \in [DOMAIN row' -> Row]
      /\ \A x \in DOMAIN row : /\ x # o => row'[x] = row[x]
                               /\ x = o => row'[x].status = "CANCELED"
                               /\ row'[x].filled = row[x].filled
                               /\ row'[x].remaining = row[x].remaining
    <2>1. CASE o \in DOMAIN row
        <3>1. row' = [row EXCEPT ![o].status = "CANCELED"]
            BY <1>1, <2>1
        <3>2. "CANCELED" \in Statuses
            BY DEF Statuses
        <3> QED
            BY <1>5, <2>1, <3>1, <3>2 DEF Row
    <2>2. CASE o \notin DOMAIN row
        BY <1>1, <1>5, <2>2
    <2> QED
        BY <2>1, <2>2
<1>7. Commits(w)
    <2>1. settled' = settled
        BY <1>1 DEF tradeTables
    <2> QED
        BY <1>1, <1>6, <2>1 DEF Commits, WorkerInv, ControlInv, TransactionOK
<1> QED
    BY <1>1, <1>2, <1>3, <1>4, <1>6, <1>7 DEF o

\* A cancellation changes the status of a row.
LEMMA OrderCanceledOK ==
    ASSUME WorkerInv, NEW w \in Workers, OrderCanceled(w)
    PROVE  ControlInv' /\ TableInv'
<1>1. /\ ~IsTrade(Current(w)) /\ \A x : ~IsCreate(Current(w), x)
      /\ DOMAIN row' = DOMAIN row /\ row' \in [DOMAIN row' -> Row]
      /\ \A x \in DOMAIN row : row'[x].filled = row[x].filled
      /\ Commits(w) /\ UNCHANGED tradeTables
    BY OrderCanceledFacts
<1>2. DOMAIN row \subseteq Orders
    BY DEF WorkerInv, TableInv, TableTypes
<1>3. \A x \in DOMAIN row' : /\ status[x] # "NONE" /\ EventOf[x] \in stored
                             /\ row'[x].filled = Filled(trades, settled, x)
    BY <1>1 DEF WorkerInv, TableInv, RowsOK, TablesOK
<1> QED
    BY <1>1, <1>2, <1>3, RowStep

\* What the statements of the transaction do to their tables.
LEMMA TradeWrites ==
    ASSUME TableTypes, NEW t \in Trade, Buyer(t) # Seller(t), cash[Buyer(t)] >= Cost(t)
    PROVE  /\ AddBalance(DeductBalance(cash, t), t) \in [Users -> Nat]
           /\ \A u \in Users : AddBalance(DeductBalance(cash, t), t)[u] = cash[u] + Gain(t, u)
           /\ UpsertPosition(t) \in [Users \X Events -> Int]
           /\ \A u \in Users, e \in Events :
                 UpsertPosition(t)[<<u, e>>] = shares[<<u, e>>] + Lots(t, u, e)
           /\ IncrementEventVolume(t) \in [Events -> Nat]
           /\ \A e \in Events : IncrementEventVolume(t)[e] = volume[e] + Paid(t, e)
<1> DEFINE b == Buyer(t)
           s == Seller(t)
           c == Cost(t)
           e0 == EventOfTrade(t)
           q == t.quantity
<1>1. b \in Users /\ s \in Users /\ b # s /\ c \in Nat /\ q \in Nat /\ e0 \in Events /\ cash[b] >= c
    BY TradeFacts
<1>2. /\ cash \in [Users -> Nat] /\ shares \in [Users \X Events -> Int] /\ volume \in [Events -> Nat]
    BY DEF TableTypes
<1>3. /\ \A u : Gain(t, u) = IF u = b THEN -c ELSE IF u = s THEN c ELSE 0
      /\ \A u, e : Lots(t, u, e) = IF e # e0 THEN 0 ELSE IF u = b THEN q ELSE IF u = s THEN -q ELSE 0
      /\ \A e : Paid(t, e) = IF e = e0 THEN c ELSE 0
    BY DEF Gain, Lots, Paid
<1>4. /\ AddBalance(DeductBalance(cash, t), t) =
            [[cash EXCEPT ![b] = @ - c] EXCEPT ![s] = @ + c]
      /\ UpsertPosition(t) = [shares EXCEPT ![<<b, e0>>] = @ + q, ![<<s, e0>>] = @ - q]
      /\ IncrementEventVolume(t) = [volume EXCEPT ![e0] = @ + c]
    BY DEF AddBalance, DeductBalance, UpsertPosition, IncrementEventVolume
<1> HIDE DEF b, s, c, e0, q
<1>5. /\ AddBalance(DeductBalance(cash, t), t) \in [Users -> Nat]
      /\ \A u \in Users : AddBalance(DeductBalance(cash, t), t)[u] = cash[u] + Gain(t, u)
    <2> DEFINE f == [[cash EXCEPT ![b] = @ - c] EXCEPT ![s] = @ + c]
    <2>1. /\ f \in [Users -> Int]
          /\ f[b] = cash[b] - c /\ f[s] = cash[s] + c
          /\ \A u \in Users : u # b /\ u # s => f[u] = cash[u]
        BY <1>1, <1>2
    <2> HIDE DEF f
    <2>2. \A u \in Users : f[u] = cash[u] + Gain(t, u) /\ f[u] \in Nat
        BY <1>1, <1>2, <1>3, <2>1
    <2>3. f \in [Users -> Nat]
        BY <2>1, <2>2
    <2>4. AddBalance(DeductBalance(cash, t), t) = f
        BY <1>4 DEF f
    <2> QED
        BY <2>2, <2>3, <2>4
<1>6. /\ UpsertPosition(t) \in [Users \X Events -> Int]
      /\ \A u \in Users, e \in Events :
            UpsertPosition(t)[<<u, e>>] = shares[<<u, e>>] + Lots(t, u, e)
    <2> DEFINE f == UpsertPosition(t)
    <2>1. <<b, e0>> \in Users \X Events /\ <<s, e0>> \in Users \X Events /\ <<b, e0>> # <<s, e0>>
        BY <1>1
    <2>2. /\ f \in [Users \X Events -> Int]
          /\ f[<<b, e0>>] = shares[<<b, e0>>] + q /\ f[<<s, e0>>] = shares[<<s, e0>>] - q
          /\ \A k \in Users \X Events : k # <<b, e0>> /\ k # <<s, e0>> => f[k] = shares[k]
        BY <1>1, <1>2, <1>4, <2>1
    <2> HIDE DEF f
    <2>3. ASSUME NEW u \in Users, NEW e \in Events
          PROVE  f[<<u, e>>] = shares[<<u, e>>] + Lots(t, u, e)
        <3>1. <<u, e>> \in Users \X Events /\ shares[<<u, e>>] \in Int
            BY <1>2
        <3>2. CASE e = e0 /\ u = b
            BY <1>1, <1>3, <2>2, <3>1, <3>2
        <3>3. CASE e = e0 /\ u = s
            BY <1>1, <1>3, <2>2, <3>1, <3>3
        <3>4. CASE e # e0 \/ (u # b /\ u # s)
            <4>1. <<u, e>> # <<b, e0>> /\ <<u, e>> # <<s, e0>>
                BY <3>4
            <4>2. Lots(t, u, e) = 0
                BY <1>3, <3>4
            <4> QED
                BY <2>2, <3>1, <4>1, <4>2
        <3> QED
            BY <3>2, <3>3, <3>4
    <2> QED
        BY <2>2, <2>3 DEF f
<1>7. /\ IncrementEventVolume(t) \in [Events -> Nat]
      /\ \A e \in Events : IncrementEventVolume(t)[e] = volume[e] + Paid(t, e)
    BY <1>1, <1>2, <1>3, <1>4
<1> QED
    BY <1>5, <1>6, <1>7

\* What it does to the rows of the two orders.
LEMMA RowWrites ==
    ASSUME row \in [DOMAIN row -> Row], DOMAIN row \subseteq Orders,
           NEW t \in Trade, t.taker # t.maker, KeysExist(t),
           NEW a \in Statuses, NEW b \in Statuses,
           row' = [row EXCEPT ![t.taker] = UpdateOrderFill(@, t.taker, t.quantity, a),
                              ![t.maker] = UpdateOrderFill(@, t.maker, t.quantity, b)]
    PROVE  /\ DOMAIN row' = DOMAIN row /\ row' \in [DOMAIN row -> Row]
           /\ \A o \in DOMAIN row : row'[o].filled = row[o].filled + Fill(t, o)
           /\ row'[t.taker] = UpdateOrderFill(row[t.taker], t.taker, t.quantity, a)
           /\ row'[t.maker] = UpdateOrderFill(row[t.maker], t.maker, t.quantity, b)
           /\ \A o \in DOMAIN row : ~Involves(t, o) => row'[o] = row[o]
<1> DEFINE x == t.taker
           y == t.maker
           q == t.quantity
           rx == UpdateOrderFill(row[x], x, q, a)
           ry == UpdateOrderFill(row[y], y, q, b)
<1>1. x \in DOMAIN row /\ y \in DOMAIN row /\ x # y /\ q \in Nat
    BY TradeFacts DEF KeysExist
<1>2. /\ row[x] \in Row /\ row[y] \in Row /\ QuantityOf[x] \in Nat /\ QuantityOf[y] \in Nat
    BY <1>1, OrdersAssumption
<1>3. /\ row[x].filled \in Nat /\ row[y].filled \in Nat
    BY <1>2 DEF Row
<1>4. rx \in Row /\ rx.filled = row[x].filled + q
    BY <1>1, <1>2, <1>3 DEF UpdateOrderFill, Row
<1>5. ry \in Row /\ ry.filled = row[y].filled + q
    BY <1>1, <1>2, <1>3 DEF UpdateOrderFill, Row
<1>6. row' = [row EXCEPT ![x] = rx, ![y] = ry]
    BY <1>1
<1> HIDE DEF rx, ry
<1>7. /\ DOMAIN row' = DOMAIN row /\ row' \in [DOMAIN row -> Row]
      /\ row'[x] = rx /\ row'[y] = ry
      /\ \A o \in DOMAIN row : o # x /\ o # y => row'[o] = row[o]
    BY <1>1, <1>4, <1>5, <1>6
<1>8. /\ Fill(t, x) = q /\ Fill(t, y) = q
      /\ \A o : ~Involves(t, o) => Fill(t, o) = 0 /\ o # x /\ o # y
      /\ \A o : Involves(t, o) => o = x \/ o = y
    BY DEF Fill, Involves
<1>9. \A o \in DOMAIN row : row'[o].filled = row[o].filled + Fill(t, o)
    <2> SUFFICES ASSUME NEW o \in DOMAIN row PROVE row'[o].filled = row[o].filled + Fill(t, o)
        OBVIOUS
    <2>1. CASE o = x
        BY <1>4, <1>7, <1>8, <2>1
    <2>2. CASE o = y
        BY <1>5, <1>7, <1>8, <2>2
    <2>3. CASE o # x /\ o # y
        <3>1. row[o].filled \in Nat /\ row'[o] = row[o] /\ Fill(t, o) = 0
            <4>1. row[o] \in Row
                OBVIOUS
            <4> QED
                BY <1>7, <1>8, <2>3, <4>1 DEF Row
        <3> QED
            BY <3>1
    <2> QED
        BY <2>1, <2>2, <2>3
<1> QED
    BY <1>7, <1>8, <1>9 DEF rx, ry

\* What the commit of a settlement finds and writes.
LEMMA SettleFacts ==
    ASSUME WorkerInv, NEW w \in Workers, Settle(w),
           NEW j, NEW id, NEW t, j = Current(w), id = stream[j].trade, t = trades[id]
    PROVE  /\ pc[w] = "maker" /\ CurrentTrade(w) = t
           /\ j \in 1 .. Len(stream) /\ IsTrade(j)
           /\ id \in DOMAIN trades /\ id \notin settled /\ settled' = settled \cup {id}
           /\ t \in Trade /\ t.taker # t.maker /\ Buyer(t) # Seller(t)
           /\ t.taker \in DOMAIN row /\ t.maker \in DOMAIN row
           /\ cash[Buyer(t)] >= Cost(t)
           /\ cash' = AddBalance(DeductBalance(cash, t), t)
           /\ shares' = UpsertPosition(t)
           /\ ledger' = ledger \cup InsertTransaction(t, id)
           /\ volume' = IncrementEventVolume(t)
           /\ DOMAIN row' = DOMAIN row /\ row' \in [DOMAIN row -> Row]
           /\ \A o \in DOMAIN row : row'[o].filled = row[o].filled + Fill(t, o)
           /\ \A o \in DOMAIN row : ~Involves(t, o) => row'[o] = row[o]
           /\ row'[t.taker] = UpdateOrderFill(row[t.taker], t.taker, t.quantity, seen[w].taker)
           /\ row'[t.maker] = UpdateOrderFill(row[t.maker], t.maker, t.quantity, seen[w].maker)
           /\ Commits(w)
<1>1. CurrentEvent(w).trade = id /\ CurrentTrade(w) = t
    BY DEF CurrentTrade, CurrentEvent
<1>2. /\ pc[w] = "maker" /\ cash[Buyer(t)] >= Cost(t)
      /\ row' = [row EXCEPT ![t.taker] = UpdateOrderFill(@, t.taker, t.quantity, seen[w].taker),
                            ![t.maker] = UpdateOrderFill(@, t.maker, t.quantity, seen[w].maker)]
      /\ settled' = settled \cup {id}
      /\ cash' = AddBalance(DeductBalance(cash, t), t)
      /\ shares' = UpsertPosition(t)
      /\ ledger' = ledger \cup InsertTransaction(t, id)
      /\ volume' = IncrementEventVolume(t)
      /\ Goto(w, "ack") /\ Applied(w)
      /\ UNCHANGED <<engineVars, stream, groupVars, stored>>
    BY <1>1 DEF Settle
<1>3. j \in 1 .. Len(stream)
    BY <1>2, BusyFacts
<1>4. IsTrade(j) /\ id \notin settled /\ KeysExist(t) /\ InTransaction(w)
    BY <1>1, <1>2 DEF WorkerInv, ControlInv, TransactionOK, InTransaction
<1>5. id \in DOMAIN trades /\ t \in Trade /\ t.taker # t.maker /\ Buyer(t) # Seller(t)
    BY <1>3, <1>4, EntryTrade DEF WorkerInv
<1>6. seen[w].taker \in Statuses /\ seen[w].maker \in Statuses
    BY DEF WorkerInv, ControlInv, WorkerTypes
<1>7. DOMAIN row \subseteq Orders /\ row \in [DOMAIN row -> Row]
    BY DEF WorkerInv, TableInv, TableTypes
<1>8. /\ DOMAIN row' = DOMAIN row /\ row' \in [DOMAIN row -> Row]
      /\ \A o \in DOMAIN row : row'[o].filled = row[o].filled + Fill(t, o)
      /\ row'[t.taker] = UpdateOrderFill(row[t.taker], t.taker, t.quantity, seen[w].taker)
      /\ row'[t.maker] = UpdateOrderFill(row[t.maker], t.maker, t.quantity, seen[w].maker)
      /\ \A o \in DOMAIN row : ~Involves(t, o) => row'[o] = row[o]
    BY <1>2, <1>4, <1>5, <1>6, <1>7, RowWrites
<1>9. Commits(w)
    <2>1. \A v \in Workers : v # w /\ InTransaction(v) =>
              CurrentEvent(v).trade \notin settled /\ CurrentEvent(v).trade # id
        BY <1>1, <1>4 DEF WorkerInv, ControlInv, TransactionOK
    <2> QED
        BY <1>2, <1>8, <2>1 DEF Commits
<1> QED
    BY <1>1, <1>2, <1>3, <1>4, <1>5, <1>8, <1>9 DEF KeysExist

\* A trade is settled, in every table at once.
LEMMA SettleOK ==
    ASSUME WorkerInv, NEW w \in Workers, Settle(w)
    PROVE  ControlInv' /\ TableInv'
<1> DEFINE j == Current(w)
           id == stream[j].trade
           t == trades[id]
<1>1. /\ pc[w] = "maker" /\ CurrentTrade(w) = t
      /\ j \in 1 .. Len(stream) /\ IsTrade(j)
      /\ id \in DOMAIN trades /\ id \notin settled /\ settled' = settled \cup {id}
      /\ t \in Trade /\ Buyer(t) # Seller(t)
      /\ t.taker \in DOMAIN row /\ t.maker \in DOMAIN row
      /\ cash[Buyer(t)] >= Cost(t)
      /\ cash' = AddBalance(DeductBalance(cash, t), t)
      /\ shares' = UpsertPosition(t)
      /\ ledger' = ledger \cup InsertTransaction(t, id)
      /\ volume' = IncrementEventVolume(t)
      /\ DOMAIN row' = DOMAIN row /\ row' \in [DOMAIN row -> Row]
      /\ \A o \in DOMAIN row : row'[o].filled = row[o].filled + Fill(t, o)
      /\ Commits(w)
    BY SettleFacts
<1>2. TableTypes /\ settled \subseteq DOMAIN trades /\ trades \in Seq(Trade)
    BY DEF WorkerInv, TableInv, TableTypes, EngineInv, EngineTypes
<1> HIDE DEF t, id
<1>3. /\ cash' \in [Users -> Nat] /\ \A u \in Users : cash'[u] = cash[u] + Gain(t, u)
      /\ shares' \in [Users \X Events -> Int]
      /\ \A u \in Users, e \in Events : shares'[<<u, e>>] = shares[<<u, e>>] + Lots(t, u, e)
      /\ volume' \in [Events -> Nat] /\ \A e \in Events : volume'[e] = volume[e] + Paid(t, e)
    BY <1>1, <1>2, TradeWrites
<1>4. /\ ControlInv' /\ PrefixOK' /\ RefusalExplained'
      /\ applied' = applied \cup {j}
      /\ applied' \subseteq 1 .. cursor' /\ refused' \subseteq 1 .. cursor' /\ ordered' \in BOOLEAN
      /\ UNCHANGED <<status, trades, stream, stored, cursor>>
    BY <1>1, CommitOK
<1>5. TableTypes'
    <2>1. ledger' \subseteq LedgerRow
        <3>1. /\ Buyer(t) \in Users /\ Seller(t) \in Users /\ t.taker \in Orders /\ t.maker \in Orders
              /\ id \in Nat \ {0}
            BY <1>1, TradeFacts, TradesAre DEF WorkerInv, EngineInv
        <3>2. InsertTransaction(t, id) \subseteq LedgerRow
            BY <3>1 DEF InsertTransaction, LedgerRow
        <3> QED
            BY <1>1, <1>2, <3>2 DEF TableTypes
    <2> QED
        BY <1>1, <1>2, <1>3, <1>4, <2>1 DEF TableTypes
<1>6. /\ \A i : IsTrade(i)' <=> IsTrade(i)
      /\ \A i, o : IsCreate(i, o)' <=> IsCreate(i, o)
      /\ \A s : KeysExist(s)' <=> KeysExist(s)
    BY <1>1, <1>4 DEF IsTrade, IsCreate, KeysExist
<1>7. AppliedOK'
    <2> SUFFICES ASSUME NEW i \in 1 .. Len(stream)
                 PROVE  /\ IsTrade(i) => (i \in applied' <=> stream[i].trade \in settled')
                        /\ \A o \in Orders : IsCreate(i, o) /\ i \in applied' /\ EventOf[o] \in stored
                                                => o \in DOMAIN row'
        BY <1>4, <1>6 DEF AppliedOK
    <2>1. CASE i = j
        BY <1>1, <1>4, <2>1 DEF IsTrade, IsCreate, id
    <2>2. CASE i # j
        <3>1. IsTrade(i) => stream[i].trade # id
            BY <1>1, <2>2 DEF WorkerInv, EngineInv, OnceOK, id
        <3> QED
            BY <1>1, <1>4, <2>2, <3>1 DEF WorkerInv, TableInv, AppliedOK
    <2> QED
        BY <2>1, <2>2
<1>8. RowsOK'
    <2>1. \A x \in settled' : /\ KeysExist(trades[x])
                              /\ \E i \in 1 .. Len(stream) : IsTrade(i) /\ stream[i].trade = x
        BY <1>1 DEF WorkerInv, TableInv, RowsOK, KeysExist, id, t
    <2> QED
        BY <1>1, <1>4, <1>6, <2>1 DEF WorkerInv, TableInv, RowsOK
<1>9. TablesOK'
    <2>1. Adds(trades, settled, settled', id, t)
        BY <1>1, <1>2 DEF Adds, t
    <2>2. /\ \A o : Filled(trades, settled', o) = Filled(trades, settled, o) + Fill(t, o)
          /\ \A u : Worth(trades, settled', u) = Worth(trades, settled, u) + Gain(t, u)
          /\ \A u, e : Position(trades, settled', u, e) = Position(trades, settled, u, e) + Lots(t, u, e)
          /\ \A e : Turnover(trades, settled', e) = Turnover(trades, settled, e) + Paid(t, e)
        BY <2>1, SumsAdd
    <2>3. /\ \A o \in DOMAIN row : row[o].filled = Filled(trades, settled, o)
          /\ \A u \in Users : cash[u] = Worth(trades, settled, u)
          /\ \A u \in Users, e \in Events : shares[<<u, e>>] = Position(trades, settled, u, e)
          /\ \A e \in Events : volume[e] = Turnover(trades, settled, e)
          /\ ledger = UNION {InsertTransaction(trades[x], x) : x \in settled}
        BY DEF WorkerInv, TableInv, TablesOK
    <2>4. ledger' = UNION {InsertTransaction(trades[x], x) : x \in settled'}
        BY <1>1, <2>3 DEF t
    <2>5. \A o \in DOMAIN row' : row'[o].filled = Filled(trades, settled', o)
        <3>1. /\ DOMAIN row' = DOMAIN row
              /\ \A o \in DOMAIN row : row'[o].filled = row[o].filled + Fill(t, o)
            BY <1>1
        <3> QED
            BY <2>2, <2>3, <3>1
    <2>6. \A u \in Users : cash'[u] = Worth(trades, settled', u)
        <3>1. \A u \in Users : cash'[u] = cash[u] + Gain(t, u)
            BY <1>3
        <3> QED
            BY <2>2, <2>3, <3>1
    <2>7. \A u \in Users, e \in Events : shares'[<<u, e>>] = Position(trades, settled', u, e)
        <3>1. \A u \in Users, e \in Events : shares'[<<u, e>>] = shares[<<u, e>>] + Lots(t, u, e)
            BY <1>3
        <3> QED
            BY <2>2, <2>3, <3>1
    <2>8. \A e \in Events : volume'[e] = Turnover(trades, settled', e)
        <3>1. \A e \in Events : volume'[e] = volume[e] + Paid(t, e)
            BY <1>3
        <3> QED
            BY <2>2, <2>3, <3>1
    <2>9. trades' = trades
        BY <1>4
    <2> QED
        BY <2>4, <2>5, <2>6, <2>7, <2>8, <2>9 DEF TablesOK
<1> QED
    BY <1>4, <1>5, <1>7, <1>8, <1>9 DEF TableInv

\* An event that is rolled back takes the rows of its orders with it; none of
\* its trades is settled or being settled.
LEMMA DeleteEventOK ==
    ASSUME WorkerInv, EngineInv', NEW e \in Events, DeleteEvent(e)
    PROVE  ControlInv' /\ TableInv'
<1> DEFINE D == {o \in DOMAIN row : EventOf[o] # e}
<1>1. /\ fails < MaxFails /\ fails' = fails + 1
      /\ \A w \in Workers : pc[w] \in {"taker", "maker"} => EventOfTrade(CurrentTrade(w)) # e
      /\ \A id \in settled : EventOfTrade(trades[id]) # e
      /\ stored' = stored \ {e}
      /\ row' = [o \in D |-> row[o]]
      /\ UNCHANGED <<engineVars, stream, groupVars, workerVars, tradeTables, applied, refused, ordered>>
    BY DEF DeleteEvent, Restrict
<1>2. /\ UNCHANGED <<status, trades, stream, overspent, cursor, pending, pc, batch, seen>>
      /\ UNCHANGED <<settled, cash, shares, ledger, volume, applied, refused, ordered>>
    BY <1>1 DEF engineVars, cashVars, groupVars, workerVars, tradeTables
<1>3. /\ DOMAIN row' = D /\ D \subseteq DOMAIN row /\ \A o \in D : row'[o] = row[o]
      /\ \A o \in DOMAIN row : o \in D <=> EventOf[o] # e
    BY <1>1
<1> HIDE DEF D
<1>4. ASSUME NEW t, t \in Trade, EventOf[t.maker] = EventOf[t.taker], EventOfTrade(t) # e, KeysExist(t)
      PROVE  KeysExist(t)'
    BY <1>3, <1>4 DEF KeysExist, EventOfTrade
<1>5. \A i, o : (IsTrade(i)' <=> IsTrade(i)) /\ (IsCreate(i, o)' <=> IsCreate(i, o))
    BY <1>2 DEF IsTrade, IsCreate
<1>6. ControlInv'
    <2>1. WorkerTypes'
        <3>1. fails' \in 0 .. MaxFails
            BY <1>1, LimitsAssumption DEF WorkerInv, ControlInv, WorkerTypes
        <3> QED
            BY <1>2, <3>1 DEF WorkerInv, ControlInv, WorkerTypes
    <2>2. BatchOK' /\ DoneOK' /\ AckedApplied'
        BY <1>2 DEF WorkerInv, ControlInv, BatchOK, DoneOK, AckedApplied, Busy, Current
    <2>3. \A w : /\ Current(w)' = Current(w) /\ CurrentEvent(w)' = CurrentEvent(w)
                 /\ CurrentTrade(w)' = CurrentTrade(w) /\ (InTransaction(w)' <=> InTransaction(w))
        BY <1>2 DEF Current, CurrentEvent, CurrentTrade, InTransaction
    <2>4. ASSUME NEW w \in Workers, InTransaction(w) PROVE KeysExist(CurrentTrade(w))'
        <3>1. PICK t : t = CurrentTrade(w)
            OBVIOUS
        <3>2. Current(w) \in 1 .. Len(stream) /\ IsTrade(Current(w)) /\ KeysExist(t)
            BY <2>4, <3>1, BusyFacts DEF InTransaction, WorkerInv, ControlInv, TransactionOK
        <3>3. CurrentEvent(w).trade \in DOMAIN trades /\ t \in Trade
            BY <3>1, <3>2, EntryTrade DEF WorkerInv, CurrentTrade, CurrentEvent
        <3>4. EventOf[t.maker] = EventOf[t.taker]
            BY <3>1, <3>3 DEF WorkerInv, EngineInv, TradesOK, CurrentTrade
        <3>5. EventOfTrade(t) # e
            BY <1>1, <2>4, <3>1 DEF InTransaction
        <3>6. KeysExist(t)'
            BY <1>4, <3>2, <3>3, <3>4, <3>5
        <3>7. CurrentTrade(w)' = t
            BY <2>3, <3>1
        <3> QED
            BY <3>6, <3>7 DEF KeysExist
    <2>5. TransactionOK'
        BY <1>2, <1>5, <2>3, <2>4 DEF WorkerInv, ControlInv, TransactionOK, IsTrade
    <2> QED
        BY <2>1, <2>2, <2>5 DEF ControlInv
<1>7. TableTypes'
    <2>1. DOMAIN row' \subseteq Orders /\ stored' \subseteq Events
        BY <1>1, <1>3 DEF WorkerInv, TableInv, TableTypes
    <2>2. row' \in [DOMAIN row' -> Row]
        <3>1. \A o \in D : row[o] \in Row
            BY <1>3 DEF WorkerInv, TableInv, TableTypes
        <3> QED
            BY <1>1, <1>3, <3>1
    <2> QED
        BY <1>2, <2>1, <2>2 DEF WorkerInv, TableInv, TableTypes
<1>8. AppliedOK'
    <2> SUFFICES ASSUME NEW i \in 1 .. Len(stream)
                 PROVE  /\ IsTrade(i) => (i \in applied <=> stream[i].trade \in settled)
                        /\ \A o \in Orders : IsCreate(i, o) /\ i \in applied /\ EventOf[o] \in stored'
                                                => o \in DOMAIN row'
        BY <1>2, <1>5 DEF AppliedOK
    <2> QED
        BY <1>1, <1>3 DEF WorkerInv, TableInv, AppliedOK
<1>9. RowsOK'
    <2>1. ASSUME NEW id \in settled PROVE KeysExist(trades[id])'
        <3>1. PICK t : t = trades[id]
            OBVIOUS
        <3>2. id \in DOMAIN trades /\ KeysExist(t)
            BY <3>1 DEF WorkerInv, TableInv, TableTypes, RowsOK
        <3>3. t \in Trade /\ EventOf[t.maker] = EventOf[t.taker] /\ EventOfTrade(t) # e
            BY <1>1, <3>1, <3>2, TradesAre DEF WorkerInv, EngineInv, TradesOK
        <3>4. KeysExist(t)' /\ trades'[id] = t
            BY <1>2, <1>4, <3>1, <3>2, <3>3
        <3> QED
            BY <3>4 DEF KeysExist
    <2>2. \A o \in DOMAIN row' : status'[o] # "NONE" /\ EventOf[o] \in stored'
        BY <1>1, <1>2, <1>3 DEF WorkerInv, TableInv, RowsOK
    <2>3. \A id \in settled : \E i \in 1 .. Len(stream) : IsTrade(i) /\ stream[i].trade = id
        BY DEF WorkerInv, TableInv, RowsOK
    <2> QED
        BY <1>2, <1>5, <2>1, <2>2, <2>3 DEF RowsOK
<1>10. TablesOK'
    <2>1. \A o \in DOMAIN row' : row'[o].filled = Filled(trades, settled, o)
        BY <1>3 DEF WorkerInv, TableInv, TablesOK
    <2> QED
        BY <1>2, <2>1 DEF WorkerInv, TableInv, TablesOK
<1>11. PrefixOK'
    BY <1>2 DEF WorkerInv, TableInv, PrefixOK
<1>12. RefusalExplained'
    <2>1. CausesKept
        <3>1. Len(stream) <= Len(stream)
            BY DEF WorkerInv, EngineInv, EngineTypes
        <3> QED
            BY <1>1, <1>2, <3>1 DEF CausesKept
    <2>2. \A i \in refused : i \in 1 .. Len(stream)
        BY DEF WorkerInv, ControlInv, WorkerTypes, TableInv, TableTypes
    <2> QED
        BY <1>2, <2>1, <2>2, CausesStay DEF WorkerInv, TableInv, RefusalExplained
<1> QED
    BY <1>6, <1>7, <1>8, <1>9, <1>10, <1>11, <1>12 DEF TableInv

\* The inductive invariant.
LEMMA WorkerNext == WorkerInv /\ [Next]_vars => WorkerInv'
<1> SUFFICES ASSUME WorkerInv, [Next]_vars PROVE WorkerInv'
    OBVIOUS
<1>1. EngineInv' /\ CashInv'
    BY EngineNext, CashNext DEF WorkerInv
<1>5. CASE \E e \in Events : DeleteEvent(e)
    BY <1>1, <1>5, DeleteEventOK DEF WorkerInv
<1>2. CASE EngineStep
    BY <1>1, <1>2, EngineStepGrows, GrowthOK DEF WorkerInv
<1>3. ASSUME NEW w \in Workers, Start(w) \/ WorkerStep(w) \/ WorkerFails(w)
      PROVE  ControlInv' /\ TableInv'
    <2>1. CASE Handle(w)
        BY <2>1, OrderCreatedOK, OrderOrphanedOK, OrderCanceledOK, InsertTradeOK, TradeKnownOK,
           TradeOrphanedOK, FillTakerOK, SettleOK, InsufficientOK DEF Handle
    <2> QED
        BY <1>3, <2>1, StartOK, ReadOK, AckOK, WorkerFailsOK DEF WorkerStep
<1>4. CASE UNCHANGED vars
    <2>1. EngineGrows
        <3>1. Len(stream) <= Len(stream)
            BY DEF WorkerInv, EngineInv, EngineTypes
        <3> QED
            BY <1>4, <3>1 DEF vars, engineVars, cashVars, EngineGrows
    <2> QED
        BY <1>1, <2>1, GrowthOK DEF WorkerInv
<1> QED
    BY <1>1, <1>2, <1>3, <1>4, <1>5 DEF Next, WorkerInv

\* The invariant holds always.
LEMMA WorkerAlways == Spec => []WorkerInv
    BY WorkerInit, WorkerNext, PTL DEF Spec

\* Every variable has its type.
THEOREM TypeCorrect == Spec => []TypeOK
<1>1. WorkerInv => TypeOK
    BY DEF WorkerInv, EngineInv, EngineTypes, CashInv, CashTypes, ControlInv, WorkerTypes,
       TableInv, TableTypes, TypeOK
<1> QED
    BY <1>1, WorkerAlways, PTL

\* An entry leaves the pending list of the group only when its effects are in
\* Postgres, whatever workers crash, restart, claim each other's entries and
\* handle them twice.
THEOREM AckedAlwaysApplied == Spec => []AckedApplied
<1>1. WorkerInv => AckedApplied
    BY DEF WorkerInv, ControlInv
<1> QED
    BY <1>1, WorkerAlways, PTL

\* The sums of SettledOnce, in the terms of the invariant.
LEMMA SumsAre ==
    ASSUME settled \subseteq DOMAIN trades
    PROVE  /\ \A o : Quantity({id \in settled : o \in {trades[id].taker, trades[id].maker}})
                        = Filled(trades, settled, o)
           /\ \A u : Balance + Money(Sold(u)) - Money(Bought(u)) = Worth(trades, settled, u)
           /\ \A u, e : Quantity(Of(Bought(u), e)) - Quantity(Of(Sold(u), e))
                        = Position(trades, settled, u, e)
           /\ \A e : Money(Of(settled, e)) = Turnover(trades, settled, e)
<1>1. \A S : /\ Quantity(S) = SumFunctionOnSet(Fills(trades), S)
             /\ Money(S) = SumFunctionOnSet(Costs(trades), S)
    BY Zenon DEF Quantity, Money, Fills, Costs
<1>2. /\ \A o : {id \in settled : o \in {trades[id].taker, trades[id].maker}} = With(trades, settled, o)
      /\ \A u : Bought(u) = BoughtBy(trades, settled, u) /\ Sold(u) = SoldBy(trades, settled, u)
      /\ \A S, e : Of(S, e) = About(trades, S, e)
    BY DEF With, Involves, Bought, BoughtBy, Sold, SoldBy, Of, About
<1>3. ASSUME NEW o
      PROVE  Quantity({id \in settled : o \in {trades[id].taker, trades[id].maker}})
                = Filled(trades, settled, o)
    BY <1>1, <1>2, Zenon DEF Filled
<1>4. ASSUME NEW u
      PROVE  Balance + Money(Sold(u)) - Money(Bought(u)) = Worth(trades, settled, u)
    BY <1>1, <1>2, Zenon DEF Worth
<1>5. ASSUME NEW u, NEW e
      PROVE  Quantity(Of(Bought(u), e)) - Quantity(Of(Sold(u), e)) = Position(trades, settled, u, e)
    BY <1>1, <1>2, Zenon DEF Position
<1>6. ASSUME NEW e PROVE Money(Of(settled, e)) = Turnover(trades, settled, e)
    BY <1>1, <1>2, Zenon DEF Turnover
<1> QED
    BY <1>3, <1>4, <1>5, <1>6

\* Fills, balances, positions, volume and ledger show each settled trade once.
THEOREM AlwaysSettledOnce == Spec => []SettledOnce
<1>1. WorkerInv => SettledOnce
    <2> SUFFICES ASSUME WorkerInv PROVE SettledOnce
        OBVIOUS
    <2>1. settled \subseteq DOMAIN trades /\ TablesOK
        BY DEF WorkerInv, TableInv, TableTypes
    <2>2. \A o \in DOMAIN row : row[o].filled =
              Quantity({id \in settled : o \in {trades[id].taker, trades[id].maker}})
        BY <2>1, SumsAre DEF TablesOK
    <2>3. \A u \in Users : cash[u] = Balance + Money(Sold(u)) - Money(Bought(u))
        BY <2>1, SumsAre DEF TablesOK
    <2>4. \A u \in Users : \A e \in Events :
              shares[<<u, e>>] = Quantity(Of(Bought(u), e)) - Quantity(Of(Sold(u), e))
        <3> SUFFICES ASSUME NEW u \in Users, NEW e \in Events
                     PROVE  shares[<<u, e>>] = Quantity(Of(Bought(u), e)) - Quantity(Of(Sold(u), e))
            OBVIOUS
        <3>1. shares[<<u, e>>] = Position(trades, settled, u, e)
            BY <2>1 DEF TablesOK
        <3>2. Quantity(Of(Bought(u), e)) - Quantity(Of(Sold(u), e)) = Position(trades, settled, u, e)
            BY <2>1, SumsAre, Zenon
        <3> QED
            BY <3>1, <3>2, Zenon
    <2>5. \A e \in Events : volume[e] = Money(Of(settled, e))
        BY <2>1, SumsAre DEF TablesOK
    <2>6. ledger = UNION {InsertTransaction(trades[id], id) : id \in settled}
        BY <2>1 DEF TablesOK
    <2> QED
        BY <2>2, <2>3, <2>4, <2>5, <2>6 DEF SettledOnce
<1> QED
    BY <1>1, WorkerAlways, PTL

\* Postgres refuses an entry only if its event was rolled back, its buyer's MARKET
\* BUY was executed beyond the buyer's cash, events were applied out of order, or
\* one trade overtook another on its way to the stream.
THEOREM RefusalAlwaysExplained == Spec => []RefusalExplained
<1>1. WorkerInv => RefusalExplained
    BY DEF WorkerInv, TableInv
<1> QED
    BY <1>1, WorkerAlways, PTL

-----------------------------------------------------------------------------
(* One worker                                                              *)

\* There is one worker.
OnlyOne == \A v, w \in Workers : v = w

\* The statuses that the worker has read are what its UPDATEs will see.
SeenOK ==
    \A w \in Workers :
        /\ InTransaction(w) =>
              seen[w].taker = FillStatus(CurrentTrade(w).taker, CurrentTrade(w).quantity)
        /\ pc[w] = "maker" =>
              seen[w].maker = FillStatus(CurrentTrade(w).maker, CurrentTrade(w).quantity)

\* The cancellation of order o is in Postgres.
CancelApplied(o) == \E i \in applied : IsCancel(i, o)

\* In order, a row has the status that its fills and its cancellation give it.
RowStatusOK ==
    ordered => \A o \in DOMAIN row :
        row[o].status = IF CancelApplied(o) THEN "CANCELED" ELSE StatusOf(o, row[o].filled)

\* An order is canceled after it was created.
CancelLast ==
    \A i, k \in 1 .. Len(stream), o \in Orders : IsCancel(k, o) /\ IsCreate(i, o) => i < k

\* What one worker promises besides.
ExactInv == SeenOK /\ FilledExact /\ RowStatusOK /\ CancelLast

\* Rows are never filled beyond the engine's order.
LEMMA FillBound ==
    ASSUME EngineInv, NEW S \in SUBSET DOMAIN trades, NEW o \in Orders
    PROVE  /\ Filled(trades, S, o) <= got[o] /\ got[o] <= QuantityOf[o]
           /\ Filled(trades, S, o) \in Nat /\ got[o] \in Nat /\ QuantityOf[o] \in Nat \ {0}
<1> DEFINE D == DOMAIN trades
           F == Fills(trades)
           A == With(trades, S, o)
           B == With(trades, D, o)
<1>1. trades \in Seq(Trade)
    BY DEF EngineInv, EngineTypes
<1>2. A \in SUBSET B /\ B \subseteq DOMAIN trades
    BY DEF With
<1>3. /\ Filled(trades, S, o) = SumFunctionOnSet(F, A)
      /\ Filled(trades, D, o) = SumFunctionOnSet(F, B)
    BY Zenon DEF Filled
<1>4. got[o] = Filled(trades, D, o)
    BY DEF EngineInv, GotOK
<1> HIDE DEF A, B, D, F
<1>5. IsFiniteSet(B) /\ \A id \in B : F[id] \in Nat
    BY <1>1, <1>2, TradeSums DEF F
<1>6. SumFunctionOnSet(F, A) <= SumFunctionOnSet(F, B)
    BY <1>2, <1>5, SumSubset
<1>7. Filled(trades, S, o) <= got[o]
    BY <1>3, <1>4, <1>6
<1>8. Filled(trades, S, o) \in Nat
    BY <1>1, SumTypes
<1> QED
    BY <1>7, <1>8, OrdersAssumption DEF EngineInv, EngineTypes, StatusOK

\* Events are added to the stream at its end.
LEMMA CancelLastOK ==
    ASSUME EngineInv, CancelLast, [Next]_vars
    PROVE  CancelLast'
<1>1. ASSUME UNCHANGED stream PROVE CancelLast'
    BY <1>1 DEF CancelLast, IsCancel, IsCreate
<1>2. ASSUME NEW ev \in OrderEvent \cup TradeEvent, stream' = Append(stream, ev),
             ev.type = "ORDER_CREATED" => \A k \in 1 .. Len(stream) : ~IsCancel(k, ev.order)
      PROVE  CancelLast'
    <2> DEFINE n == Len(stream)
    <2>1. /\ n \in Nat /\ Len(stream') = n + 1
          /\ \A i \in 1 .. Len(stream') : i \in 1 .. n \/ i = n + 1
        BY <1>2, StreamGrows DEF EngineInv
    <2>2. /\ \A i \in 1 .. n :
                /\ IsTrade(i)' <=> IsTrade(i)
                /\ \A o : (IsCreate(i, o)' <=> IsCreate(i, o)) /\ (IsCancel(i, o)' <=> IsCancel(i, o))
          /\ \A i : i = n + 1 =>
                /\ \A o : /\ IsCreate(i, o)' <=> ev.type = "ORDER_CREATED" /\ ev.order = o
                          /\ IsCancel(i, o)' <=> ev.type = "ORDER_CANCELED" /\ ev.order = o
        BY <1>2, EventsGrow DEF EngineInv
    <2>3. CancelLast
        OBVIOUS
    <2> SUFFICES ASSUME NEW i \in 1 .. Len(stream'), NEW k \in 1 .. Len(stream'), NEW o \in Orders,
                        IsCancel(k, o)', IsCreate(i, o)'
                 PROVE  i < k
        BY DEF CancelLast
    <2>4. CASE i \in 1 .. n /\ k \in 1 .. n
        BY <2>2, <2>3, <2>4 DEF CancelLast
    <2>5. CASE i \in 1 .. n /\ k = n + 1
        BY <2>1, <2>5
    <2>6. CASE i = n + 1
        <3>1. ev.type = "ORDER_CREATED" /\ ev.order = o
            BY <2>2, <2>6
        <3>2. k \in 1 .. n
            BY <2>1, <2>2, <3>1
        <3> QED
            BY <1>2, <2>2, <3>1, <3>2
    <2> QED
        BY <2>1, <2>4, <2>5, <2>6
<1>3. ASSUME NEW o \in Orders, AcceptOrder(o) PROVE CancelLast'
    <2> DEFINE ev == [type |-> "ORDER_CREATED", order |-> o]
    <2>1. ev \in OrderEvent /\ ev.type = "ORDER_CREATED" /\ ev.order = o
        BY DEF OrderEvent
    <2>2. stream' = Append(stream, ev) /\ status[o] = "NONE"
        BY <1>3 DEF AcceptOrder
    <2>3. \A k \in 1 .. Len(stream) : ~IsCancel(k, o)
        BY <2>2 DEF EngineInv, EventsOK
    <2> HIDE DEF ev
    <2> QED
        BY <1>2, <2>1, <2>2, <2>3
<1>4. ASSUME NEW o \in Orders, CancelOrder(o) PROVE CancelLast'
    <2> DEFINE ev == [type |-> "ORDER_CANCELED", order |-> o]
    <2>1. ev \in OrderEvent /\ ev.type = "ORDER_CANCELED"
        BY DEF OrderEvent
    <2>2. stream' = Append(stream, ev)
        BY <1>4 DEF CancelOrder
    <2> HIDE DEF ev
    <2> QED
        BY <1>2, <2>1, <2>2
<1>5. ASSUME NEW p \in Partitions, PublishTrade(p) PROVE CancelLast'
    <2> DEFINE ev == [type |-> "TRADE_EXECUTED", trade |-> Head(unsent[p])]
    <2>1. stream' = Append(stream, ev) /\ unsent[p] # << >> /\ unsent[p] \in Seq(Nat)
        BY <1>5 DEF PublishTrade, EngineInv, EngineTypes
    <2>2. Head(unsent[p]) = unsent[p][1] /\ 1 \in 1 .. Len(unsent[p])
        BY <2>1
    <2>3. unsent[p][1] \in DOMAIN trades
        BY <2>2 DEF EngineInv, UnsentOK
    <2>4. Head(unsent[p]) \in Nat \ {0}
        BY <2>2, <2>3, TradesAre DEF EngineInv
    <2>5. ev \in TradeEvent /\ ev.type = "TRADE_EXECUTED"
        BY <2>4 DEF TradeEvent
    <2> HIDE DEF ev
    <2> QED
        BY <1>2, <2>1, <2>5
<1>6. CASE EngineStep
    <2>1. ASSUME NEW p \in Partitions, NEW m \in Orders, ExecutePair(p, m) PROVE UNCHANGED stream
        BY <2>1 DEF ExecutePair
    <2>2. ASSUME NEW p \in Partitions, FinishMatch(p) PROVE UNCHANGED stream
        BY <2>2 DEF FinishMatch
    <2> QED
        BY <1>1, <1>3, <1>4, <1>5, <1>6, <2>1, <2>2 DEF EngineStep
<1>7. CASE \E w \in Workers : Start(w) \/ WorkerStep(w) \/ WorkerFails(w)
    BY <1>1, <1>7, WorkersOnly
<1>8. CASE UNCHANGED vars \/ \E e \in Events : DeleteEvent(e)
    BY <1>1, <1>8 DEF vars, DeleteEvent
<1> QED
    BY <1>6, <1>7, <1>8 DEF Next

\* The engine has no part in it.
LEMMA GrowthExact ==
    ASSUME WorkerInv, EngineInv', SeenOK /\ FilledExact /\ RowStatusOK, EngineGrows
    PROVE  SeenOK' /\ FilledExact' /\ RowStatusOK'
<1>1. /\ UNCHANGED <<pc, batch, seen, row, applied, ordered>>
      /\ \A i \in 1 .. Len(stream) : stream'[i] = stream[i]
      /\ \A id \in DOMAIN trades : trades'[id] = trades[id]
    BY DEF EngineGrows, workerVars, historyVars
<1>2. FilledExact'
    BY <1>1 DEF FilledExact
<1>3. RowStatusOK'
    <2>1. \A i \in applied : i \in 1 .. Len(stream)
        BY DEF WorkerInv, ControlInv, WorkerTypes, TableInv, TableTypes
    <2>2. \A o : CancelApplied(o)' <=> CancelApplied(o)
        BY <1>1, <2>1 DEF CancelApplied, IsCancel
    <2> QED
        BY <1>1, <2>2 DEF RowStatusOK, StatusOf
<1>4. SeenOK'
    <2> SUFFICES ASSUME NEW w \in Workers, InTransaction(w)
                 PROVE  /\ seen'[w].taker = FillStatus(CurrentTrade(w).taker, CurrentTrade(w).quantity)'
                        /\ pc'[w] = "maker" => seen'[w].maker =
                              FillStatus(CurrentTrade(w).maker, CurrentTrade(w).quantity)'
        BY <1>1 DEF SeenOK, InTransaction
    <2>1. Current(w)' = Current(w)
        BY <1>1 DEF Current
    <2>2. Current(w) \in 1 .. Len(stream)
        BY BusyFacts DEF InTransaction
    <2>3. CurrentEvent(w)' = CurrentEvent(w)
        BY <1>1, <2>1, <2>2 DEF CurrentEvent
    <2>4. CurrentEvent(w).trade \in DOMAIN trades
        BY <2>2, EntryTrade DEF WorkerInv, ControlInv, TransactionOK, CurrentEvent
    <2>5. CurrentTrade(w)' = CurrentTrade(w)
        BY <1>1, <2>3, <2>4 DEF CurrentTrade
    <2> QED
        BY <1>1, <2>5 DEF SeenOK, FillStatus
<1> QED
    BY <1>2, <1>3, <1>4

\* A step that leaves rows alone and ends outside a transaction.
LEMMA QuietExact ==
    ASSUME FilledExact /\ RowStatusOK, UNCHANGED <<stream, row, applied>>, ordered' => ordered
    PROVE  FilledExact' /\ RowStatusOK'
<1>1. FilledExact'
    BY DEF FilledExact
<1>2. \A o : CancelApplied(o)' <=> CancelApplied(o)
    BY DEF CancelApplied, IsCancel
<1> QED
    BY <1>1, <1>2 DEF RowStatusOK, StatusOf

\* The only worker has no transaction open.
LEMMA NoneOpen ==
    ASSUME OnlyOne, NEW w \in Workers, pc'[w] \notin {"taker", "maker"}
    PROVE  SeenOK'
    BY DEF OnlyOne, SeenOK, InTransaction

\* Steps that touch no row.
LEMMA ReadingExact ==
    ASSUME OnlyOne, WorkerInv, ExactInv, NEW w \in Workers,
           \/ Start(w) \/ Read(w) \/ Ack(w) \/ WorkerFails(w) \/ TradeKnown(w)
           \/ OrderOrphaned(w) \/ TradeOrphaned(w) \/ Insufficient(w) \/ InsertTrade(w) \/ FillTaker(w)
    PROVE  SeenOK' /\ FilledExact' /\ RowStatusOK'
<1>1. pc \in [Workers -> {"down", "read", "handle", "taker", "maker", "ack"}]
      /\ seen \in [Workers -> [taker : Statuses, maker : Statuses]]
    BY DEF WorkerInv, ControlInv, WorkerTypes
<1>2. UNCHANGED <<stream, row, applied, trades>> /\ (ordered' => ordered)
    <2>1. ASSUME Refuse(w) PROVE UNCHANGED <<stream, row, applied, trades>> /\ (ordered' => ordered)
        BY <2>1 DEF Refuse, End, engineVars
    <2>2. ASSUME WorkerFails(w) PROVE UNCHANGED <<stream, row, applied, trades, ordered>>
        BY <2>2 DEF WorkerFails, End, engineVars
    <2>3. ASSUME \/ Start(w) \/ Read(w) \/ Ack(w) \/ TradeKnown(w) \/ InsertTrade(w) \/ FillTaker(w)
          PROVE  UNCHANGED <<stream, row, applied, trades, ordered>>
        BY <2>3 DEF Start, Read, Ack, TradeKnown, InsertTrade, FillTaker, historyVars, engineVars
    <2> QED
        BY <2>1, <2>2, <2>3 DEF OrderOrphaned, TradeOrphaned, Insufficient
<1>3. FilledExact' /\ RowStatusOK'
    BY <1>2, QuietExact DEF ExactInv
<1>4. CASE \/ Start(w) \/ Read(w) \/ Ack(w) \/ WorkerFails(w) \/ TradeKnown(w)
           \/ OrderOrphaned(w) \/ TradeOrphaned(w) \/ Insufficient(w)
    <2>1. pc'[w] \notin {"taker", "maker"}
        BY <1>1, <1>4 DEF Start, Read, Ack, WorkerFails, TradeKnown, OrderOrphaned, TradeOrphaned,
           Insufficient, End, Refuse, Goto
    <2> QED
        BY <1>3, <2>1, NoneOpen
<1>5. CASE InsertTrade(w)
    <2>1. /\ pc' = [pc EXCEPT ![w] = "taker"] /\ batch' = batch
          /\ seen' = [seen EXCEPT ![w].taker =
                        FillStatus(CurrentTrade(w).taker, CurrentTrade(w).quantity)]
        BY <1>5 DEF InsertTrade
    <2>2. /\ pc'[w] = "taker"
          /\ seen'[w].taker = FillStatus(CurrentTrade(w).taker, CurrentTrade(w).quantity)
        BY <1>1, <2>1
    <2>3. SeenOK'
        BY <1>2, <2>1, <2>2 DEF OnlyOne, SeenOK, FillStatus, CurrentTrade, CurrentEvent, Current
    <2> QED
        BY <1>3, <2>3
<1>6. CASE FillTaker(w)
    <2>1. /\ pc[w] = "taker" /\ pc' = [pc EXCEPT ![w] = "maker"] /\ batch' = batch
          /\ seen' = [seen EXCEPT ![w].maker =
                        FillStatus(CurrentTrade(w).maker, CurrentTrade(w).quantity)]
        BY <1>6 DEF FillTaker
    <2>2. seen[w].taker = FillStatus(CurrentTrade(w).taker, CurrentTrade(w).quantity)
        BY <2>1 DEF ExactInv, SeenOK, InTransaction
    <2>3. /\ pc'[w] = "maker"
          /\ seen'[w].taker = FillStatus(CurrentTrade(w).taker, CurrentTrade(w).quantity)
          /\ seen'[w].maker = FillStatus(CurrentTrade(w).maker, CurrentTrade(w).quantity)
        BY <1>1, <2>1, <2>2
    <2>4. SeenOK'
        BY <1>2, <2>1, <2>3 DEF OnlyOne, SeenOK, FillStatus, CurrentTrade, CurrentEvent, Current
    <2> QED
        BY <1>3, <2>4
<1> QED
    BY <1>4, <1>5, <1>6

\* A commit ends outside a transaction and adds one entry to the applied ones.
LEMMA CommitExact ==
    ASSUME OnlyOne, WorkerInv, NEW w \in Workers, Commits(w)
    PROVE  /\ SeenOK' /\ (ordered' => ordered)
           /\ \A o : CancelApplied(o)' <=> CancelApplied(o) \/ IsCancel(Current(w), o)
<1>1. /\ pc' = [pc EXCEPT ![w] = "ack"]
      /\ pc \in [Workers -> {"down", "read", "handle", "taker", "maker", "ack"}]
    BY DEF Commits, Goto, WorkerInv, ControlInv, WorkerTypes
<1>2. SeenOK'
    BY <1>1, NoneOpen
<1>3. applied' = applied \cup {Current(w)} /\ stream' = stream /\ (ordered' => ordered)
    BY DEF Commits, Applied
<1>4. \A o : CancelApplied(o)' <=> CancelApplied(o) \/ IsCancel(Current(w), o)
    BY <1>3 DEF CancelApplied, IsCancel
<1> QED
    BY <1>2, <1>3, <1>4

\* In order, the cancellation of an order is applied after its creation and
\* after all of its trades.
LEMMA CancelAppliedLast ==
    ASSUME WorkerInv, CancelLast, ordered, NEW o \in Orders, CancelApplied(o)
    PROVE  \A j \in 1 .. Len(stream) :
              /\ IsCreate(j, o) => j \in applied
              /\ IsTrade(j) /\ Involves(trades[stream[j].trade], o) => j \in applied
<1>1. PICK k \in applied : IsCancel(k, o)
    BY DEF CancelApplied
<1>2. k \in 1 .. Len(stream) /\ Len(stream) \in Nat
    BY DEF WorkerInv, ControlInv, WorkerTypes, TableInv, TableTypes, EngineInv, EngineTypes
<1>3. 1 .. k \subseteq applied
    BY <1>1 DEF WorkerInv, TableInv, PrefixOK
<1> SUFFICES ASSUME NEW j \in 1 .. Len(stream)
             PROVE  /\ IsCreate(j, o) => j \in applied
                    /\ IsTrade(j) /\ Involves(trades[stream[j].trade], o) => j \in applied
    OBVIOUS
<1>4. CASE j \in 1 .. k
    BY <1>3, <1>4
<1>5. CASE j \notin 1 .. k
    <2>1. k \in 1 .. j - 1 /\ ~(j < k)
        BY <1>2, <1>5
    <2>2. ~IsCreate(j, o)
        BY <1>1, <1>2, <2>1 DEF CancelLast
    <2>3. ~(IsTrade(j) /\ Involves(trades[stream[j].trade], o))
        BY <1>1, <2>1 DEF WorkerInv, EngineInv, OrderingOK
    <2> QED
        BY <2>2, <2>3
<1> QED
    BY <1>4, <1>5

\* An order gets its row before anything else happens to it.
LEMMA OrderCreatedExact ==
    ASSUME OnlyOne, WorkerInv, ExactInv, NEW w \in Workers, OrderCreated(w)
    PROVE  SeenOK' /\ FilledExact' /\ RowStatusOK'
<1> DEFINE o == CurrentOrder(w)
           fresh == [filled |-> 0, remaining |-> QuantityOf[o], status |-> "PENDING"]
<1>1. /\ Current(w) \in 1 .. Len(stream) /\ IsCreate(Current(w), o)
      /\ \A x : ~IsCancel(Current(w), x)
      /\ o \in Orders /\ EventOf[o] \in stored
      /\ DOMAIN row' = DOMAIN row \cup {o}
      /\ \A x \in DOMAIN row : row'[x] = row[x]
      /\ o \notin DOMAIN row => row'[o] = fresh
      /\ Commits(w)
    BY OrderCreatedFacts
<1>2. /\ SeenOK' /\ (ordered' => ordered)
      /\ \A x : CancelApplied(x)' <=> CancelApplied(x)
    BY <1>1, CommitExact
<1>3. fresh.filled = 0 /\ fresh.remaining = QuantityOf[o] /\ fresh.status = "PENDING"
    OBVIOUS
<1>4. QuantityOf[o] \in Nat /\ QuantityOf[o] > 0
    BY <1>1, OrdersAssumption
<1>5. ASSUME ordered, o \notin DOMAIN row PROVE ~CancelApplied(o)
    <2>1. Current(w) \notin applied
        BY <1>1, <1>5 DEF WorkerInv, TableInv, AppliedOK
    <2> QED
        BY <1>1, <1>5, <2>1, CancelAppliedLast DEF ExactInv
<1> HIDE DEF o, fresh
<1>6. FilledExact'
    <2> SUFFICES ASSUME NEW x \in DOMAIN row'
                 PROVE  /\ row'[x].status = "FILLED" <=> row'[x].filled = QuantityOf[x]
                        /\ row'[x].remaining = QuantityOf[x] - row'[x].filled
        BY DEF FilledExact
    <2>1. CASE x \in DOMAIN row
        BY <1>1, <2>1 DEF ExactInv, FilledExact
    <2>2. CASE x = o /\ o \notin DOMAIN row
        BY <1>1, <1>3, <1>4, <2>2
    <2> QED
        BY <1>1, <2>1, <2>2
<1>7. RowStatusOK'
    <2> SUFFICES ASSUME ordered', NEW x \in DOMAIN row'
                 PROVE  row'[x].status = IF CancelApplied(x)' THEN "CANCELED"
                                         ELSE StatusOf(x, row'[x].filled)
        BY DEF RowStatusOK, StatusOf
    <2>1. CASE x \in DOMAIN row
        BY <1>1, <1>2, <2>1 DEF ExactInv, RowStatusOK
    <2>2. CASE x = o /\ o \notin DOMAIN row
        BY <1>1, <1>2, <1>3, <1>5, <2>2 DEF StatusOf
    <2> QED
        BY <1>1, <2>1, <2>2
<1> QED
    BY <1>2, <1>6, <1>7

\* A canceled order is not filled, and its row never will be.
LEMMA OrderCanceledExact ==
    ASSUME OnlyOne, WorkerInv, ExactInv, NEW w \in Workers, OrderCanceled(w)
    PROVE  SeenOK' /\ FilledExact' /\ RowStatusOK'
<1> DEFINE o == CurrentOrder(w)
<1>1. /\ Current(w) \in 1 .. Len(stream) /\ o \in Orders
      /\ \A x : IsCancel(Current(w), x) <=> x = o
      /\ DOMAIN row' = DOMAIN row
      /\ \A x \in DOMAIN row : /\ x # o => row'[x] = row[x]
                               /\ x = o => row'[x].status = "CANCELED"
                               /\ row'[x].filled = row[x].filled
                               /\ row'[x].remaining = row[x].remaining
      /\ Commits(w)
    BY OrderCanceledFacts
<1> HIDE DEF o
<1>2. /\ SeenOK' /\ (ordered' => ordered)
      /\ \A x : CancelApplied(x)' <=> CancelApplied(x) \/ x = o
    BY <1>1, CommitExact
<1>3. got[o] < QuantityOf[o]
    BY <1>1 DEF WorkerInv, EngineInv, EventsOK
<1>4. ASSUME o \in DOMAIN row PROVE row[o].filled # QuantityOf[o]
    <2>1. row[o].filled = Filled(trades, settled, o) /\ settled \in SUBSET DOMAIN trades
        BY <1>4 DEF WorkerInv, TableInv, TablesOK, TableTypes
    <2>2. /\ Filled(trades, settled, o) <= got[o] /\ Filled(trades, settled, o) \in Nat
          /\ got[o] \in Nat /\ QuantityOf[o] \in Nat
        BY <1>1, <2>1, FillBound DEF WorkerInv
    <2> QED
        BY <1>3, <2>1, <2>2
<1>5. FilledExact'
    <2> SUFFICES ASSUME NEW x \in DOMAIN row'
                 PROVE  /\ row'[x].status = "FILLED" <=> row'[x].filled = QuantityOf[x]
                        /\ row'[x].remaining = QuantityOf[x] - row'[x].filled
        BY DEF FilledExact
    <2>1. CASE x # o
        BY <1>1, <2>1 DEF ExactInv, FilledExact
    <2>2. CASE x = o
        BY <1>1, <1>4, <2>2 DEF ExactInv, FilledExact
    <2> QED
        BY <2>1, <2>2
<1>6. RowStatusOK'
    <2> SUFFICES ASSUME ordered', NEW x \in DOMAIN row'
                 PROVE  row'[x].status = IF CancelApplied(x)' THEN "CANCELED"
                                         ELSE StatusOf(x, row'[x].filled)
        BY DEF RowStatusOK, StatusOf
    <2>1. CASE x # o
        BY <1>1, <1>2, <2>1 DEF ExactInv, RowStatusOK
    <2>2. CASE x = o
        BY <1>1, <1>2, <2>2
    <2> QED
        BY <2>1, <2>2
<1> QED
    BY <1>2, <1>5, <1>6

\* The statuses that a settlement writes were read before it, and still hold.
LEMMA SettleExact ==
    ASSUME OnlyOne, WorkerInv, ExactInv, NEW w \in Workers, Settle(w)
    PROVE  SeenOK' /\ FilledExact' /\ RowStatusOK'
<1> DEFINE j == Current(w)
           id == stream[j].trade
           t == trades[id]
           q == t.quantity
<1>1. /\ pc[w] = "maker" /\ CurrentTrade(w) = t
      /\ j \in 1 .. Len(stream) /\ IsTrade(j)
      /\ id \in DOMAIN trades /\ id \notin settled /\ settled' = settled \cup {id}
      /\ t \in Trade
      /\ t.taker \in DOMAIN row /\ t.maker \in DOMAIN row
      /\ Commits(w)
    BY SettleFacts
<1>2. /\ DOMAIN row' = DOMAIN row
      /\ \A o \in DOMAIN row : row'[o].filled = row[o].filled + Fill(t, o)
      /\ \A o \in DOMAIN row : ~Involves(t, o) => row'[o] = row[o]
      /\ row'[t.taker] = UpdateOrderFill(row[t.taker], t.taker, t.quantity, seen[w].taker)
      /\ row'[t.maker] = UpdateOrderFill(row[t.maker], t.maker, t.quantity, seen[w].maker)
    BY SettleFacts
<1>3. /\ SeenOK' /\ (ordered' => ordered)
      /\ \A o : CancelApplied(o)' <=> CancelApplied(o)
    BY <1>1, CommitExact DEF IsTrade, IsCancel
<1>4. /\ seen[w].taker = FillStatus(t.taker, q) /\ seen[w].maker = FillStatus(t.maker, q)
    BY <1>1 DEF ExactInv, SeenOK, InTransaction
<1>5. DOMAIN row \subseteq Orders /\ row \in [DOMAIN row -> Row]
    BY DEF WorkerInv, TableInv, TableTypes
<1>6. ASSUME ordered, NEW o \in Orders, Involves(t, o) PROVE ~CancelApplied(o)
    <2>1. j \notin applied
        BY <1>1 DEF WorkerInv, TableInv, AppliedOK
    <2> QED
        BY <1>1, <1>6, <2>1, CancelAppliedLast DEF ExactInv
<1>7. \A o \in DOMAIN row : row'[o].filled <= QuantityOf[o]
    <2>1. TableInv' /\ trades' = trades
        BY <1>1, SettleOK DEF Commits, engineVars
    <2>2. PICK S : S = settled'
        OBVIOUS
    <2>3. S \in SUBSET DOMAIN trades /\ \A o \in DOMAIN row : row'[o].filled = Filled(trades, S, o)
        BY <1>2, <2>1, <2>2 DEF TableInv, TableTypes, TablesOK
    <2>4. \A o \in Orders : /\ Filled(trades, S, o) <= got[o] /\ got[o] <= QuantityOf[o]
                            /\ Filled(trades, S, o) \in Nat /\ got[o] \in Nat /\ QuantityOf[o] \in Nat
        BY <2>3, FillBound DEF WorkerInv
    <2> QED
        BY <1>5, <2>3, <2>4
<1>8. q \in Nat \ {0}
    BY <1>1, TradeFacts
<1> HIDE DEF t, id, q
<1>9. ASSUME NEW o \in DOMAIN row, Involves(t, o)
      PROVE  /\ row'[o].status = "FILLED" <=> row'[o].filled = QuantityOf[o]
             /\ row'[o].remaining = QuantityOf[o] - row'[o].filled
             /\ row'[o].status = StatusOf(o, row'[o].filled)
    <2>1. row'[o] = UpdateOrderFill(row[o], o, q, FillStatus(o, q))
        BY <1>2, <1>4, <1>9 DEF Involves, q
    <2>2. row[o].filled \in Nat /\ QuantityOf[o] \in Nat
        <3>1. row[o] \in Row /\ o \in Orders
            BY <1>5
        <3> QED
            BY <3>1, OrdersAssumption DEF Row
    <2>3. row[o].filled + q <= QuantityOf[o]
        BY <1>2, <1>7, <1>9 DEF Fill, q
    <2>4. FillStatus(o, q) = IF row[o].filled + q >= QuantityOf[o] THEN "FILLED" ELSE "PARTIAL"
        BY DEF FillStatus
    <2>5. PICK r, s, n, st : r = row[o] /\ s = row'[o] /\ n = q /\ st = FillStatus(o, q)
        OBVIOUS
    <2>6. /\ n \in Nat \ {0} /\ r.filled \in Nat /\ QuantityOf[o] \in Nat
          /\ r.filled + n <= QuantityOf[o] /\ s = UpdateOrderFill(r, o, n, st)
          /\ st = IF r.filled + n >= QuantityOf[o] THEN "FILLED" ELSE "PARTIAL"
        BY <1>8, <2>1, <2>2, <2>3, <2>4, <2>5
    <2>7. /\ s.filled = r.filled + n /\ s.status = st
          /\ s.remaining = IF r.filled + n > QuantityOf[o] THEN 0 ELSE QuantityOf[o] - (r.filled + n)
        BY <2>6 DEF UpdateOrderFill
    <2>8. /\ s.status = "FILLED" <=> s.filled = QuantityOf[o]
          /\ s.remaining = QuantityOf[o] - s.filled
          /\ s.status = StatusOf(o, s.filled)
        BY <2>6, <2>7 DEF StatusOf
    <2> QED
        BY <2>5, <2>8
<1>10. FilledExact'
    <2> SUFFICES ASSUME NEW x \in DOMAIN row
                 PROVE  /\ row'[x].status = "FILLED" <=> row'[x].filled = QuantityOf[x]
                        /\ row'[x].remaining = QuantityOf[x] - row'[x].filled
        BY <1>2 DEF FilledExact
    <2>1. CASE Involves(t, x)
        BY <1>9, <2>1
    <2>2. CASE ~Involves(t, x)
        BY <1>2, <2>2 DEF ExactInv, FilledExact
    <2> QED
        BY <2>1, <2>2
<1>11. RowStatusOK'
    <2> SUFFICES ASSUME ordered', NEW x \in DOMAIN row
                 PROVE  row'[x].status = IF CancelApplied(x)' THEN "CANCELED"
                                         ELSE StatusOf(x, row'[x].filled)
        BY <1>2 DEF RowStatusOK, StatusOf
    <2>1. CASE Involves(t, x)
        BY <1>3, <1>5, <1>6, <1>9, <2>1
    <2>2. CASE ~Involves(t, x)
        BY <1>2, <1>3, <2>2 DEF ExactInv, RowStatusOK
    <2> QED
        BY <2>1, <2>2
<1> QED
    BY <1>3, <1>10, <1>11

\* The rows that are left when an event is rolled back are as they were, and
\* those of an open transaction are among them.
LEMMA DeleteEventExact ==
    ASSUME WorkerInv, ExactInv, NEW e \in Events, DeleteEvent(e)
    PROVE  SeenOK' /\ FilledExact' /\ RowStatusOK'
<1> DEFINE D == {o \in DOMAIN row : EventOf[o] # e}
<1>1. /\ \A w \in Workers : pc[w] \in {"taker", "maker"} => EventOfTrade(CurrentTrade(w)) # e
      /\ row' = [o \in D |-> row[o]]
      /\ UNCHANGED <<engineVars, stream, workerVars, applied, ordered>>
    BY DEF DeleteEvent, Restrict
<1>2. UNCHANGED <<trades, stream, pc, batch, seen, applied, ordered>>
    BY <1>1 DEF engineVars, workerVars
<1>3. /\ DOMAIN row' = D /\ D \subseteq DOMAIN row /\ \A o \in D : row'[o] = row[o]
      /\ \A o \in DOMAIN row : o \in D <=> EventOf[o] # e
    BY <1>1
<1> HIDE DEF D
<1>4. FilledExact'
    BY <1>3 DEF ExactInv, FilledExact
<1>5. RowStatusOK'
    <2>1. \A o : CancelApplied(o)' <=> CancelApplied(o)
        BY <1>2 DEF CancelApplied, IsCancel
    <2> QED
        BY <1>2, <1>3, <2>1 DEF ExactInv, RowStatusOK, StatusOf
<1>6. SeenOK'
    <2> SUFFICES ASSUME NEW w \in Workers, InTransaction(w)
                 PROVE  /\ seen'[w].taker = FillStatus(CurrentTrade(w).taker, CurrentTrade(w).quantity)'
                        /\ pc'[w] = "maker" => seen'[w].maker =
                              FillStatus(CurrentTrade(w).maker, CurrentTrade(w).quantity)'
        BY <1>2 DEF SeenOK, InTransaction
    <2>1. CurrentTrade(w)' = CurrentTrade(w)
        BY <1>2 DEF CurrentTrade, CurrentEvent, Current
    <2>2. PICK t : t = CurrentTrade(w)
        OBVIOUS
    <2>3. Current(w) \in 1 .. Len(stream) /\ IsTrade(Current(w)) /\ KeysExist(t)
        BY <2>2, BusyFacts DEF InTransaction, WorkerInv, ControlInv, TransactionOK
    <2>4. CurrentEvent(w).trade \in DOMAIN trades
        BY <2>3, EntryTrade DEF WorkerInv, CurrentEvent
    <2>5. EventOf[t.maker] = EventOf[t.taker] /\ EventOf[t.taker] # e
        BY <1>1, <2>2, <2>4 DEF InTransaction, EventOfTrade, WorkerInv, EngineInv, TradesOK, CurrentTrade
    <2>6. row'[t.taker] = row[t.taker] /\ row'[t.maker] = row[t.maker]
        BY <1>3, <2>3, <2>5 DEF KeysExist
    <2>7. \A q : FillStatus(t.taker, q)' = FillStatus(t.taker, q)
                /\ FillStatus(t.maker, q)' = FillStatus(t.maker, q)
        BY <2>6 DEF FillStatus
    <2>8. /\ seen[w].taker = FillStatus(t.taker, t.quantity)
          /\ pc[w] = "maker" => seen[w].maker = FillStatus(t.maker, t.quantity)
        BY <2>2 DEF ExactInv, SeenOK
    <2> QED
        BY <1>2, <2>1, <2>2, <2>6, <2>8 DEF FillStatus
<1> QED
    BY <1>4, <1>5, <1>6

\* What one worker promises, at first and after every step.
LEMMA ExactInit == Init => ExactInv
    BY DEF Init, ExactInv, SeenOK, FilledExact, RowStatusOK, CancelLast, InTransaction

\* A step of anybody leaves the rows of one worker exact.
LEMMA ExactNext ==
    ASSUME OnlyOne
    PROVE  WorkerInv /\ WorkerInv' /\ ExactInv /\ [Next]_vars => ExactInv'
<1> SUFFICES ASSUME WorkerInv, WorkerInv', ExactInv, [Next]_vars PROVE ExactInv'
    OBVIOUS
<1>1. CancelLast'
    BY CancelLastOK DEF WorkerInv, ExactInv
<1>2. ASSUME EngineGrows PROVE SeenOK' /\ FilledExact' /\ RowStatusOK'
    BY <1>2, GrowthExact DEF WorkerInv, ExactInv
<1>3. ASSUME EngineStep PROVE SeenOK' /\ FilledExact' /\ RowStatusOK'
    BY <1>2, <1>3, EngineStepGrows DEF WorkerInv
<1>4. ASSUME NEW w \in Workers, Start(w) \/ WorkerStep(w) \/ WorkerFails(w)
      PROVE  SeenOK' /\ FilledExact' /\ RowStatusOK'
    <2>1. CASE OrderCreated(w)
        BY <2>1, OrderCreatedExact
    <2>2. CASE OrderCanceled(w)
        BY <2>2, OrderCanceledExact
    <2>3. CASE Settle(w)
        BY <2>3, SettleExact
    <2>4. CASE \/ Start(w) \/ Read(w) \/ Ack(w) \/ WorkerFails(w) \/ TradeKnown(w)
               \/ OrderOrphaned(w) \/ TradeOrphaned(w) \/ Insufficient(w) \/ InsertTrade(w)
               \/ FillTaker(w)
        BY <2>4, ReadingExact
    <2> QED
        BY <1>4, <2>1, <2>2, <2>3, <2>4 DEF WorkerStep, Handle
<1>5. ASSUME UNCHANGED vars PROVE SeenOK' /\ FilledExact' /\ RowStatusOK'
    <2>1. EngineGrows
        <3>1. Len(stream) <= Len(stream)
            BY DEF WorkerInv, EngineInv, EngineTypes
        <3> QED
            BY <1>5, <3>1 DEF vars, engineVars, cashVars, EngineGrows
    <2> QED
        BY <1>2, <2>1
<1>7. ASSUME NEW e \in Events, DeleteEvent(e) PROVE SeenOK' /\ FilledExact' /\ RowStatusOK'
    BY <1>7, DeleteEventExact
<1>6. SeenOK' /\ FilledExact' /\ RowStatusOK'
    BY <1>3, <1>4, <1>5, <1>7 DEF Next
<1> QED
    BY <1>1, <1>6 DEF ExactInv

\* What one worker promises holds always.
LEMMA ExactAlways == ASSUME OnlyOne PROVE Spec => []ExactInv
    BY ExactInit, ExactNext, WorkerAlways, PTL DEF Spec

\* With one worker, through crashes, redeliveries and claims of its own
\* entries, a row is FILLED exactly when its whole quantity is, and its
\* remainder is right.
THEOREM FilledAlwaysExact == ASSUME OnlyOne PROVE Spec => []FilledExact
<1>1. ExactInv => FilledExact
    BY DEF ExactInv
<1> QED
    BY <1>1, ExactAlways, PTL

\* Once everything is published and applied, Postgres has the engine's orders,
\* as far as it has their events.
LEMMA OrdersCaughtUp ==
    ASSUME WorkerInv, applied = 1 .. Len(stream)
    PROVE  DOMAIN row = {o \in Orders : status[o] # "NONE" /\ EventOf[o] \in stored}
<1>1. \A o \in DOMAIN row : o \in Orders /\ status[o] # "NONE" /\ EventOf[o] \in stored
    BY DEF WorkerInv, TableInv, TableTypes, RowsOK
<1>2. ASSUME NEW o \in Orders, status[o] # "NONE", EventOf[o] \in stored PROVE o \in DOMAIN row
    <2>1. PICK i \in 1 .. Len(stream) : IsCreate(i, o)
        BY <1>2 DEF WorkerInv, EngineInv, AnnouncedOK
    <2> QED
        BY <1>2, <2>1 DEF WorkerInv, TableInv, AppliedOK
<1> QED
    BY <1>1, <1>2

\* It has all of the engine's trades.
LEMMA TradesCaughtUp ==
    ASSUME WorkerInv, applied = 1 .. Len(stream), \A p \in Partitions : AtRest(p)
    PROVE  settled = DOMAIN trades
<1>1. \A p \in Partitions : Len(unsent[p]) = 0
    BY DEF AtRest
<1>2. ASSUME NEW id \in DOMAIN trades PROVE id \in settled
    <2>1. PICK i \in 1 .. Len(stream) : IsTrade(i) /\ stream[i].trade = id
        BY <1>1 DEF WorkerInv, EngineInv, PublishedOK
    <2> QED
        BY <2>1 DEF WorkerInv, TableInv, AppliedOK
<1> QED
    BY <1>2 DEF WorkerInv, TableInv, TableTypes

\* Once everything is published and applied, Postgres has the orders (of the
\* events it knows) and the fills of the engine, and the engine has for every
\* user the cash that Postgres has, or more for one who overspent.
AmountsCatchUp ==
    (\A p \in Partitions : AtRest(p)) /\ applied = 1 .. Len(stream) =>
        /\ DOMAIN row = {o \in Orders : status[o] # "NONE" /\ EventOf[o] \in stored}
        /\ \A o \in DOMAIN row : row[o].filled = got[o]
        /\ \A u \in Users :
              /\ cash[u] <= available[u] + reserved[u]
              /\ cash[u] = available[u] + reserved[u] \/ Overspender(u)

\* The sums over all trades are the engine's.
LEMMA AmountsCaughtUp == WorkerInv => AmountsCatchUp
<1> SUFFICES ASSUME WorkerInv, \A p \in Partitions : AtRest(p), applied = 1 .. Len(stream)
             PROVE  /\ DOMAIN row = {o \in Orders : status[o] # "NONE" /\ EventOf[o] \in stored}
                    /\ \A o \in DOMAIN row : row[o].filled = got[o]
                    /\ \A u \in Users :
                          /\ cash[u] <= available[u] + reserved[u]
                          /\ cash[u] = available[u] + reserved[u] \/ Overspender(u)
    BY DEF AmountsCatchUp
<1>1. DOMAIN row = {o \in Orders : status[o] # "NONE" /\ EventOf[o] \in stored}
    BY OrdersCaughtUp
<1>2. settled = DOMAIN trades
    BY TradesCaughtUp
<1>3. \A o \in DOMAIN row : row[o].filled = got[o]
    BY <1>1, <1>2 DEF WorkerInv, TableInv, TablesOK, EngineInv, GotOK
<1>4. \A u \in Users : cash[u] = Worth(trades, DOMAIN trades, u)
    BY <1>2 DEF WorkerInv, TableInv, TablesOK
<1>5. \A u \in Users : /\ cash[u] <= available[u] + reserved[u]
                       /\ cash[u] = available[u] + reserved[u] \/ Overspender(u)
    BY <1>4 DEF WorkerInv, CashInv, HeldOK
<1> QED
    BY <1>1, <1>3, <1>5

\* However many workers apply the events, and in whatever order, once all are
\* applied the orders and fills in Postgres are the engine's, and so are the
\* balances of all users whose MARKET BUYs kept within their cash.
THEOREM AmountsAlwaysCatchUp == Spec => []AmountsCatchUp
    BY WorkerAlways, AmountsCaughtUp, PTL

\* With one worker, Postgres catches up with the engine: once everything is
\* published and applied its orders, fills and balances are the engine's, but
\* for what MARKET BUYs overspent, and, if events were applied in the order of
\* the stream, so are the statuses.
THEOREM ProjectionAlwaysCatchesUp == ASSUME OnlyOne PROVE Spec => []ProjectionCatchesUp
<1>1. WorkerInv /\ ExactInv => ProjectionCatchesUp
    <2> SUFFICES ASSUME WorkerInv, ExactInv, \A p \in Partitions : AtRest(p),
                        applied = 1 .. Len(stream)
                 PROVE  /\ DOMAIN row = {o \in Orders : status[o] # "NONE" /\ EventOf[o] \in stored}
                        /\ \A o \in DOMAIN row : row[o].filled = got[o]
                        /\ \A u \in Users :
                              /\ cash[u] <= available[u] + reserved[u]
                              /\ cash[u] = available[u] + reserved[u] \/ Overspender(u)
                        /\ ordered => \A o \in DOMAIN row \ MarketOrders : row[o].status = status[o]
        BY DEF ProjectionCatchesUp
    <2>1. /\ DOMAIN row = {o \in Orders : status[o] # "NONE" /\ EventOf[o] \in stored}
          /\ \A o \in DOMAIN row : row[o].filled = got[o]
          /\ \A u \in Users :
                /\ cash[u] <= available[u] + reserved[u]
                /\ cash[u] = available[u] + reserved[u] \/ Overspender(u)
        BY AmountsCaughtUp DEF AmountsCatchUp
    <2>5. ASSUME ordered, NEW o \in DOMAIN row \ MarketOrders PROVE row[o].status = status[o]
        <3>1. o \in Orders /\ status[o] # "NONE"
            BY <2>1
        <3>2. CancelApplied(o) <=> status[o] = "CANCELED"
            <4>1. ASSUME status[o] = "CANCELED" PROVE CancelApplied(o)
                BY <2>5, <3>1, <4>1 DEF WorkerInv, EngineInv, AnnouncedOK, CancelApplied
            <4>2. ASSUME CancelApplied(o) PROVE status[o] = "CANCELED"
                BY <3>1, <4>2 DEF WorkerInv, EngineInv, EventsOK, CancelApplied
            <4> QED
                BY <4>1, <4>2
        <3>3. row[o].status = IF CancelApplied(o) THEN "CANCELED" ELSE StatusOf(o, got[o])
            BY <2>1, <2>5 DEF ExactInv, RowStatusOK
        <3>4. status[o] # "CANCELED" => status[o] = StatusOf(o, got[o])
            BY <3>1 DEF WorkerInv, EngineInv, StatusOK
        <3> QED
            BY <3>2, <3>3, <3>4
    <2> QED
        BY <2>1, <2>5
<1> QED
    BY <1>1, WorkerAlways, ExactAlways, PTL
=============================================================================
