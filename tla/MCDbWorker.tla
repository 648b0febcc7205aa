----------------------------- MODULE MCDbWorker -----------------------------
(* Instances of DbWorker for TLC. *)
EXTENDS DbWorker, TLC

CONSTANTS u1, u2, e1, e2, p1, p2, a, b, c, d, w1, w2

OneWorker == {w1}
TwoWorkers == {w1, w2}
TwoUsers == {u1, u2}
OneEvent == {e1}
TwoEvents == {e1, e2}
OnePartition == {p1}
TwoPartitions == {p1, p2}
SplitRouting == e1 :> p1 @@ e2 :> p2
OneRouting == e1 :> p1

\* u1 has 2, sells a share of e1 for 1 and may spend all 3 on a share of e2,
\* with MARKET orders; the second overspends if it comes first. u2's BUY is
\* partly filled.
FourOrders == {a, b, c, d}
CrossUsers == a :> u1 @@ b :> u2 @@ c :> u2 @@ d :> u1
CrossEvents == a :> e1 @@ b :> e1 @@ c :> e2 @@ d :> e2
CrossSides == a :> "SELL" @@ b :> "BUY" @@ c :> "SELL" @@ d :> "BUY"
CrossQuantities == a :> 1 @@ b :> 2 @@ c :> 1 @@ d :> 1
CrossPrices == a :> 0 @@ b :> 1 @@ c :> 3 @@ d :> 0
TakerOrders == {a, d}

\* Two SELL orders fill one BUY.
ThreeOrders == {a, b, c}
FillUsers == a :> u1 @@ b :> u2 @@ c :> u1
FillEvents == a :> e1 @@ b :> e1 @@ c :> e1
FillSides == a :> "SELL" @@ b :> "BUY" @@ c :> "SELL"
FillQuantities == a :> 1 @@ b :> 2 @@ c :> 1
FillPrices == a :> 1 @@ b :> 1 @@ c :> 1

\* A worker that has read only part of the stream is where it would be had it
\* started before the rest was written, and the engine takes no notice of
\* Postgres: nothing is lost if the workers start, and the row of an event is
\* rolled back, when the engine has seen every order and takes no more steps.
EngineFirst ==
    IF <<engineVars, stream>>' # <<engineVars, stream>>
    THEN cursor = 0 /\ stored = Events /\ \A w \in Workers : pc[w] = "down"
    ELSE (\A o \in Orders : status[o] # "NONE") /\ (\A p \in Partitions : AtRest(p))
=============================================================================
