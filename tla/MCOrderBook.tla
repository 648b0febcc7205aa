----------------------------- MODULE MCOrderBook -----------------------------
(***************************************************************************)
(* The insertion and removal operators of OrderBook against a reference:   *)
(* orders with arbitrary prices arrive on one side of a book and leave it  *)
(* in any order, and the side must always be what one stable sort of the   *)
(* surviving orders, taken in the order of their arrival, would give.      *)
(***************************************************************************)
EXTENDS OrderBook

CONSTANTS
    PriceRange, \* prices orders may have
    MaxArrivals \* bound on the orders that arrive

ASSUME BookAssumption == MaxArrivals \in Nat

VARIABLES
    bookSide, \* which side of a book it is
    arrived,  \* the orders that arrived; their ids number them
    gone,     \* the ids that were canceled or filled
    side      \* the side of the book
vars == <<bookSide, arrived, gone, side>>

Init ==
    /\ bookSide \in Sides
    /\ arrived = << >>
    /\ gone = {}
    /\ side = << >>

\* addToBook with a new order.
Arrive(price) ==
    /\ Len(arrived) < MaxArrivals
    /\ arrived' = Append(arrived, [Side |-> bookSide, Price |-> price])
    /\ side' = AddToBook(arrived', side, Len(arrived'))
    /\ UNCHANGED <<bookSide, gone>>

\* removeOrderFromSlice (a cancel); the order may have left already.
Cancel(x) ==
    /\ side' = RemoveOrder(side, x)
    /\ gone' = gone \cup {x}
    /\ UNCHANGED <<bookSide, arrived>>

\* removeOrderIndex (a complete fill).
FillAt(i) ==
    /\ side' = RemoveIndex(side, i)
    /\ gone' = gone \cup {side[i]}
    /\ UNCHANGED <<bookSide, arrived>>

Next ==
    \/ \E price \in PriceRange : Arrive(price)
    \/ \E x \in DOMAIN arrived : Cancel(x)
    \/ \E i \in DOMAIN side : FillAt(i)

Spec == Init /\ [][Next]_vars

\* The literal reading of sort.SliceStable: the i-th element of s ends up
\* behind the elements that are better, and behind the equal ones that were
\* ahead of it.
StableSort(s) ==
    LET before(j, i) ==
            \/ Better(bookSide, arrived[s[j]].Price, arrived[s[i]].Price)
            \/ arrived[s[j]].Price = arrived[s[i]].Price /\ j < i
        rank(i) == 1 + Cardinality({j \in DOMAIN s : before(j, i)})
    IN  [k \in DOMAIN s |-> s[CHOOSE i \in DOMAIN s : rank(i) = k]]

\* Insertion by insertion and removal by removal, a side is the stable sort of
\* the orders that have arrived and not left: addToBook keeps it sorted and
\* FIFO within a price, and a removal takes away exactly the order it is for.
SideIsStableSort ==
    side = StableSort(SelectSeq([n \in DOMAIN arrived |-> n],
                                LAMBDA x : x \notin gone))
=============================================================================
