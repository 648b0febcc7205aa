------------------------------ MODULE MCOutbox ------------------------------
(* Instances of Outbox for TLC. *)
EXTENDS Outbox

\* Every other envelope is a trade.
OddTrades == {n \in 1 .. MaxEmits : n % 2 = 1}
=============================================================================
