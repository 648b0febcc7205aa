---------------------------- MODULE Subsequences ----------------------------
(***************************************************************************)
(* The elements of a sequence that are in a set, in their order. This is   *)
(* SelectSeq of the Sequences module with a set for its test, written as a *)
(* recursive function so that theorems can be proved about it.             *)
(***************************************************************************)
EXTENDS Integers, Sequences

\* The sequence with x in it, if x is in S.
One(x, S) == IF x \in S THEN <<x>> ELSE << >>

\* The subsequence of the elements of s that are in S.
Filter(s, S) ==
    LET F[n \in 0 .. Len(s)] == IF n = 0 THEN << >> ELSE F[n - 1] \o One(s[n], S)
    IN  F[Len(s)]
=============================================================================
