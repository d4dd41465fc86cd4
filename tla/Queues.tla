------------------------------- MODULE Queues -------------------------------
(***************************************************************************)
(* Queues of rows, oldest first, and what a delete leaves of them.         *)
(***************************************************************************)
EXTENDS Integers, FiniteSets, Sequences

(* The items of q that are not in ds, in their order. *)
Without(q, ds) ==
    LET stays   == {i \in 1 .. Len(q) : q[i] \notin ds}
        Rank(i) == Cardinality({j \in stays : j <= i})
    IN  [n \in 1 .. Cardinality(stays) |-> q[CHOOSE i \in stays : Rank(i) = n]]
=============================================================================
