---------------------------- MODULE Arrangements ----------------------------
(***************************************************************************)
(* Python's sorted() and its filters, said by position: a set in an order, *)
(* and what a filter leaves of a sequence.                                 *)
(*                                                                         *)
(* SortSeq and SelectSeq would do, but the provers know nothing of either. *)
(* An order is a set of pairs.                                             *)
(***************************************************************************)
EXTENDS Integers, FiniteSets, Sequences

Before(S, order, x) == {y \in S : <<y, x>> \in order}

\* The elements of a set: the k-th is the one that k - 1 others come before.
Arranged(S, order) ==
    [k \in 1 .. Cardinality(S) |->
        CHOOSE x \in S : Cardinality(Before(S, order, x)) = k - 1]

Ascending(S)  == Arranged(S, {p \in {<<x, y>> : x, y \in S} : p[1] < p[2]})
Descending(S) == Arranged(S, {p \in {<<x, y>> : x, y \in S} : p[1] > p[2]})

\* The elements of a sequence at the positions of a set, in their order.
Filtered(s, positions) ==
    LET at == Ascending(positions)
    IN  [k \in DOMAIN at |-> s[at[k]]]
=============================================================================
