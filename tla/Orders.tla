------------------------------- MODULE Orders -------------------------------
(***************************************************************************)
(* Sequences put in order, thinned out, grown and added up: what the       *)
(* program does with Vec::retain, Vec::insert, Vec::remove, its sorts and  *)
(* its sums.  Only the sum is a recursion, over the positions.             *)
(***************************************************************************)
EXTENDS Integers, Sequences, FiniteSets, Functions

(* A list of positions is put in order by counting: the k-th is the one    *)
(* with k - 1 others before it.                                            *)

\* How many of S come before i in the order R, a set of pairs <<before, after>>.
Rank(S, R, i) == Cardinality({j \in S : <<j, i>> \in R})

\* S in the order R.
InOrder(S, R) ==
    [k \in 1 .. Cardinality(S) |-> CHOOSE i \in S : Rank(S, R, i) = k - 1]

Ascending(S) == {p \in S \X S : p[1] < p[2]}

\* Vec::retain: the elements of s that are in keep, in the order they had.
Retain(s, keep) ==
    LET K == {i \in DOMAIN s : s[i] \in keep}
        order == InOrder(K, Ascending(K))
    IN  [k \in 1 .. Cardinality(K) |-> s[order[k]]]

\* Vec::insert before position `at`.
Insert(s, at, e) ==
    [k \in 1 .. Len(s) + 1 |->
        IF k < at THEN s[k] ELSE IF k = at THEN e ELSE s[k - 1]]

\* Vec::remove at position `at`.
Removed(s, at) == [k \in 1 .. Len(s) - 1 |-> IF k < at THEN s[k] ELSE s[k + 1]]

\* What a list of integers adds up to, from the first to each of them.
Totals(v) ==
    LET total[k \in 0 .. Len(v)] == IF k = 0 THEN 0 ELSE total[k - 1] + v[k]
    IN  total
SumOf(v) == Totals(v)[Len(v)]
=============================================================================
