--------------------------- MODULE MC_DbWriteback ---------------------------
(* DbWriteback on a table of one column and one or two rows.               *)
EXTENDS DbWriteback

CONSTANT c

OneColumn == {c}
Cells(s) == [k \in DOMAIN s |-> [col \in OneColumn |-> s[k]]]

OneRow == {Cells(<<1>>)}
TwoRows == {Cells(<<1, 2>>)}
=============================================================================
