---------------------------- MODULE MC_SheetEdit ----------------------------
(* SheetEdit on small tables of one or two columns.                        *)
EXTENDS SheetEdit, TLC

CONSTANTS k, v

OneColumn == {k}
TwoColumns == {k, v}

\* One column, the cells top to bottom.
Cells(s) == [i \in DOMAIN s |-> [c \in OneColumn |-> s[i]]]

OneRow == {Cells(<<1>>)}
OneMore == {Cells(<<1>>)}
TwoRows == {Cells(<<2, 1>>)}
ThreeRows == {Cells(<<2, 1, 2>>)}

\* Two columns: ties on k that v breaks, and a NULL.
Pairs(s) == [i \in DOMAIN s |-> k :> s[i][1] @@ v :> s[i][2]]
TiedRows == {Pairs(<< <<2, 1>>, <<1, 2>>, <<2, 0>> >>)}
OnePair == {Pairs(<< <<1, 1>> >>)}

\* An empty block is a clipboard that held nothing but the header line.
EmptyOrTwo == {Cells(<<>>), Cells(<<1, 2>>)}
=============================================================================
