----------------------------- MODULE MC_Analysis -----------------------------
(* Tables of two columns of texts and one of numbers or of floats, with     *)
(* NULLs, empty texts and ties, and with one or both texts pinned.          *)
EXTENDS Analysis, TLC

G == <<"g">>
H == <<"h">>
N == <<"n">>
A == <<"a">>
B == <<"b">>

Row(x, y, z) == G :> x @@ H :> y @@ N :> z
Ties == << Row(A, B, 2), Row(Null, A, 1), Row(A, Null, 2) >>
Gaps == << Row(B, A, 1), Row(A, Empty, Null), Row(B, A, 1) >>
Loaded(rows, pins, type) ==
    FromParts(<< [Column(G, "text") EXCEPT !.pinned = G \in pins],
                 [Column(H, "text") EXCEPT !.pinned = H \in pins],
                 [Column(N, type) EXCEPT !.summed = TRUE] >>,
              <<G, H, N>>, rows)

MCTables == {Loaded(Ties, {G}, "number"), Loaded(Gaps, {G, H}, "float")}
MCWords == STRING
MCMeasure == N
MCNewNames == {H, Count}
MCFunctions == WindowFns
MCOvers == {{}, {G}}
=============================================================================
