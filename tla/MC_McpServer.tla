---------------------------- MODULE MC_McpServer ----------------------------
(***************************************************************************)
(* The MCP server over a database with room for two tables, one of them    *)
(* there at first, and a file.                                             *)
(***************************************************************************)
EXTENDS McpServer

CONSTANTS t, u, x, y, empty

MCTables == {t, u}
MCColumns == {x, y}
MCValues == {empty}

One(cols, k, row) == [there |-> TRUE, cols |-> cols, rows |-> [j \in {k} |-> row]]

MCDisks ==
    {[o \in Objects |->
        CASE o = t -> One({x, y}, 1, [c \in {x, y} |-> IF c = x THEN empty ELSE Null])
          [] o = u -> Absent
          [] o = File -> One({x}, 2, [c \in {x} |-> empty])]}
MCMade == {One({x}, 1, [c \in {x} |-> Null])}
=============================================================================
