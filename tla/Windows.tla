------------------------------- MODULE Windows -------------------------------
(***************************************************************************)
(* Window columns (data/window.rs): a value computed for each row on       *)
(* screen from the rows around it.  A window w is a record                 *)
(*    function   the name of the function                                  *)
(*    col        the column it reads, by position                          *)
(*    over       the columns whose combinations restart it, by name        *)
(*    order_by   the column it runs along, by name, or Null for the order  *)
(*               on screen                                                 *)
(*    desc       run or rank from the largest                              *)
(* avg and pct_of_total, whose values are fractions, are left out.         *)
(***************************************************************************)
EXTENDS Summaries

WindowFns == {"row_number", "rank", "dense_rank", "cum_sum", "lag", "lead",
              "sum", "min", "max", "count"}
UsesOrderBy(function) == function \in {"row_number", "cum_sum", "lag", "lead"}
UsesDirection(function) == UsesOrderBy(function) \/ function \in {"rank", "dense_rank"}
NeedsNumbers(function) == function \in {"cum_sum", "sum"}

\* The words of a window column's name.
WindowWords == WindowFns \cup {"by", "ordered", "desc"}

ASSUME WindowWordsAssumption == WindowWords \subseteq Words

\* Everything that changes the answer goes into the name the App gives the column.
WindowName(f, w) ==
    f.columns[w.col].name
    \o (IF w.over = {} THEN <<>> ELSE <<"by">> \o FlattenSeq(SetToSeq(w.over)))
    \o (IF w.order_by = Null THEN <<>> ELSE <<"ordered">> \o w.order_by)
    \o <<w.function>> \o (IF w.desc THEN <<"desc">> ELSE <<>>)

\* A running total is computed as Float64, and from_parts retypes the column for it.
OutputType(f, w) ==
    LET source == f.columns[w.col].type
    IN  CASE w.function \in {"row_number", "rank", "dense_rank", "count"} -> "number"
          [] w.function = "cum_sum" /\ source = "number" -> "float"
          [] OTHER -> source

\* The value at position k of a list of rows, of which S are its partition.
At(rows, name, S) == IF S = {} THEN Null ELSE rows[Max(S)][name]
Evaluate(rows, name, w, S, k) ==
    LET v == rows[k][name]
        held == {j \in S : rows[j][name] # Null}
        values == {rows[j][name] : j \in held}
        better == {j \in held : KeyBefore(rows[j][name], v, w.desc)}
        ahead == {j \in S : j > k}
    IN  CASE w.function = "row_number" -> Cardinality({j \in S : j <= k})
          [] w.function = "rank" -> IF v = Null THEN Null ELSE Cardinality(better) + 1
          [] w.function = "dense_rank" ->
                IF v = Null THEN Null ELSE Cardinality({rows[j][name] : j \in better}) + 1
          [] w.function = "cum_sum" ->
                IF v = Null THEN Null ELSE SumOver(rows, {j \in S : j <= k}, name)
          [] w.function = "lag" -> At(rows, name, {j \in S : j < k})
          [] w.function = "lead" -> IF ahead = {} THEN Null ELSE rows[Min(ahead)][name]
          [] w.function = "sum" -> SumOver(rows, S, name)
          [] w.function = "min" -> IF values = {} THEN Null ELSE Min(values)
          [] w.function = "max" -> IF values = {} THEN Null ELSE Max(values)
          [] w.function = "count" -> Cardinality(held)

\* The window's values, row by row as they are on screen: the rows are put in the
\* window's order with a marker, computed, and taken back by the marker.
\* Mutant: left in the window's order.
WindowValuesUnrestored(f, w) ==
    LET rows == Visible(f)
        order == IF w.order_by = Null THEN [k \in DOMAIN rows |-> k]
                 ELSE Sorted(rows, w.order_by, w.desc)
        staged == [k \in DOMAIN rows |-> rows[order[k]]]
    IN  [k \in DOMAIN rows |->
            Evaluate(staged, f.columns[w.col].name, w, GroupOf(staged, w.over, k), k)]
WindowValues(f, w) ==
    LET rows == Visible(f)
        order == IF w.order_by = Null THEN [k \in DOMAIN rows |-> k]
                 ELSE Sorted(rows, w.order_by, w.desc)
        staged == [k \in DOMAIN rows |-> rows[order[k]]]
        computed == [k \in DOMAIN rows |->
            Evaluate(staged, f.columns[w.col].name, w, GroupOf(staged, w.over, k), k)]
    IN  [k \in DOMAIN rows |-> computed[CHOOSE j \in DOMAIN order : order[j] = k]]

\* The frame of the rows on screen with the new column beside the one it reads.
WithWindowColumn(f, w) ==
    LET name == WindowName(f, w)
        values == WindowValues(f, w)
        columns == Insert(f.columns, w.col + 1, Column(name, OutputType(f, w)))
    IN  IF \/ HasColumn(f, name)
           \/ ~Distinct(Names(columns))
           \/ NeedsNumbers(w.function) /\ ~Numeric(f, w.col)
        THEN Refused
        ELSE FromParts(columns, Names(columns),
                       [k \in DOMAIN values |-> Wider(Visible(f)[k], name, values[k])])

\* Mutant: a derived table like any other.
CarryNothingOver(f, g) == g
\* Row j of the new frame g is what was f.row_order[j], so what f knows by physical
\* row is renumbered; rows that were not on screen are gone from it.
CarryOver(f, g) ==
    LET shown == Range(f.row_order)
        NewIndex(p) == CHOOSE k \in DOMAIN f.row_order : f.row_order[k] = p
        kept == Retain(f.original_order, shown)
    IN  [g EXCEPT !.original_order = [k \in DOMAIN kept |-> NewIndex(kept[k])],
                  !.selected_rows = {NewIndex(p) : p \in f.selected_rows \cap shown},
                  !.transposed = f.transposed]

AddWindowColumn(f, w) ==
    LET g == WithWindowColumn(f, w)
    IN  IF g = Refused THEN Refused ELSE CarryOver(f, g)
=============================================================================
