------------------------------ MODULE RowFrame ------------------------------
(***************************************************************************)
(* A table in memory (data/dataframe.rs, DataFrame) and the operations     *)
(* that edit its rows.  The cells never move: a row keeps its physical     *)
(* number for ever, and what is sorted, filtered, deleted or restored is   *)
(* row_order, the list of physical numbers on screen, next to              *)
(* original_order, the list "reset sort" goes back to.                     *)
(*                                                                         *)
(* A frame is a record                                                     *)
(*    rows      the cells, a sequence indexed by physical row              *)
(*    rowOrder, originalOrder                                              *)
(*    selected  the physical rows the user has marked                      *)
(*    ids       db_rows.ids: the database key of each physical row         *)
(*    deleted   db_rows.deleted, as a set: the key order only decides the  *)
(*              order of the DELETE statements                             *)
(*    agg       aggregates_cache: the rows the cached footer was computed  *)
(*              over, as pairs <<physical row, row>>, or NoFooter          *)
(*                                                                         *)
(* Only tables read from a database are modelled: for the others ids and   *)
(* deleted are absent and nothing else differs.  `modified` and the        *)
(* column widths are display state and are left out.                       *)
(***************************************************************************)
EXTENDS Orders

CONSTANTS
    Columns,    \* the table's columns
    Values,     \* what a cell may hold, NULL apart
    NoFooter    \* aggregates_cache = None

Null == 0       \* a NULL cell; reads as the empty text, below every value
NoKey == 0      \* the key of a row no database has seen yet

ASSUME ValuesAssumption == Values \subseteq Nat \ {Null}

Row == [Columns -> Values \cup {Null}]

EmptyRow == [c \in Columns |-> Null]

Frame == [ rows : Seq(Row), rowOrder : Seq(Nat), originalOrder : Seq(Nat),
           selected : SUBSET Nat, ids : Seq(Nat), deleted : SUBSET Nat,
           agg : {NoFooter} \cup SUBSET (Nat \X Row) ]

Physical(f) == 1 .. Len(f.rows)
Visible(f) == Range(f.rowOrder)

-----------------------------------------------------------------------------
(* The footer.                                                             *)

Footer(f) == {<<p, f.rows[p]>> : p \in Visible(f)}

\* compute_aggregates, called for every frame that is drawn.
ComputeAggregates(f) ==
    IF f.agg = NoFooter THEN [f EXCEPT !.agg = Footer(f)] ELSE f

-----------------------------------------------------------------------------
(* Cells.                                                                  *)

\* Mutant: the cached footer survives an edit.
SetCellsKeepingFooter(f, ps, col, value) ==
    [f EXCEPT !.rows = [p \in DOMAIN f.rows |->
                            IF p \in ps THEN [f.rows[p] EXCEPT ![col] = value]
                            ELSE f.rows[p]]]

\* set_cell and set_cells_bulk: one value on every physical row of ps.
SetCells(f, ps, col, value) ==
    [f EXCEPT !.rows = [p \in DOMAIN f.rows |->
                            IF p \in ps THEN [f.rows[p] EXCEPT ![col] = value]
                            ELSE f.rows[p]],
              !.agg = NoFooter]

-----------------------------------------------------------------------------
(* Rows coming in.                                                         *)

\* insert_empty_row: physically last, on screen at display position `at`,
\* and in the load order behind the row it now follows on screen.
InsertEmptyRow(f, at) ==
    LET new   == Len(f.rows) + 1
        here  == IF at > Len(f.rowOrder) + 1 THEN Len(f.rowOrder) + 1 ELSE at
        origAt ==
            IF here = 1 THEN 1
            ELSE (CHOOSE i \in DOMAIN f.originalOrder :
                      f.originalOrder[i] = f.rowOrder[here - 1]) + 1
    IN  [f EXCEPT !.rows = Append(f.rows, EmptyRow),
                  !.rowOrder = Insert(f.rowOrder, here, new),
                  !.originalOrder = Insert(f.originalOrder, origAt, new),
                  !.ids = Append(f.ids, NoKey),
                  !.agg = NoFooter]

\* What insert_rows_typed and paste_rows have in common: the block goes
\* physically last and last in both orders, without database keys.
AppendRows(f, block) ==
    LET new == [k \in 1 .. Len(block) |-> Len(f.rows) + k] IN
    [f EXCEPT !.rows = f.rows \o block,
              !.rowOrder = f.rowOrder \o new,
              !.originalOrder = f.originalOrder \o new,
              !.ids = f.ids \o [k \in 1 .. Len(block) |-> NoKey]]

InsertRowsTyped(f, block) == [AppendRows(f, block) EXCEPT !.agg = NoFooter]

\* paste_rows after a successful stack: the cached footer is left as it was.
PasteRows(f, block) == AppendRows(f, block)

-----------------------------------------------------------------------------
(* Rows going out.                                                         *)

\* record_deleted_rows: rows that never had a key leave no trace.
KeysOf(f, ps) == {f.ids[p] : p \in ps} \ {NoKey}

\* Mutant: the keys that leave are not written down.
DeleteUnrecorded(f) ==
    [f EXCEPT !.rowOrder = Retain(f.rowOrder, Visible(f) \ f.selected),
              !.originalOrder =
                  Retain(f.originalOrder, Range(f.originalOrder) \ f.selected),
              !.selected = {}]

\* Mutant: only the order on screen loses the rows.
DeleteFromScreen(f) ==
    [f EXCEPT !.deleted = f.deleted \cup KeysOf(f, f.selected),
              !.rowOrder = Retain(f.rowOrder, Visible(f) \ f.selected),
              !.selected = {}]

\* delete_selected_rows: the cached footer is left as it was.
DeleteSelected(f) ==
    [f EXCEPT !.deleted = f.deleted \cup KeysOf(f, f.selected),
              !.rowOrder = Retain(f.rowOrder, Visible(f) \ f.selected),
              !.originalOrder =
                  Retain(f.originalOrder, Range(f.originalOrder) \ f.selected),
              !.selected = {}]

\* group_rows: the visible rows that agree with p on the key columns.
Group(f, keys, p) ==
    {q \in Visible(f) : \A c \in keys : f.rows[q][c] = f.rows[p][c]}

\* The display position of a visible row.
Position(f, p) == CHOOSE i \in DOMAIN f.rowOrder : f.rowOrder[i] = p

\* deduplicate's keepers: one row of each group.  First and Last go by the
\* screen; Min and Max by a column, the earliest winning a tie; Random by luck.
Better(f, keep, p, q) ==
    \/ keep.rule = "min" /\ f.rows[p][keep.col] < f.rows[q][keep.col]
    \/ keep.rule = "max" /\ f.rows[p][keep.col] > f.rows[q][keep.col]

Best(f, keep, G, p) ==
    IF keep.rule = "last" THEN \A q \in G : Position(f, q) <= Position(f, p)
    ELSE /\ \A q \in G : ~Better(f, keep, q, p)
         /\ \A q \in G : ~Better(f, keep, p, q) => Position(f, p) <= Position(f, q)

Keepers(f, keys, keep) ==
    {K \in SUBSET Visible(f) :
        \A p \in Visible(f) :
            LET G == Group(f, keys, p) IN
            /\ Cardinality(K \cap G) = 1
            /\ keep.rule # "random" => \A k \in K \cap G : Best(f, keep, G, k)}

\* Mutant: the marks stay where they were.
DeduplicateKeepingMarks(f, kept) ==
    LET survivors == Retain(f.rowOrder, kept) IN
    [f EXCEPT !.deleted =
                  f.deleted \cup KeysOf(f, Range(f.originalOrder) \ Range(survivors)),
              !.rowOrder = survivors,
              !.originalOrder = survivors,
              !.agg = NoFooter]

\* Mutant: the rows kept come out in the order they are stored.
DeduplicateAsStored(f, kept) ==
    LET survivors == InOrder(kept, Ascending(kept)) IN
    [f EXCEPT !.deleted =
                  f.deleted \cup KeysOf(f, Range(f.originalOrder) \ Range(survivors)),
              !.rowOrder = survivors,
              !.originalOrder = survivors,
              !.selected = {},
              !.agg = NoFooter]

\* smart_dedup_with_keys, given the rows to keep.
Deduplicate(f, kept) ==
    LET survivors == Retain(f.rowOrder, kept) IN
    [f EXCEPT !.deleted =
                  f.deleted \cup KeysOf(f, Range(f.originalOrder) \ Range(survivors)),
              !.rowOrder = survivors,
              !.originalOrder = survivors,
              !.selected = {},
              !.agg = NoFooter]

-----------------------------------------------------------------------------
(* Rows changing places.                                                   *)

SortKey == [col : Columns, desc : BOOLEAN]

\* Mutant: a descending key turns the whole comparison round, NULLs included.
KeyBeforeTurned(key, a, b) ==
    LET x == IF key.desc THEN b[key.col] ELSE a[key.col]
        y == IF key.desc THEN a[key.col] ELSE b[key.col]
    IN  x # Null /\ (y = Null \/ x < y)

\* One sort key puts row a before row b; NULLs last either way.
KeyBefore(key, a, b) ==
    /\ a[key.col] # Null
    /\ \/ b[key.col] = Null
       \/ IF key.desc THEN a[key.col] > b[key.col] ELSE a[key.col] < b[key.col]

\* All keys, the first most significant, and the present order for a tie.
SortsBefore(f, keys) ==
    LET row(i) == f.rows[f.rowOrder[i]]
        tied(i, j, n) == \A m \in 1 .. n : row(i)[keys[m].col] = row(j)[keys[m].col]
    IN  {p \in (DOMAIN f.rowOrder) \X (DOMAIN f.rowOrder) :
            \/ \E n \in DOMAIN keys : /\ tied(p[1], p[2], n - 1)
                                      /\ KeyBefore(keys[n], row(p[1]), row(p[2]))
            \/ tied(p[1], p[2], Len(keys)) /\ p[1] < p[2]}

\* sort_by_keys
SortByKeys(f, keys) ==
    LET order == InOrder(DOMAIN f.rowOrder, SortsBefore(f, keys)) IN
    [f EXCEPT !.rowOrder = [k \in DOMAIN f.rowOrder |-> f.rowOrder[order[k]]],
              !.agg = NoFooter]

\* reset_sort
ResetOrder(f) == [f EXCEPT !.rowOrder = f.originalOrder, !.agg = NoFooter]

-----------------------------------------------------------------------------
(* What must hold of every frame.                                          *)

\* A list of physical rows shows no row twice and none that does not exist.
OrderOK(f, order) ==
    /\ \A i \in DOMAIN order : order[i] \in Physical(f)
    /\ \A i, j \in DOMAIN order : order[i] = order[j] => i = j

\* The indices that tie the parts of a frame together agree.
WellFormed(f) ==
    /\ f \in Frame
    /\ Len(f.ids) = Len(f.rows)
    /\ OrderOK(f, f.rowOrder)
    /\ OrderOK(f, f.originalOrder)
    /\ Visible(f) = Range(f.originalOrder)
=============================================================================
