------------------------------- MODULE Frames -------------------------------
(***************************************************************************)
(* A table with named columns (data/dataframe.rs, DataFrame), as the       *)
(* commands that compute one table from another see it.  RowFrame has the  *)
(* same type with its row edits; here the cells stay as they are and the   *)
(* columns come and go.  A frame is a record                               *)
(*    columns   the headers, one ColumnMeta each                           *)
(*    df        the names of the Polars frame's columns, in its own order: *)
(*              the code keeps the two lists in step by hand               *)
(*    rows      the cells, row by physical row, by column name             *)
(*    row_order, original_order, selected_rows, transposed                 *)
(*                                                                         *)
(* A text, and so a name, is a sequence of words: the empty text is <<>>,  *)
(* and a name made of others, as "g:sum" is, is their concatenation.  A    *)
(* number is an integer; a float is a whole one, which is where its texts  *)
(* differ (see Cast); a share of a total is an integer of hundredths.      *)
(***************************************************************************)
EXTENDS Orders, SequencesExt, FiniteSetsExt

CONSTANTS
    Null,       \* a cell without a value
    Words       \* what texts are made of

Texts == Seq(Words)

\* Those the program writes itself.
OwnWords == {"Count", "Pct", "Bar", ":sum", "|", "+", "-", "1", "null", "row", "column",
             "Column", "Value", ".0"}

ASSUME NullAssumption == Null \notin Int /\ Null \notin Texts
ASSUME WordsAssumption == OwnWords \subseteq Words

Empty == <<>>
Count == <<"Count">>
Pct == <<"Pct">>
Bar == <<"Bar">>

\* What a column holds; a "float" is a Float64, a "share" one displayed as a percentage.
Types == {"text", "number", "float", "share"}

\* ColumnMeta::new, and the type given to it.
Column(name, type) ==
    [name |-> name, type |-> type, pinned |-> FALSE, summed |-> FALSE]
ColumnMeta == [name : Texts, type : Types, pinned : BOOLEAN, summed : BOOLEAN]

\* What the cells of a column of this type hold.
Values(type) == IF type = "text" THEN Texts \cup {Null} ELSE Int \cup {Null}

\* A number as a text, in which all digits are the same: no two have one text.
Numeral(n) ==
    [i \in 1 .. 1 + (IF n < 0 THEN -n ELSE n) |->
        IF i > 1 THEN "1" ELSE IF n < 0 THEN "-" ELSE "+"]

\* The text of a value in a column of this type, as the program itself writes it.
Text(type, v) ==
    CASE v = Null -> Empty
      [] v # Null /\ type = "text" -> v
      [] OTHER -> Numeral(v)

\* And as Polars does, cast to String.  The two differ on a Float64 that is whole: 2.0 is
\* "2" to the program and "2.0" to Polars.
Whole(type, v) ==
    /\ v # Null
    /\ type = "float" \/ (type = "share" /\ v % 100 = 0)
Cast(type, v) == IF Whole(type, v) THEN Append(Numeral(v), ".0") ELSE Text(type, v)

Names(columns) == [i \in DOMAIN columns |-> columns[i].name]
Distinct(s) == \A i, j \in DOMAIN s : s[i] = s[j] => i = j
Positions(f, name) == {i \in DOMAIN f.columns : f.columns[i].name = name}
HasColumn(f, name) == Positions(f, name) # {}
ColumnIndex(f, name) == Min(Positions(f, name))
Pinned(f) == {i \in DOMAIN f.columns : f.columns[i].pinned}
Numeric(f, i) == f.columns[i].type # "text"

\* A set of positions from the first to the last.
Listed(S) == InOrder(S, Ascending(S))
NamesOf(f, S) == [k \in 1 .. Cardinality(S) |-> f.columns[Listed(S)[k]].name]

\* The cell at a physical row and a column's position.
GetPhysical(f, row, i) == f.rows[row][f.df[i]]
GetVal(f, k, i) == GetPhysical(f, f.row_order[k], i)
TextAt(f, k, i) == Text(f.columns[i].type, GetVal(f, k, i))
CastAt(f, k, i) == Cast(f.columns[i].type, GetVal(f, k, i))

FromParts(columns, df, rows) ==
    [ columns |-> columns, df |-> df, rows |-> rows,
      row_order |-> [i \in DOMAIN rows |-> i],
      original_order |-> [i \in DOMAIN rows |-> i],
      selected_rows |-> {}, transposed |-> FALSE ]

\* get_visible_df: the rows on screen, top to bottom.
Visible(f) == [k \in DOMAIN f.row_order |-> f.rows[f.row_order[k]]]

\* The display rows whose value, cast to String, is this text; NULL casts to none.
FindRowsByValue(f, i, target) ==
    {k \in DOMAIN f.row_order :
        GetVal(f, k, i) # Null /\ CastAt(f, k, i) = target}

-----------------------------------------------------------------------------
(* Orders of rows.                                                         *)

\* NULLs last whichever way it runs.
KeyBefore(a, b, desc) ==
    CASE a = Null -> FALSE
      [] a # Null /\ b = Null -> TRUE
      [] OTHER -> IF desc THEN b < a ELSE a < b

\* A stable sort of the positions of a list of rows by one column of numbers.
RunsBefore(rows, name, desc) ==
    {p \in (DOMAIN rows) \X (DOMAIN rows) :
        \/ KeyBefore(rows[p[1]][name], rows[p[2]][name], desc)
        \/ /\ ~KeyBefore(rows[p[2]][name], rows[p[1]][name], desc)
           /\ p[1] < p[2]}
Sorted(rows, name, desc) == InOrder(DOMAIN rows, RunsBefore(rows, name, desc))

SortByKey(f, i, desc) ==
    LET order == Sorted(Visible(f), f.columns[i].name, desc)
    IN  [f EXCEPT !.row_order = [k \in DOMAIN order |-> f.row_order[order[k]]]]

ResetSortOrder(f) == [f EXCEPT !.row_order = f.original_order]

DeleteSelectedRows(f) ==
    LET kept == DOMAIN f.rows \ f.selected_rows
    IN  [f EXCEPT !.row_order = Retain(f.row_order, kept),
                  !.original_order = Retain(f.original_order, kept),
                  !.selected_rows = {}]

\* Mutant: display rows taken for physical ones.
NarrowedByDisplayRow(f, shown) ==
    [f EXCEPT !.row_order = Listed(shown), !.original_order = Listed(shown)]
\* A copy of the table that shows only these of its display rows.
Narrowed(f, shown) ==
    LET order == [k \in 1 .. Cardinality(shown) |-> f.row_order[Listed(shown)[k]]]
    IN  [f EXCEPT !.row_order = order, !.original_order = order]

-----------------------------------------------------------------------------
(* Commands on columns.  Each changes the headers and the Polars frame, or *)
(* is refused and leaves the frame.                                        *)

TogglePinColumn(f, i) == [f EXCEPT !.columns[i].pinned = ~@]

RenamedRow(row, old, new) ==
    [n \in (DOMAIN row \ {old}) \cup {new} |-> IF n = new THEN row[old] ELSE row[n]]

\* Mutant: the header alone.
RenameHeader(f, i, new) == [f EXCEPT !.columns[i].name = new]
\* Polars has no two columns of one name.
RenameColumn(f, i, new) ==
    LET old == f.columns[i].name
    IN  IF new \in Range(f.df) THEN f
        ELSE [f EXCEPT
                !.columns[i].name = new,
                !.df = [k \in DOMAIN f.df |-> IF f.df[k] = old THEN new ELSE f.df[k]],
                !.rows = [r \in DOMAIN f.rows |-> RenamedRow(f.rows[r], old, new)]]

DropColumn(f, i) ==
    LET name == f.columns[i].name
    IN  [f EXCEPT
            !.columns = Removed(f.columns, i),
            !.df = Removed(f.df, CHOOSE k \in DOMAIN f.df : f.df[k] = name),
            !.rows = [r \in DOMAIN f.rows |->
                        [n \in DOMAIN f.rows[r] \ {name} |-> f.rows[r][n]]]]

Swapped(s, i, j) == [s EXCEPT ![i] = s[j], ![j] = s[i]]
SwapColumns(f, i, j) ==
    LET columns == Swapped(f.columns, i, j)
    IN  [f EXCEPT !.columns = columns, !.df = Names(columns)]

\* A row with one more cell.
Wider(row, name, v) ==
    [n \in DOMAIN row \cup {name} |-> IF n \in DOMAIN row THEN row[n] ELSE v]

\* Added at the end, then swapped leftwards to its place.
InsertEmptyColumn(f, i, name) ==
    IF HasColumn(f, name) THEN f
    ELSE [f EXCEPT
            !.columns = Insert(f.columns, i, Column(name, "text")),
            !.df = Insert(f.df, i, name),
            !.rows = [r \in DOMAIN f.rows |-> Wider(f.rows[r], name, Empty)]]

-----------------------------------------------------------------------------
(* What is a table.                                                        *)

IsList(s) == Len(s) \in Nat /\ s = [i \in 1 .. Len(s) |-> s[i]]

\* The headers name the columns of the Polars frame, in its order.
InStep(f) == Names(f.columns) = f.df

\* A rectangle: every row has a cell for each column of the Polars frame, of the type
\* its header says, and the index lists name rows it has.
FrameOK(f) ==
    /\ f \in [ columns : Seq(ColumnMeta), df : Seq(Texts), rows : {f.rows},
               row_order : Seq(Nat), original_order : Seq(Nat),
               selected_rows : SUBSET Nat, transposed : BOOLEAN ]
    /\ IsList(f.rows)
    /\ Distinct(f.df)
    /\ \A r \in DOMAIN f.rows : DOMAIN f.rows[r] = Range(f.df)
    /\ InStep(f) => \A r \in DOMAIN f.rows, i \in DOMAIN f.columns :
                      GetPhysical(f, r, i) \in Values(f.columns[i].type)
    /\ Range(f.row_order) \cup f.selected_rows \subseteq DOMAIN f.rows
    /\ Range(f.row_order) = Range(f.original_order)
    /\ Distinct(f.row_order) /\ Distinct(f.original_order)
    /\ f.row_order # <<>> => f.columns # <<>>
=============================================================================
