------------------------------- MODULE Analysis -------------------------------
(***************************************************************************)
(* The commands that open a table computed from the one on screen, or      *)
(* reshape it in place, and the way back from a line of a summary to the   *)
(* rows it stands for (app/mod.rs, app/actions/pivot.rs,                   *)
(* app/actions/chart.rs).  One stack of sheets over one table that was     *)
(* read from a file; SheetStack has what the stack does with them on disk. *)
(*                                                                         *)
(* A sheet is a record                                                     *)
(*    type    SheetType: "table", "frequency" or "pivot"                   *)
(*    keys    group_cols or index_cols, the names it was grouped by        *)
(*    on      pivot_col                                                    *)
(*    frame   its table                                                    *)
(*    made    a history variable: what the sheet was computed as, until    *)
(*            one of its columns is changed                                *)
(* Editing cells, undo, documents and database sheets have modules of      *)
(* their own.  Rows are sorted by columns of numbers only, and tables are  *)
(* not grouped by shares of a total, which are fractions in the code.      *)
(***************************************************************************)
EXTENDS Windows

CONSTANTS
    Tables,     \* the tables a file may hold
    Measure,    \* the column the pivot formula adds up
    NewNames,   \* what a column may be renamed to or inserted as
    Functions,  \* the window functions that are added
    Overs,      \* the sets of columns that restart them
    MaxChanges, \* bound: how many commands that change a sheet in place are given
    MaxDepth,   \* bound: how many sheets are stacked
    MaxEffort   \* bound: changes made and sheets opened on the way to a state that is left

ASSUME TablesAssumption == \A f \in Tables : FrameOK(f) /\ InStep(f)
ASSUME NamesAssumption == Measure \in Texts /\ NewNames \subseteq Texts /\ Functions \subseteq WindowFns
ASSUME BoundsAssumption == MaxChanges \in Nat /\ MaxDepth \in Nat \ {0} /\ MaxEffort \in Nat

VARIABLES
    stack,      \* the sheets, the active one last
    changes,    \* commands given so far that change a sheet in place
    panicked    \* the program has stopped with a panic

vars == <<stack, changes, panicked>>

Top == Last(stack)
frame == Top.frame
Under == stack[Len(stack) - 1].frame
Lines == DOMAIN frame.row_order
Cols == DOMAIN frame.columns

\* What a sheet was computed as.
Makes == {"loaded", "reshaped", "row", "group", "frequency", "pivot", "drilled", "bar"}

Derived(made, f) ==
    [type |-> "table", keys |-> <<>>, on |-> Empty, frame |-> f, made |-> made]

Init ==
    /\ stack \in {<<Derived("loaded", f)>> : f \in Tables}
    /\ changes = 0
    /\ panicked = FALSE

-----------------------------------------------------------------------------
(* What a command does with the stack.                                     *)

\* Past a sheet with more headers than columns (see HeadersMatchColumns) nothing but
\* leaving it is modelled.
Regular == InStep(frame)
Effort == changes + Len(stack) - 1
Running == ~panicked /\ UNCHANGED panicked /\ Regular /\ Effort <= MaxEffort

\* A command that opens a sheet, closes one or is refused.
Command == Running /\ UNCHANGED changes

\* A command that changes the active sheet.
Change ==
    /\ Running
    /\ changes < MaxChanges
    /\ changes' = changes + 1

Push(sheet) == Len(stack) < MaxDepth /\ stack' = Append(stack, sheet)

\* The rows of the active sheet in another order, or fewer of them.
Reorder(f) == stack' = [stack EXCEPT ![Len(stack)].frame = f]

\* Other columns than the sheet was made with.
Reshape(f) ==
    IF f = Refused THEN UNCHANGED stack
    ELSE stack' = [stack EXCEPT ![Len(stack)].frame = f,
                                ![Len(stack)].made = "reshaped"]

Pop ==
    /\ ~panicked
    /\ UNCHANGED <<changes, panicked>>
    /\ Len(stack) > 1
    /\ stack' = Front(stack)

-----------------------------------------------------------------------------
(* Commands on rows.                                                       *)

SortCursorColumn(c, desc) ==
    /\ Change
    /\ Numeric(frame, c)
    /\ Reorder(SortByKey(frame, c, desc))

ResetSort == Change /\ Reorder(ResetSortOrder(frame))

ToggleSelected(k) ==
    LET row == frame.row_order[k]
    IN  /\ Change
        /\ Reorder([frame EXCEPT !.selected_rows =
                IF row \in @ THEN @ \ {row} ELSE @ \cup {row}])

\* Counted with the rows it is given, not as a change of its own.
DeleteSelected ==
    /\ Command
    /\ frame.selected_rows # {}
    /\ Reorder(DeleteSelectedRows(frame))

-----------------------------------------------------------------------------
(* Commands on columns.                                                    *)

TogglePin(c) ==
    /\ Change
    /\ stack' = [stack EXCEPT ![Len(stack)].frame = TogglePinColumn(frame, c)]

ApplyRenameColumn(c, name) ==
    /\ Change
    /\ name # frame.columns[c].name
    /\ Reshape(RenameColumn(frame, c, name))

DeleteColumn(c) ==
    /\ Change
    /\ Len(frame.columns) > 1
    /\ Reshape(DropColumn(frame, c))

ApplyInsertColumn(c, name) ==
    /\ Change
    /\ Reshape(InsertEmptyColumn(frame, c, name))

\* move_col_left and move_col_right
MoveColumn(c) ==
    /\ Change
    /\ c + 1 \in Cols
    /\ Reshape(SwapColumns(frame, c, c + 1))

\* Taken for all the changes that are left.
AddWindow(w) ==
    /\ Running
    /\ changes < MaxChanges /\ Effort < MaxEffort
    /\ changes' = MaxChanges
    /\ Reshape(AddWindowColumn(frame, w))

\* What the dialogs can ask for.
WindowsOf(f, functions) ==
    {w \in [ function : functions, col : DOMAIN f.columns,
             over : {S \in Overs : \A n \in S : HasColumn(f, n)},
             order_by : {Null} \cup {f.columns[i].name : i \in {j \in DOMAIN f.columns : Numeric(f, j)}},
             desc : BOOLEAN ] :
        /\ w.order_by # Null => UsesOrderBy(w.function)
        /\ w.desc => UsesDirection(w.function) /\ (UsesOrderBy(w.function) => w.order_by # Null)
        /\ w.function \in {"rank", "dense_rank", "min", "max"} => Numeric(f, w.col)}

TransposeWhole ==
    /\ Change
    /\ Reshape(TransposeTable(frame))

-----------------------------------------------------------------------------
(* Commands that open a table computed from the rows on screen.            *)

\* These columns may be grouped by.
Keys(S) == \A i \in S : frame.columns[i].type # "share"

Frequency(cols, f) ==
    [type |-> "frequency", keys |-> NamesOf(frame, cols), on |-> Empty,
     frame |-> f, made |-> "frequency"]

OpenFrequencyTable(c) ==
    LET f == BuildFrequencyTable(frame, c)
    IN  /\ Command
        /\ Keys({c})
        /\ IF f = Refused THEN UNCHANGED stack ELSE Push(Frequency({c}, f))

OpenMultiFrequencyTable ==
    LET cols == Pinned(frame)
        f == BuildMultiFrequencyTable(frame, cols)
    IN  /\ Command
        /\ cols # {}
        /\ Keys(cols)
        /\ IF f = Refused THEN UNCHANGED stack ELSE Push(Frequency(cols, f))

OpenGroupBy ==
    LET cols == Pinned(frame)
        aggs == Aggregated(frame, cols)
        f == GroupBy(frame, cols, aggs)
    IN  /\ Command
        /\ cols # {}
        /\ aggs # {}
        /\ Keys(cols)
        /\ IF f = Refused THEN UNCHANGED stack
           ELSE Push(Derived("group", f))

\* The measure has to be a column of numbers.
ApplyPivotTable(c) ==
    /\ Command
    /\ Pinned(frame) # {}
    /\ ~frame.columns[c].pinned
    /\ Keys(Pinned(frame) \cup {c})
    /\ HasColumn(frame, Measure)
    /\ Numeric(frame, ColumnIndex(frame, Measure))
    /\ \E order \in PivotGroups(frame, Pinned(frame), c) :
          LET f == CreatePivotTable(frame, Pinned(frame), c, Measure, order)
          IN  IF f = Refused THEN UNCHANGED stack
              ELSE Push([type |-> "pivot", keys |-> NamesOf(frame, Pinned(frame)),
                         on |-> frame.columns[c].name, frame |-> f, made |-> "pivot"])

\* Enter on a line of a plain table.
OpenRow(k) ==
    /\ Command
    /\ Top.type = "table"
    /\ Push(Derived("row", TransposeRow(frame, frame.row_order[k])))

-----------------------------------------------------------------------------
(* From a line of a summary back to the rows it stands for.                *)

\* Mutant: where any of them does.
MatchingAny(f, names, texts) ==
    {k \in DOMAIN f.row_order :
        \E i \in DOMAIN names : k \in FindRowsByValue(f, ColumnIndex(f, names[i]), texts[i])}
\* The display rows of f where every column of `names` shows the text wanted.
Matching(f, names, texts) ==
    {k \in DOMAIN f.row_order :
        \A i \in DOMAIN names : k \in FindRowsByValue(f, ColumnIndex(f, names[i]), texts[i])}

\* A copy of the table under this one, narrowed to those rows.
DrillInto(names, texts) ==
    LET shown == Matching(Under, names, texts)
    IN  IF (\E i \in DOMAIN names : ~HasColumn(Under, names[i])) \/ shown = {}
        THEN UNCHANGED stack
        ELSE Push(Derived("drilled", Narrowed(Under, shown)))

\* The keys of a line are the columns before Count.
FrequencyKeys ==
    1 .. (IF HasColumn(frame, Count) THEN ColumnIndex(frame, Count) - 1 ELSE Len(frame.columns))

DrillDownFrequency(k) ==
    /\ Command
    /\ Top.type = "frequency"
    /\ FrequencyKeys # {}
    /\ DrillInto([i \in FrequencyKeys |-> frame.columns[i].name],
                 [i \in FrequencyKeys |-> TextAt(frame, k, i)])

\* The keys are looked up by the names the pivot was made with.  One that is no longer
\* a column leaves fewer texts than names, and reading past them is a panic, unless no
\* row is left before it comes to that.
DrillDownPivot(k, c) ==
    LET index == Top.keys
        held == Retain(index, Range(Names(frame.columns)))
        onIndex == frame.columns[c].name \in Range(index)
        names == IF onIndex THEN index ELSE Append(index, Top.on)
        texts == [i \in DOMAIN held |-> TextAt(frame, k, ColumnIndex(frame, held[i]))]
                 \o (IF onIndex THEN <<>> ELSE <<frame.columns[c].name>>)
        found == \A i \in DOMAIN names : HasColumn(Under, names[i])
        reached == Matching(Under, SubSeq(names, 1, Len(texts)), texts) # {} \/ Len(texts) < 2
    IN  /\ ~panicked /\ Regular /\ Effort <= MaxEffort
        /\ UNCHANGED changes
        /\ Top.type = "pivot"
        /\ IF found /\ Len(texts) < Len(names)
           THEN panicked' = reached /\ UNCHANGED stack
           ELSE DrillInto(names, texts) /\ UNCHANGED panicked

\* Enter on a bar of a chart over a column of texts: the column under the cursor, or
\* the pinned one a column of numbers is grouped by.
ChartDrillDown(c, label) ==
    LET shown == FindRowsByValue(frame, c, label)
    IN  /\ Command
        /\ ~Numeric(frame, c)
        /\ IF shown = {} THEN UNCHANGED stack
           ELSE Push(Derived("bar", Narrowed(frame, shown)))

-----------------------------------------------------------------------------
Next ==
    \/ Pop
    \/ \E c \in Cols, desc \in BOOLEAN : SortCursorColumn(c, desc)
    \/ ResetSort
    \/ \E k \in Lines : ToggleSelected(k)
    \/ DeleteSelected
    \/ \E c \in Cols : TogglePin(c)
    \/ \E c \in Cols, name \in NewNames : ApplyRenameColumn(c, name)
    \/ \E c \in Cols : DeleteColumn(c)
    \/ \E c \in Cols, name \in NewNames : ApplyInsertColumn(c, name)
    \/ \E c \in Cols : MoveColumn(c)
    \/ \E w \in WindowsOf(frame, Functions) : AddWindow(w)
    \/ TransposeWhole
    \/ \E c \in Cols : OpenFrequencyTable(c)
    \/ OpenMultiFrequencyTable
    \/ OpenGroupBy
    \/ \E c \in Cols : ApplyPivotTable(c)
    \/ \E k \in Lines : OpenRow(k)
    \/ \E k \in Lines : DrillDownFrequency(k)
    \/ \E k \in Lines, c \in Cols : DrillDownPivot(k, c)
    \/ Regular /\ \E c \in Cols : \E label \in Bars(frame, c) : ChartDrillDown(c, label)

Spec == Init /\ [][Next]_vars

-----------------------------------------------------------------------------
(* Properties.                                                             *)

\* Every sheet is a table with the names it was made with.
TypeOK ==
    /\ Len(stack) \in 1 .. MaxDepth
    /\ IsList(stack)
    /\ \A i \in DOMAIN stack :
        /\ stack[i] \in [ type : {"table", "frequency", "pivot"}, keys : Seq(Texts), on : Texts,
                         frame : {stack[i].frame}, made : Makes ]
        /\ FrameOK(stack[i].frame)
    /\ changes \in 0 .. MaxChanges
    /\ panicked \in BOOLEAN

\* The headers and the columns of the Polars frame are two lists that every command on
\* columns, every summary and every window changes one after the other: they name the
\* same columns in the same order, so a cell is shown under its own header.  The one
\* exception is a count by a column called Pct or Bar, whose shares or bars take the
\* key's place while the headers of both stay.
CountsByPctOrBar(sheet) == sheet.type = "frequency" /\ Range(sheet.keys) \cap {Pct, Bar} # {}
HeadersMatchColumns ==
    \A i \in DOMAIN stack :
        Distinct(stack[i].frame.df) /\ (InStep(stack[i].frame) \/ CountsByPctOrBar(stack[i]))

\* What a summary adds up to is what the rows under it add up to: no row is dropped or
\* counted twice on the way through groups, pairs of keys and NULLs.
Total(rows, name) == SumOver(rows, DOMAIN rows, name)
GroupedBy(sheet, under) ==
    IF sheet.made = "group" THEN {under.columns[i].name : i \in Pinned(under)}
    ELSE Range(sheet.keys)
SumsAgree(sheet, under) ==
    \A c \in Range(under.columns) :
        c.summed /\ SumName(c.name) \in Range(sheet.frame.df) \ GroupedBy(sheet, under)
        => Total(sheet.frame.rows, SumName(c.name)) = Total(Visible(under), c.name)
\* Rows without a first key are left out: see EveryRowIsCounted.
With(rows, key) == {i \in DOMAIN rows : rows[i][key] # Null}
CountsAgree(sheet, under) ==
    LET key == Head(sheet.keys)
    IN  SumOver(sheet.frame.rows, With(sheet.frame.rows, key), Count)
        = Cardinality(With(Visible(under), key))
CellsTotal(f, keys) ==
    SumOf([r \in DOMAIN f.rows |->
        SumOf([i \in DOMAIN f.df |->
            IF f.df[i] \in keys \/ f.rows[r][f.df[i]] = Null THEN 0 ELSE f.rows[r][f.df[i]]])])
SummariesAddUp ==
    \A i \in DOMAIN stack \ {1} :
        LET sheet == stack[i]
            under == stack[i - 1].frame
        IN  /\ sheet.made \in {"frequency", "group"} => SumsAgree(sheet, under)
            /\ sheet.made = "frequency" /\ InStep(sheet.frame) => CountsAgree(sheet, under)
            /\ sheet.made = "pivot" =>
                CellsTotal(sheet.frame, Range(sheet.keys)) = Total(Visible(under), Measure)

\* The texts of a line's keys, as Enter looks them up in the table under it.
KeysHeld(k) == \A n \in Range(Top.keys) : frame.rows[frame.row_order[k]][n] # Null
KeyTexts(k) == [i \in DOMAIN Top.keys |-> TextAt(frame, k, ColumnIndex(frame, Top.keys[i]))]
PivotColumns == {c \in Cols : frame.columns[c].name \notin Range(Top.keys) \cup {<<"null">>}}

\* They match as many rows as the line counted, or rows with the sum in the cell.
LineFound(k) ==
    Cardinality(Matching(Under, Top.keys, KeyTexts(k))) = frame.rows[frame.row_order[k]][Count]
CellFound(k, on) ==
    LET found == Matching(Under, Append(Top.keys, Top.on), Append(KeyTexts(k), on))
    IN  frame.rows[frame.row_order[k]][on]
        = IF found = {} THEN Null ELSE SumOver(Visible(Under), found, Measure)
FindsItsRows(k) ==
    IF Top.made = "frequency" THEN LineFound(k)
    ELSE \A c \in PivotColumns : CellFound(k, frame.columns[c].name)

\* A line of a summary whose columns are as it was made is found again by the texts of
\* its keys, when the program's text of each is the one Polars gives it: the line's keys
\* are written by the one and looked up by the other.  A line with a NULL key is left
\* out: its text is the empty one, which finds the rows that hold an empty text.
KeysFindable(k) ==
    /\ KeysHeld(k)
    /\ \A n \in Range(Top.keys) :
          LET type == frame.columns[ColumnIndex(frame, n)].type
              v == frame.rows[frame.row_order[k]][n]
          IN  Cast(type, v) = Text(type, v)
LinesFindTheirRows ==
    \A k \in {l \in Lines : Regular /\ Top.made \in {"frequency", "pivot"} /\ KeysFindable(l)} :
        FindsItsRows(k)

\* The comment on the look-up: it finds the rows that equal the target exactly.  A key
\* that is a whole number in a column of floats equals no row by that comparison.
FloatLinesFindTheirRows ==
    \A k \in {l \in Lines : Regular /\ Top.made \in {"frequency", "pivot"} /\ KeysHeld(l)} :
        FindsItsRows(k)

\* When Enter on such a line or cell opens a sheet, the sheet shows those rows, all of
\* them and no others, in the order they have under it.  An Enter that finds no rows
\* opens none, and is LinesFindTheirRows' to judge.
DrilledRows == Visible(Last(stack').frame)
InOrderOf(f, g) ==
    \A i, j \in DOMAIN f.row_order : i < j =>
        \E a, b \in DOMAIN g.row_order :
            a < b /\ g.row_order[a] = f.row_order[i] /\ g.row_order[b] = f.row_order[j]
ShowsLine(k) ==
    /\ InOrderOf(Last(stack').frame, Under)
    /\ Len(DrilledRows) = frame.rows[frame.row_order[k]][Count]
ShowsCell(k, c) ==
    /\ InOrderOf(Last(stack').frame, Under)
    /\ SumOver(DrilledRows, DOMAIN DrilledRows, Measure)
       = frame.rows[frame.row_order[k]][frame.columns[c].name]
DrillShowsItsLine ==
    [][Last(stack').made = "drilled" /\ Len(stack') > Len(stack) =>
        \A k \in Lines :
            CASE Top.made = "frequency" -> DrillDownFrequency(k) /\ KeysFindable(k) => ShowsLine(k)
              [] Top.made = "pivot" ->
                    KeysFindable(k) => \A c \in PivotColumns : DrillDownPivot(k, c) => ShowsCell(k, c)
              [] OTHER -> TRUE]_vars

\* A window adds a column and leaves the table alone: the rows on screen, the marks on
\* them and what "reset sort" brings back are those there were.
Cells(f, order, names) == [k \in DOMAIN order |-> KeyOf(f.rows[order[k]], names)]
Marked(f) == {k \in DOMAIN f.row_order : f.row_order[k] \in f.selected_rows}
SameTable(f, g) ==
    LET names == Range(f.df)
    IN  /\ Cells(g, g.row_order, names) = Cells(f, f.row_order, names)
        /\ Cells(g, g.original_order, names) = Cells(f, f.original_order, names)
        /\ Marked(g) = Marked(f)
        /\ Names(f.columns) = Retain(Names(g.columns), names)
Widened ==
    /\ Len(stack') = Len(stack)
    /\ Len(Last(stack').frame.columns) = Len(frame.columns) + 1
\* The windows the column a step added may stand for.
Added == {w \in WindowsOf(frame, Functions) : HasColumn(Last(stack').frame, WindowName(frame, w))}
WindowLeavesTableAlone ==
    [][Widened => \A w \in Added : AddWindow(w) => SameTable(frame, Last(stack').frame)]_vars

\* What a window means, told of each row by itself: the rows of its partition that come
\* before it by the ordering column, NULLs last and ties as on screen.
Precedes(rows, w, j, k) ==
    IF w.order_by = Null THEN j < k
    ELSE LET a == rows[j][w.order_by] b == rows[k][w.order_by]
         IN  KeyBefore(a, b, w.desc) \/ (a = b /\ j < k)
Meant(rows, name, w, k) ==
    LET S == {j \in DOMAIN rows : KeyOf(rows[j], w.over) = KeyOf(rows[k], w.over)}
        past == {j \in S : Precedes(rows, w, j, k)}
        next == {j \in S : Precedes(rows, w, k, j)}
        v == rows[k][name]
        held == {j \in S : rows[j][name] # Null}
        above == {j \in held : IF w.desc THEN rows[j][name] > v ELSE rows[j][name] < v}
    IN  CASE w.function = "row_number" -> Cardinality(past) + 1
          [] w.function = "cum_sum" ->
                IF v = Null THEN Null ELSE v + SumOver(rows, past, name)
          [] w.function = "lag" ->
                IF past = {} THEN Null
                ELSE rows[CHOOSE j \in past : \A i \in past \ {j} : Precedes(rows, w, i, j)][name]
          [] w.function = "lead" ->
                IF next = {} THEN Null
                ELSE rows[CHOOSE j \in next : \A i \in next \ {j} : Precedes(rows, w, j, i)][name]
          [] w.function = "rank" -> IF v = Null THEN Null ELSE Cardinality(above) + 1
          [] w.function = "dense_rank" ->
                IF v = Null THEN Null
                ELSE Cardinality({rows[j][name] : j \in above}) + 1
          [] w.function = "count" -> Cardinality(held)
          [] w.function = "sum" -> SumOver(rows, held, name)
          [] w.function = "min" ->
                IF held = {} THEN Null
                ELSE rows[CHOOSE j \in held : \A i \in held : rows[j][name] <= rows[i][name]][name]
          [] w.function = "max" ->
                IF held = {} THEN Null
                ELSE rows[CHOOSE j \in held : \A i \in held : rows[j][name] >= rows[i][name]][name]
WindowsMeanThat ==
    [][Widened => \A w \in Added : AddWindow(w) =>
            LET rows == Visible(frame)
                new == Visible(Last(stack').frame)
            IN  \A k \in Lines : new[k][WindowName(frame, w)]
                                = Meant(rows, frame.columns[w.col].name, w, k)]_vars

\* Transposed twice, a table is back as it was shown, headers and all, if as text.
Shown(f) == [k \in DOMAIN f.row_order |-> [i \in DOMAIN f.columns |-> TextAt(f, k, i)]]
TransposedTwiceIsItself ==
    Regular /\ frame.row_order # <<>> /\ ~frame.transposed =>
        LET twice == TransposeTable(TransposeTable(frame))
        IN  /\ Names(twice.columns) = Names(frame.columns)
            /\ Shown(twice) = Shown(frame)
            /\ ~twice.transposed

\* The comment on the multi-column frequency table: its counts are row counts.  They
\* are not where the first of its columns is NULL.
EveryRowIsCounted ==
    \A i \in DOMAIN stack \ {1} :
        stack[i].made = "frequency" =>
            Total(stack[i].frame.rows, Count) = Len(stack[i - 1].frame.row_order)

\* No key makes the program panic.  Enter in a pivot whose index column was renamed or
\* deleted does.
NeverPanics == ~panicked
=============================================================================
