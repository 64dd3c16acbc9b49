-------------------------------- MODULE App --------------------------------
(***************************************************************************)
(* The application (app/mod.rs, event.rs, app/actions): one loop that      *)
(* polls the background loader, runs the command parked by the last key    *)
(* and handles one key; a mode that gives each key its meaning; and the    *)
(* stack of sheets below it all.                                           *)
(*                                                                         *)
(* A table is abstracted to its shape: how many columns it has and whether *)
(* it is a listing or a view of a document.  Rows, names and typed text    *)
(* decide only which of a handler's outcomes happens.  Columns count from  *)
(* 1 here and from 0 in the code, so a cursor beyond the width is the      *)
(* cursor of a table that lost columns.                                    *)
(***************************************************************************)
EXTENDS SheetStack

CONSTANTS
    Width,      \* table |-> how many columns it has
    Listings,   \* directory listings and lists of a file's tables
    Docs,       \* views of a document
    Blank       \* DataFrame::empty(): what a sheet holds while a file loads

ASSUME WidthAssumption == Width \in [Frames -> Nat]
ASSUME KindsAssumption == Listings \subseteq Frames /\ Docs \subseteq Frames \ Listings
ASSUME BlankAssumption == Blank \in Frames \ (Listings \cup Docs) /\ Width[Blank] = 0

VARIABLES
    mode,       \* App.mode
    cursor,     \* the sheets' cursor_col
    pending,    \* App.pending_action, parked for the next turn of the loop
    load,       \* App.load_receiver and the thread behind it
    chart,      \* chart.drill_return
    armed,      \* App.pending_window_fn is set
    running,    \* "yes", "quit", or "panic"
    leaving     \* observer: from now on the user presses nothing but Esc

uiVars == <<cursor, pending, load, chart, armed, running>>
appVars == <<vars, mode, uiVars, leaving>>

OnDoc == Top \in Docs
HasColumn == cursor[Depth] <= Width[Top]
None == "none"

Tables == Frames \ (Listings \cup Docs \cup {Blank})
SameKind(f) == IF f \in Docs THEN Docs ELSE IF f \in Listings THEN Listings ELSE Tables

\* load_receiver, the thread's state, and (observer) the position of the sheet
\* the load was started for, 0 once that sheet is popped.
NoLoad == [state |-> "none", sheet |-> 0]

\* One table made of several: what the arms of a `match` have in common.
Together(tables) ==
    [k \in UNION {DOMAIN t : t \in tables} |-> (CHOOSE t \in tables : k \in DOMAIN t)[k]]

-----------------------------------------------------------------------------
(* Keys (event.rs).  In each mode: the action of Esc, and the actions of   *)
(* all the keys that do more than edit a line or move in a list.           *)

On(esc, keys) == [esc |-> esc, keys |-> keys \cup {esc}]

NormalKeys == On("PopSheet", {
    "MoveLeft", "MoveRight", "GoTop", "SortAscending", "OpenRow", "Redo", "ResetSort",
    "ReloadFile", "StartSearch", "SearchNext", "SelectByValue", "StartSelectByRegex",
    "OpenFrequencyTable", "OpenChart", "TogglePinColumn", "DescribeSheet",
    "OpenTypeSelect", "TransposeTable", "StartEdit", "OpenExternalEditor",
    "CycleViewMode", "ExpandColumn", "Undo", "SaveFile", "OpenAggregatorSelect",
    "ClearAggregators", "QuickAggregate", "StartExpression", "AdjustColumnWidth",
    "SelectRow", "EnterSPrefix", "EnterGPrefix", "EnterZPrefix", "EnterYPrefix",
    "PasteRows", "AddRowBelow", "OpenRowForm", "DeleteSelectedRows",
    "CreateSheetFromSelection", "OpenPivotTableInput", "OpenJoin", "ShowHelp"})

PromptKeys == [
    PivotTableInput  |-> On("CancelPivotTable", {"ApplyPivotTable"}),
    ChartAggSelect   |-> On("CancelChartAgg", {"ApplyChartAgg"}),
    Searching        |-> On("CancelSearch", {"ApplySearch"}),
    SelectByRegex    |-> On("CancelSelectByRegex", {"ApplySelectByRegex"}),
    ExpressionInput  |-> On("CancelExpression", {"ApplyExpression"}),
    TypeSelect       |-> On("CancelTypeSelect", {"ApplyTypeSelect"}),
    CurrencySelect   |-> On("CancelCurrencySelect", {"ApplyCurrencySelect"}),
    Editing          |-> On("CancelEdit", {"ApplyEdit"}) ]

\* Mutant: the keys of the table work while its file is still being read.
WaitKeysAsNormal == [
    Loading          |-> NormalKeys,
    Calculating      |-> On("Ignore", {}),
    AggregatorSelect |-> On("CancelAggregatorSelect", {"ApplyAggregators"}),
    Saving           |-> On("CancelSave", {"ApplySave"}),
    Chart            |-> On("OpenChart", {"ChartDrillDown"}) ]

WaitKeys == [
    Loading          |-> On("Ignore", {}),
    Calculating      |-> On("Ignore", {}),
    AggregatorSelect |-> On("CancelAggregatorSelect", {"ApplyAggregators"}),
    Saving           |-> On("CancelSave", {"ApplySave"}),
    Chart            |-> On("OpenChart", {"ChartDrillDown"}) ]

GotoKeys == [
    GPrefix     |-> On("CancelGPrefix", {"GoTop", "StartDocSearch", "StartPathGoto",
                       "StartQuery", "SelectAllRows", "StartBulkEdit",
                       "AdjustAllColumnWidths", "OpenMultiFrequencyTable",
                       "OpenGroupBy", "DeduplicateByPinned"}),
    QueryInput  |-> On("CancelQuery", {"ApplyQuery"}),
    PathInput   |-> On("CancelPathGoto", {"ApplyPathGoto"}),
    DocSearching |-> On("CancelDocSearch", {"ApplyDocSearch"}) ]

SaveKeys == [
    SqlConfirm      |-> On("CancelSql", {"ApplySql"}),
    TableNameInput  |-> On("CancelTableName", {"ApplyTableName"}),
    RowForm         |-> On("CancelRowForm", {"ApplyRowForm"}),
    SaveShapeSelect |-> On("CancelSaveShape", {"ApplySaveShape"}),
    OpenAsSelect    |-> On("CancelOpenAs", {"ApplyOpenAs"}) ]

ColumnKeys == [
    ZPrefix     |-> On("CancelZPrefix", {"OpenCell", "StartRenameColumn", "DeleteColumn",
                       "StartInsertColumn", "CreatePctColumn", "OpenPartitionSelect",
                       "SelectColumn", "MoveColumnLeft", "MoveColumnRight",
                       "AdjustPrecision", "StartColReplace", "StartColSplit", "OpenAs",
                       "OpenWindowFnSelect", "AddSortKey"}),
    ColReplacingFind    |-> On("CancelColOp", {"ColFindConfirm"}),
    ColReplacingReplace |-> On("CancelColOp", {"ApplyColReplace"}),
    ColSplitting        |-> On("CancelColOp", {"ApplyColSplit"}),
    ColumnMove  |-> On("ExitColumnMove", {"MoveColumnLeft", "MoveColumnRight",
                                          "EnterZPrefix"}) ]

PickKeys == [
    SPrefix               |-> On("CancelSPrefix", {"StartSelectRandom",
                                 "SelectDuplicates", "StartSmartDedup"}),
    SelectRandomInput     |-> On("CancelSelectRandom", {"ApplySelectRandom"}),
    DedupTiebreakerSelect |-> On("CancelDedupTiebreaker", {"ApplyDedupTiebreaker"}),
    BulkEditing           |-> On("CancelBulkEdit", {"ApplyBulkEdit"}),
    WindowFnSelect        |-> On("CancelWindowFnSelect", {"ApplyWindowFnSelect"}),
    WindowOrderSelect     |-> On("CancelWindowOrderSelect", {"ApplyWindowOrderSelect"}),
    WindowDirSelect       |-> On("CancelWindowDirSelect", {"ApplyWindowDirSelect"}),
    PartitionSelect       |-> On("CancelPartitionSelect", {"ApplyPartitionedPct"}) ]

NameAndCopyKeys == [
    RenamingColumn   |-> On("CancelRenameColumn", {"ApplyRenameColumn"}),
    InsertingColumn  |-> On("CancelInsertColumn", {"ApplyInsertColumn"}),
    ConfirmQuit      |-> On("ConfirmQuitNo", {"ConfirmQuitYes"}),
    YPrefix          |-> On("CancelYPrefix", {"CopyCurrentCell", "CopyNodePath",
                                              "OpenCopyFormat"}),
    CopyFormatSelect |-> On("CancelCopyFormat", {"ApplyCopyFormat"}),
    Help             |-> On("CloseHelp", {}) ]

JoinKeys == [
    JoinSelectSource    |-> On("JoinSourceCancel", {"JoinSourceApply"}),
    JoinInputPath       |-> On("JoinPathCancel", {"JoinPathApply"}),
    JoinSelectType      |-> On("JoinTypeCancel", {"JoinTypeApply"}),
    JoinSelectLeftKeys  |-> On("JoinLeftKeyCancel", {"JoinLeftKeyApply"}),
    JoinSelectRightKeys |-> On("JoinRightKeyCancel", {"JoinRightKeyApply"}),
    JoinOverviewSelect  |-> On("JoinOverviewCancel", {"JoinOverviewApply"}) ]

Keys == Together({[Normal |-> NormalKeys], PromptKeys, WaitKeys, GotoKeys, SaveKeys,
                  ColumnKeys, PickKeys, NameAndCopyKeys, JoinKeys})

Modes == DOMAIN Keys

-----------------------------------------------------------------------------
(* What the handlers do with the mode.  Each maps the actions of one file  *)
(* that leave the tables' shapes and the stack alone to the modes they can *)
(* end in ("Stay": the mode is not touched); several modes mean that the   *)
(* rows, the typed text or the file system decide.                         *)

To(m) == {m}
Stay == {"Stay"}

SearchMoves == [
    StartSearch         |-> To("Searching"),
    ApplySearch         |-> To("Normal"),
    CancelSearch        |-> To("Normal"),
    SearchNext          |-> Stay,
    SelectByValue       |-> Stay,
    StartSelectByRegex  |-> To("SelectByRegex"),
    ApplySelectByRegex  |-> To("Normal"),
    CancelSelectByRegex |-> To("Normal") ]

ExpressionMoves == [
    StartExpression  |-> To("ExpressionInput"),
    CancelExpression |-> To("Normal") ]

PrefixMoves == [
    EnterZPrefix       |-> To("ZPrefix"),
    SelectColumn       |-> To("ZPrefix"),
    CancelZPrefix      |-> To("Normal"),
    StartRenameColumn  |-> To("RenamingColumn"),
    ApplyRenameColumn  |-> To("Normal"),
    CancelRenameColumn |-> To("Normal"),
    StartInsertColumn  |-> To("InsertingColumn"),
    CancelInsertColumn |-> To("Normal") ]

ColumnMoves == [
    AdjustColumnWidth     |-> Stay,
    AdjustAllColumnWidths |-> To("Normal"),
    AdjustPrecision       |-> To("Normal"),
    StartColReplace       |-> To("ColReplacingFind"),
    StartColSplit         |-> To("ColSplitting") ]

ColumnTextMoves == [
    ColFindConfirm  |-> To("ColReplacingReplace"),
    ApplyColReplace |-> To("Normal"),
    CancelColOp     |-> To("Normal"),
    ExitColumnMove  |-> To("Normal") ]

AggregatorMoves == [
    OpenAggregatorSelect   |-> To("AggregatorSelect"),
    ClearAggregators       |-> To("Normal"),
    CancelAggregatorSelect |-> To("Normal"),
    QuickAggregate         |-> Stay ]

EditMoves == [
    OpenExternalEditor |-> Stay,
    StartEdit          |-> {"Editing", "Stay"},
    ApplyEdit          |-> To("Normal"),
    CancelEdit         |-> To("Normal"),
    StartBulkEdit      |-> {"BulkEditing", "Normal"},
    ApplyBulkEdit      |-> To("Normal"),
    CancelBulkEdit     |-> To("Normal") ]

TypeMoves == [
    OpenTypeSelect       |-> To("TypeSelect"),
    ApplyTypeSelect      |-> {"CurrencySelect", "Normal"},
    CancelTypeSelect     |-> To("Normal"),
    ApplyCurrencySelect  |-> To("Normal"),
    CancelCurrencySelect |-> To("TypeSelect") ]

ClipboardMoves == [
    EnterYPrefix     |-> To("YPrefix"),
    CancelYPrefix    |-> To("Normal"),
    CopyNodePath     |-> To("Normal"),
    CopyCurrentCell  |-> To("Normal"),
    OpenCopyFormat   |-> {"CopyFormatSelect", "Normal"},
    CancelCopyFormat |-> To("Normal"),
    ApplyCopyFormat  |-> To("Normal"),
    PasteRows        |-> {"Stay", "Normal"} ]

\* From the name and the plan, Esc goes back to the path, never to the table.
SaveMoves == [
    SaveFile        |-> To("Saving"),
    ApplySave       |-> {"Stay", "Normal", "SqlConfirm", "TableNameInput", "SaveShapeSelect"},
    CancelSave      |-> To("Normal"),
    ApplyTableName  |-> {"Stay", "Saving", "Normal", "SqlConfirm"},
    CancelTableName |-> To("Saving") ]

PlanMoves == [
    CancelSql       |-> To("Saving"),
    ApplySaveShape  |-> {"Saving", "Normal"},
    CancelSaveShape |-> To("Saving"),
    OpenAs          |-> {"OpenAsSelect", "Normal"},
    ApplyOpenAs     |-> To("Normal"),
    CancelOpenAs    |-> To("Normal") ]

PivotMoves == [
    OpenPivotTableInput |-> {"PivotTableInput", "Stay"},
    CancelPivotTable    |-> To("Normal") ]

RowFormMoves == [
    OpenRowForm   |-> {"RowForm", "Stay"},
    ApplyRowForm  |-> {"Normal", "Stay"},
    CancelRowForm |-> To("Normal") ]

SelectionMoves == [
    SelectRow          |-> Stay,
    EnterGPrefix       |-> To("GPrefix"),
    CancelGPrefix      |-> To("Normal"),
    SelectAllRows      |-> To("Normal"),
    DeleteSelectedRows |-> Stay,
    AddRowBelow        |-> Stay,
    TogglePinColumn    |-> Stay,
    ShowHelp           |-> To("Help"),
    CloseHelp          |-> To("Normal") ]

DedupMoves == [
    EnterSPrefix          |-> To("SPrefix"),
    CancelSPrefix         |-> To("Normal"),
    StartSelectRandom     |-> To("SelectRandomInput"),
    ApplySelectRandom     |-> To("Normal"),
    CancelSelectRandom    |-> To("Normal"),
    SelectDuplicates      |-> To("Normal"),
    StartSmartDedup       |-> {"DedupTiebreakerSelect", "Normal"},
    ApplyDedupTiebreaker  |-> To("Normal"),
    CancelDedupTiebreaker |-> To("Normal") ]

DocMoves == [
    StartDocSearch  |-> To("DocSearching"),
    ApplyDocSearch  |-> To("Normal"),
    CancelDocSearch |-> To("Normal"),
    StartPathGoto   |-> To("PathInput"),
    ApplyPathGoto   |-> To("Normal"),
    CancelPathGoto  |-> To("Normal"),
    StartQuery      |-> To("QueryInput"),
    ApplyQuery      |-> To("Normal"),
    CancelQuery     |-> To("Normal"),
    OpenCell        |-> Stay,
    OpenRow         |-> Stay ]

SortMoves == [
    SortAscending |-> To("Normal"),
    AddSortKey    |-> To("Normal"),
    ResetSort     |-> Stay,
    GoTop         |-> Stay,
    ReloadFile    |-> Stay,
    ConfirmQuitNo |-> To("Normal"),
    Ignore        |-> Stay ]

\* Mutant: the two ways back are mixed up.
JoinMovesMixedUp == [
    OpenJoin           |-> {"JoinOverviewSelect", "JoinSelectSource", "Stay"},
    JoinSourceApply    |-> {"JoinInputPath", "JoinSelectType", "Stay"},
    JoinSourceCancel   |-> To("Normal"),
    JoinPathApply      |-> {"JoinSelectType", "Stay"},
    JoinPathCancel     |-> To("JoinSelectSource"),
    JoinTypeApply      |-> To("JoinSelectLeftKeys"),
    JoinTypeCancel     |-> To("JoinSelectLeftKeys"),
    JoinLeftKeyApply   |-> {"JoinSelectRightKeys", "Stay"},
    JoinLeftKeyCancel  |-> To("JoinSelectType"),
    JoinRightKeyApply  |-> {"Normal", "Stay"},
    JoinRightKeyCancel |-> To("JoinSelectLeftKeys"),
    JoinOverviewApply  |-> Stay,
    JoinOverviewCancel |-> To("Normal") ]

JoinMoves == [
    OpenJoin           |-> {"JoinOverviewSelect", "JoinSelectSource", "Stay"},
    JoinSourceApply    |-> {"JoinInputPath", "JoinSelectType", "Stay"},
    JoinSourceCancel   |-> To("Normal"),
    JoinPathApply      |-> {"JoinSelectType", "Stay"},
    JoinPathCancel     |-> To("JoinSelectSource"),
    JoinTypeApply      |-> To("JoinSelectLeftKeys"),
    JoinTypeCancel     |-> To("JoinSelectSource"),
    JoinLeftKeyApply   |-> {"JoinSelectRightKeys", "Stay"},
    JoinLeftKeyCancel  |-> To("JoinSelectType"),
    JoinRightKeyApply  |-> {"Normal", "Stay"},
    JoinRightKeyCancel |-> To("JoinSelectLeftKeys"),
    JoinOverviewApply  |-> Stay,
    JoinOverviewCancel |-> To("Normal") ]

Moves == Together({
    SearchMoves, ExpressionMoves, PrefixMoves, ColumnMoves, ColumnTextMoves,
    AggregatorMoves, EditMoves, TypeMoves, ClipboardMoves, SaveMoves,
    PlanMoves, PivotMoves, RowFormMoves, SelectionMoves, DedupMoves,
    DocMoves, SortMoves, JoinMoves})

\* Mutant: splitting a column does not ask what kind of sheet it is on.
NotOnDocsButSplit == {
    "CreatePctColumn", "OpenPartitionSelect", "OpenWindowFnSelect", "StartColReplace",
    "StartExpression", "OpenRowForm", "AddRowBelow", "TransposeTable"}

\* Commands that reject_on_doc_sheet turns away from a document's view.
NotOnDocs == {
    "CreatePctColumn", "OpenPartitionSelect", "OpenWindowFnSelect", "StartColReplace",
    "StartColSplit", "StartExpression", "OpenRowForm", "AddRowBelow", "TransposeTable"}

OnlyOnDocs == {"StartDocSearch", "StartPathGoto", "StartQuery"}

\* Commands that index the columns with cursor_col, unchecked.
IndexingKeys == {
    "SelectColumn", "StartRenameColumn", "ApplyRenameColumn", "MoveColumnLeft",
    "MoveColumnRight", "SortAscending", "AddSortKey", "OpenAggregatorSelect",
    "QuickAggregate", "OpenPivotTableInput", "OpenChart", "ApplyChartAgg"}

-----------------------------------------------------------------------------
(* Steps.  The loop handles a key only when no command is parked.          *)

AppInit ==
    /\ Init
    /\ cursor = <<1>> /\ pending = None /\ armed = FALSE
    /\ chart = FALSE
    /\ running = "yes" /\ leaving = FALSE
    /\ IF sheets[1] = Blank     \* a file above ASYNC_THRESHOLD
       THEN mode = "Loading" /\ load = [state |-> "running", sheet |-> 1]
       ELSE mode = "Normal"  /\ load = NoLoad

Key(k) ==
    /\ running = "yes" /\ mode # "Calculating"
    /\ k \in Keys[mode].keys
    /\ leaving => k = Keys[mode].esc

GoTo(modes) == mode' \in {IF m = "Stay" THEN mode ELSE m : m \in modes}

Misplaced(k) == IF OnDoc THEN k \in NotOnDocs ELSE k \in OnlyOnDocs
Indexes(k) ==
    /\ ~HasColumn
    /\ \/ k \in IndexingKeys /\ ~(k = "OpenChart" /\ mode # "Normal")
       \/ k = "DeleteColumn" /\ Width[Top] > 1
Works(k) == Key(k) /\ ~Misplaced(k) /\ ~Indexes(k)

\* handle_action, for a command that only moves between modes.
Command(k) ==
    /\ Works(k) /\ k \in DOMAIN Moves
    /\ GoTo(Moves[k])
    /\ StackAsIs /\ UNCHANGED <<uiVars, leaving>>

\* reject_on_doc_sheet, and its counterparts on a table.
Reject(k) ==
    /\ Key(k) /\ Misplaced(k)
    /\ mode' = "Normal"
    /\ StackAsIs /\ UNCHANGED <<uiVars, leaving>>

\* The index panic that ends the program.
IndexMissingColumn(k) ==
    /\ Key(k) /\ ~Misplaced(k) /\ Indexes(k)
    /\ running' = "panic"
    /\ StackAsIs /\ UNCHANGED <<mode, cursor, pending, load, chart, armed, leaving>>

Place(c) == cursor' = [cursor EXCEPT ![Depth] = c]

MoveLeft ==
    /\ Works("MoveLeft")
    /\ Place(IF cursor[Depth] > 1 THEN cursor[Depth] - 1 ELSE 1)
    /\ StackAsIs /\ UNCHANGED <<mode, pending, load, chart, armed, running, leaving>>

MoveRight ==
    /\ Works("MoveRight")
    /\ Place(IF cursor[Depth] < Width[Top] THEN cursor[Depth] + 1
             ELSE IF Width[Top] = 0 THEN 1 ELSE Width[Top])
    /\ StackAsIs /\ UNCHANGED <<mode, pending, load, chart, armed, running, leaving>>

\* The column goes with the cursor; at the edge, or refused, both stay.
MoveColumn(k, by) ==
    /\ Works(k) /\ mode' = "ColumnMove"
    /\ \/ Place(cursor[Depth] + by) /\ cursor[Depth] + by \in 1 .. Width[Top]
       \/ UNCHANGED cursor
    /\ StackAsIs /\ UNCHANGED <<pending, load, chart, armed, running, leaving>>

-----------------------------------------------------------------------------
(* Commands that change the shape of the table.                            *)

\* col.min(cols.saturating_sub(1)), where a view of a document is drawn again.
Within(c, w) == IF c <= w THEN c ELSE IF w = 0 THEN 1 ELSE w

\* Sheet::clamp_cursor
Clamped(f) == IF cursor[Depth] > Width[f] /\ Width[f] > 0 THEN Width[f] ELSE cursor[Depth]

\* A new column beside the cursor, or an error, a dialog closed either way.
Widen(k) ==
    /\ Works(k)
    /\ k \in {"ApplyExpression", "ApplyInsertColumn", "ApplyColSplit", "CreatePctColumn",
              "ApplyPartitionedPct"}
    /\ mode' = "Normal"
    /\ armed' = (armed /\ k # "ApplyPartitionedPct")
    /\ \E f \in {Top} \cup {g \in SameKind(Top) : Width[g] > Width[Top]} : Write(f)
    /\ UNCHANGED <<cursor, pending, load, chart, running, leaving>>

\* delete_column: never the last one.
DeleteColumn ==
    /\ Works("DeleteColumn")
    /\ mode' = "Normal"
    /\ \E f \in {Top} \cup {g \in SameKind(Top) : Width[g] \in 1 .. Width[Top] - 1} :
           Write(f) /\ (IF f = Top THEN UNCHANGED cursor ELSE Place(Clamped(f)))
    /\ UNCHANGED <<pending, load, chart, armed, running, leaving>>

\* pop_undo and pop_redo restore a table that may be of another shape, a
\* document's views change theirs, an applied plan reloads the table.
Replace(k) ==
    /\ Works(k)
    /\ \/ k \in {"Undo", "Redo"} /\ GoTo(Stay)
       \/ k \in {"CycleViewMode", "ExpandColumn"} /\ OnDoc /\ GoTo(Stay)
       \/ k = "ApplySql" /\ GoTo({"Normal", "Saving"})
    /\ \/ StackAsIs /\ UNCHANGED cursor
       \/ \E f \in SameKind(Top) \cup {Top} :
             /\ Write(f)
             /\ Place(CASE k = "CycleViewMode" -> 1
                        [] k = "ExpandColumn" -> Within(cursor[Depth], Width[f])
                        [] OTHER -> Clamped(f))
    /\ UNCHANGED <<pending, load, chart, armed, running, leaving>>

TransposeTable ==
    /\ Works("TransposeTable")
    /\ \/ \E f \in SameKind(Top) : Write(f) /\ Place(1)
       \/ StackAsIs /\ UNCHANGED cursor
    /\ UNCHANGED <<mode, pending, load, chart, armed, running, leaving>>

-----------------------------------------------------------------------------
(* Window functions: the picker the three dialogs share.                   *)

\* open_partition_select; with nothing under the cursor it returns at once.
OpenPartitionPicker ==
    IF HasColumn THEN mode' = "PartitionSelect" ELSE UNCHANGED mode

WindowDialog(k) ==
    /\ Works(k)
    /\ \/ k = "OpenWindowFnSelect" /\ mode' = "WindowFnSelect" /\ UNCHANGED armed
       \/ k = "CancelWindowFnSelect" /\ mode' = "Normal" /\ UNCHANGED armed
       \/ /\ k = "ApplyWindowFnSelect" /\ armed' = TRUE
          /\ GoTo({"WindowOrderSelect", "WindowDirSelect"}) \/ OpenPartitionPicker
       \/ /\ k = "ApplyWindowOrderSelect" /\ UNCHANGED armed
          /\ (HasColumn /\ mode' = "WindowDirSelect") \/ OpenPartitionPicker
       \/ k = "ApplyWindowDirSelect" /\ OpenPartitionPicker /\ UNCHANGED armed
       \/ /\ k \in {"CancelWindowOrderSelect", "CancelWindowDirSelect",
                    "CancelPartitionSelect"}
          /\ mode' = "Normal" /\ armed' = FALSE
       \/ /\ k = "OpenPartitionSelect" /\ UNCHANGED armed
          /\ OpenPartitionPicker \/ (HasColumn /\ ~armed /\ mode' = "Normal")
    /\ StackAsIs /\ UNCHANGED <<cursor, pending, load, chart, running, leaving>>

-----------------------------------------------------------------------------
(* Sheets pushed and popped.                                               *)

\* Mutant: a query's result opens with the query line still up.
DivesStillAsking(k) ==
    CASE k = "OpenRow" -> [on |-> Frames, modes |-> Stay]
      [] k = "OpenCell" -> [on |-> Docs, modes |-> Stay]
      [] k = "ApplyQuery" -> [on |-> Docs, modes |-> Stay]
      [] k \in {"ApplyDocSearch", "ApplyPathGoto"} -> [on |-> Docs, modes |-> To("Normal")]
      [] k = "ApplyOpenAs" -> [on |-> Listings, modes |-> To("Normal")]
      [] k = "JoinOverviewApply" -> [on |-> Listings, modes |-> To("JoinSelectType")]
      [] k = "JoinRightKeyApply" ->
             [on |-> Frames, modes |-> {"Normal", "JoinSelectType"}]
      [] k \in {"DescribeSheet", "CreateSheetFromSelection"} ->
             [on |-> Frames, modes |-> Stay]

\* The commands that push a sheet, the kinds of sheet they do it on, and the
\* modes they leave.
Dives(k) ==
    CASE k = "OpenRow" -> [on |-> Frames, modes |-> Stay]
      [] k = "OpenCell" -> [on |-> Docs, modes |-> Stay]
      [] k \in {"ApplyQuery", "ApplyDocSearch", "ApplyPathGoto"} ->
             [on |-> Docs, modes |-> To("Normal")]
      [] k = "ApplyOpenAs" -> [on |-> Listings, modes |-> To("Normal")]
      [] k = "JoinOverviewApply" -> [on |-> Listings, modes |-> To("JoinSelectType")]
      [] k = "JoinRightKeyApply" ->
             [on |-> Frames, modes |-> {"Normal", "JoinSelectType"}]
      [] k \in {"DescribeSheet", "CreateSheetFromSelection"} ->
             [on |-> Frames, modes |-> Stay]

DiveKeys == {"OpenRow", "OpenCell", "ApplyQuery", "ApplyDocSearch", "ApplyPathGoto",
             "ApplyOpenAs", "JoinOverviewApply", "JoinRightKeyApply", "DescribeSheet",
             "CreateSheetFromSelection"}

\* What a row opens as: a file of a listing as anything, a node as a view of
\* the same document, a row of a table as a table.
OpensAs == IF Top \in Listings THEN Frames \ {Blank} ELSE SameKind(Top)

PushSheet(f) == Push(f) /\ cursor' = Append(cursor, 1)

Dive(k) ==
    /\ k \in DiveKeys /\ Works(k)
    /\ Top \in Dives(k).on
    /\ GoTo(Dives(k).modes)
    /\ \E f \in OpensAs : PushSheet(f)
    /\ UNCHANGED <<pending, load, chart, armed, running, leaving>>

\* open_chart; on "OpenChart" an open chart is closed instead.
Chart(k) ==
    /\ Works(k)
    /\ \/ k = "OpenChart" /\ mode = "Chart" /\ mode' = "Normal"
       \/ k = "OpenChart" /\ mode # "Chart" /\ mode' \in {"Chart", "ChartAggSelect"}
       \/ k = "ApplyChartAgg" /\ mode' = "Chart"
       \/ k = "CancelChartAgg" /\ mode' = "Normal"
    /\ StackAsIs /\ UNCHANGED <<uiVars, leaving>>

ChartDrillDown ==
    /\ Works("ChartDrillDown")
    /\ PushSheet(Top)
    /\ mode' = "Normal"
    /\ chart' = TRUE
    /\ UNCHANGED <<pending, load, armed, running, leaving>>

\* pop_sheet; "Quit" is the same call.  The status line names the column of
\* the sheet a chart goes back to.
PopSheet ==
    /\ Works("PopSheet") /\ Depth > 1
    /\ Pop
    /\ LET under == Depth - 1
           w == Width[files[under]]
           col == IF files[under] \in Docs THEN Within(cursor[under], w) ELSE cursor[under]
       IN  /\ cursor' = [SubSeq(cursor, 1, under) EXCEPT ![under] = col]
           /\ load' = IF load.sheet = Depth THEN [load EXCEPT !.sheet = 0] ELSE load
           /\ chart' = FALSE
           /\ mode' = IF chart THEN "Chart" ELSE "Normal"
           /\ running' = IF chart /\ col > w THEN "panic" ELSE running
    /\ UNCHANGED <<pending, armed, leaving>>

AskToQuit ==
    /\ Works("PopSheet") /\ Depth = 1
    /\ mode' = "ConfirmQuit"
    /\ StackAsIs /\ UNCHANGED <<uiVars, leaving>>

ConfirmQuitYes ==
    /\ Works("ConfirmQuitYes")
    /\ running' = "quit"
    /\ StackAsIs /\ UNCHANGED <<mode, cursor, pending, load, chart, armed, leaving>>

-----------------------------------------------------------------------------
(* The background loader, and the commands that wait for the next turn.    *)

Deferred == {"OpenFrequencyTable", "OpenGroupBy", "OpenMultiFrequencyTable",
             "ApplyAggregators", "ApplyPivotTable", "DeduplicateByPinned"}

\* A command that has a whole table to read is parked; the loop draws first.
Defer(k) ==
    /\ k \in Deferred /\ Works(k)
    /\ mode' = "Calculating" /\ pending' = k
    /\ StackAsIs /\ UNCHANGED <<cursor, load, chart, armed, running, leaving>>

\* Mutant: a summary that finds nothing to group by forgets the mode.
RunPendingForgetful ==
    /\ running = "yes" /\ mode = "Calculating" /\ pending # None
    /\ pending' = None
    /\ \/ /\ pending \notin {"ApplyAggregators", "DeduplicateByPinned"}
          /\ \E f \in Tables : PushSheet(f)
          /\ mode' = "Normal"
       \/ StackAsIs /\ UNCHANGED <<mode, cursor>>
    /\ UNCHANGED <<load, chart, armed, leaving, running>>

\* handle_action, called by the loop: the summaries push their table or fail.
RunPending ==
    /\ running = "yes" /\ mode = "Calculating" /\ pending # None
    /\ pending' = None
    /\ IF pending = "OpenFrequencyTable" /\ ~HasColumn
       THEN running' = "panic" /\ StackAsIs /\ UNCHANGED <<mode, cursor>>
       ELSE /\ mode' = "Normal" /\ UNCHANGED running
            /\ \/ /\ pending \notin {"ApplyAggregators", "DeduplicateByPinned"}
                  /\ \E f \in Tables : PushSheet(f)
               \/ StackAsIs /\ UNCHANGED cursor
    /\ UNCHANGED <<load, chart, armed, leaving>>

\* What the file may hold by now.  A type given on the command line is lost.
ReadAgainAs ==
    IF Top = Blank THEN Frames \ {Blank}
    ELSE SameKind(Top) \cup (IF OnDoc THEN Tables ELSE {})

\* reload_file of a directory or a small file: the cursor stays where it is.
ReloadNow ==
    /\ Works("ReloadFile")
    /\ \E f \in ReadAgainAs : Write(f)
    /\ UNCHANGED <<mode, uiVars, leaving>>

\* reload_file above the threshold: the sheet is emptied first.
ReloadInBackground ==
    /\ Works("ReloadFile")
    /\ Write(Blank)
    /\ load' = [state |-> "running", sheet |-> Depth]
    /\ mode' = "Loading"
    /\ UNCHANGED <<cursor, pending, chart, armed, running, leaving>>

\* async_loader::load_in_background: the thread reads the file, fails, or dies.
LoaderEnds ==
    /\ load.state = "running"
    /\ \E end \in {"done", "failed", "gone"} : load' = [load EXCEPT !.state = end]
    /\ UNCHANGED <<vars, mode, cursor, pending, chart, armed, running, leaving>>

\* poll_async_load: whatever sheet is active takes the result.
Poll ==
    /\ running = "yes" /\ load.state \in {"done", "failed", "gone"}
    /\ load' = NoLoad /\ mode' = "Normal"
    /\ IF load.state = "done" THEN \E f \in Frames \ {Blank} : Write(f) ELSE StackAsIs
    /\ UNCHANGED <<cursor, pending, chart, armed, running, leaving>>

Leave ==
    /\ ~leaving /\ running = "yes"
    /\ leaving' = TRUE
    /\ UNCHANGED <<vars, mode, uiVars>>

KeyStep ==
    \/ \E k \in Keys[mode].keys :
          \/ Command(k) \/ Reject(k) \/ IndexMissingColumn(k)
          \/ Widen(k) \/ Replace(k) \/ WindowDialog(k)
          \/ Dive(k) \/ Chart(k) \/ Defer(k)
    \/ MoveLeft \/ MoveRight
    \/ MoveColumn("MoveColumnLeft", -1) \/ MoveColumn("MoveColumnRight", 1)
    \/ DeleteColumn \/ TransposeTable \/ ChartDrillDown
    \/ PopSheet \/ AskToQuit \/ ConfirmQuitYes
    \/ ReloadNow \/ ReloadInBackground

AppNext == KeyStep \/ RunPending \/ LoaderEnds \/ Poll \/ Leave

\* The loop never blocks while a load or a parked command is due (it polls
\* every 100 ms), the thread reads a finite file, and a user who is leaving
\* goes on pressing Esc.
AppSpec ==
    /\ AppInit /\ [][AppNext]_appVars
    /\ WF_appVars(LoaderEnds) /\ WF_appVars(Poll) /\ WF_appVars(RunPending)
    /\ WF_appVars(leaving /\ KeyStep)

-----------------------------------------------------------------------------

AppTypeOK ==
    /\ TypeOK
    /\ mode \in Modes
    /\ cursor \in Seq(Nat \ {0}) /\ Len(cursor) = Depth
    /\ pending \in Deferred \cup {None}
    /\ running = "yes" => (pending # None <=> mode = "Calculating")
    /\ load \in [state : {"none", "running", "done", "failed", "gone"}, sheet : 0 .. MaxDepth]
    /\ chart \in BOOLEAN
    /\ armed \in BOOLEAN /\ leaving \in BOOLEAN
    /\ running \in {"yes", "quit", "panic"}

(* While a file is read in the background its sheet is the active one, is  *)
(* empty and shows no dialog: the result, which poll_async_load writes into *)
(* the active sheet and which resets the mode, can neither land in another *)
(* sheet, nor overwrite an edit, nor close a dialog under the user.        *)
LoadLandsWhereStarted ==
    load.state # "none" => load.sheet = Depth /\ Top = Blank /\ mode = "Loading"

(* The dialogs that compute or reshape columns are never open over a       *)
(* document's view, whose cells stand for nodes (reject_on_doc_sheet): the *)
(* test is made when they open, and no step brings a document under them.  *)
TableDialogsNeverOverADocument ==
    mode \in {"ExpressionInput", "ColReplacingFind", "ColReplacingReplace", "ColSplitting",
             "WindowFnSelect", "WindowOrderSelect", "WindowDirSelect", "PartitionSelect",
             "RowForm"} => ~OnDoc

(* No step puts another sheet, or another table, under an open dialog:     *)
(* what was typed or picked for one table is never applied to another.  A  *)
(* chained join opens its next dialog itself, and a prefix holds nothing.  *)
DialogKeepsItsSheet ==
    [][Depth' # Depth =>
         mode' \in {"Normal", "Chart", "ZPrefix", "JoinSelectType"}]_appVars

(* Waiting ends: neither a load that fails or whose thread dies, nor a     *)
(* parked command that fails, leaves the program deaf to every key.        *)
WaitingEnds ==
    mode \in {"Loading", "Calculating"} ~>
        (mode \notin {"Loading", "Calculating"} \/ running # "yes")

(* From every dialog, prefix, chart and sheet, Esc pressed often enough    *)
(* arrives at the question whether to quit.                                *)
EscLeadsOut == leaving ~> (mode = "ConfirmQuit" \/ running # "yes")

(* No key reads a column that is not there.  One does after a load that    *)
(* fails and leaves an empty sheet, and after a reload that brings fewer   *)
(* columns than the cursor was on (poll_async_load, reload_file).          *)
NeverReadsPastTheColumns == running # "panic"

(* "Nothing is thrown away yet: a reload that fails must leave the sheet   *)
(* exactly as it was" (reload_file).  A file above the threshold is read   *)
(* by the thread only after the sheet was emptied.                         *)
NothingThrownAwayYet ==
    [][mode # "Loading" /\ mode' = "Loading" => sheets' = sheets]_appVars
=============================================================================
