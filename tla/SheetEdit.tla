----------------------------- MODULE SheetEdit -----------------------------
(***************************************************************************)
(* One sheet read from a database table, and the commands that edit its    *)
(* rows (app/mod.rs, app/actions/edit.rs, selection.rs, clipboard.rs,      *)
(* row_form.rs), each with the undo snapshot it takes (sheet.rs).          *)
(*                                                                         *)
(* The cursor is not state here: a command that works on the row or column *)
(* under it works on any of them.  Commands that only change columns, and  *)
(* sheets over a document, are not part of this module.                    *)
(***************************************************************************)
EXTENDS RowFrame, SequencesExt

CONSTANTS
    Loaded,         \* the tables the sheet may be opened on: sequences of rows
    Clipboards,     \* what the clipboard may hold: sequences of rows
    Aggregated,     \* whether columns have aggregators, so that there is a footer
    MaxUndo,        \* 50 in the code
    MaxEdits        \* bound: how many edits the user makes

ASSUME LoadedAssumption == Loaded \subseteq Seq(Row)
ASSUME ClipboardsAssumption == Clipboards \subseteq Seq(Row)
ASSUME AggregatedAssumption == Aggregated \in BOOLEAN
ASSUME MaxUndoAssumption == MaxUndo \in Nat \ {0}
ASSUME MaxEditsAssumption == MaxEdits \in Nat

VARIABLES
    frame,      \* the sheet's dataframe
    sortKeys,   \* the sort markers shown in the header
    undo,       \* undo_stack: frames, the latest last
    redo,       \* redo_stack: frames, the next one last
    edits       \* bookkeeping of the bound: edits made so far

vars == <<frame, sortKeys, undo, redo, edits>>

TypeOK ==
    /\ frame \in Frame
    /\ sortKeys \in Seq(SortKey)
    /\ undo \in Seq(Frame)
    /\ redo \in Seq(Frame)
    /\ edits \in 0 .. MaxEdits

-----------------------------------------------------------------------------
(* The undo history.                                                       *)

\* Mutant: off by one.
PushSnapshotOneMore(stack, f) ==
    Append(IF Len(stack) > MaxUndo THEN Tail(stack) ELSE stack, f)

\* Push onto a stack of at most MaxUndo snapshots, dropping the oldest.
PushSnapshot(stack, f) ==
    Append(IF Len(stack) >= MaxUndo THEN Tail(stack) ELSE stack, f)

\* Mutant: an edit leaves the redo stack alone.
CommitKeepingRedo(f) ==
    /\ edits < MaxEdits
    /\ edits' = edits + 1
    /\ undo' = PushSnapshot(undo, frame)
    /\ redo' = redo
    /\ frame' = f

\* push_undo, then the command makes the frame f.
Commit(f) ==
    /\ edits < MaxEdits
    /\ edits' = edits + 1
    /\ undo' = PushSnapshot(undo, frame)
    /\ redo' = <<>>
    /\ frame' = f

\* push_undo, then the command is refused: its snapshot comes off again.
Refuse ==
    /\ LET pushed == PushSnapshot(undo, frame)
       IN  undo' = SubSeq(pushed, 1, Len(pushed) - 1)
    /\ redo' = <<>>
    /\ UNCHANGED <<frame, sortKeys, edits>>

\* A change of the frame that undo does not know of.
Mark(f) ==
    /\ frame' = f
    /\ UNCHANGED <<sortKeys, undo, redo, edits>>

-----------------------------------------------------------------------------

Init ==
    /\ \E rows \in Loaded :
          LET order == [i \in 1 .. Len(rows) |-> i] IN
          frame = [ rows |-> rows, rowOrder |-> order, originalOrder |-> order,
                    selected |-> {}, ids |-> order, deleted |-> {},
                    agg |-> NoFooter ]
    /\ sortKeys = <<>>
    /\ undo = <<>>
    /\ redo = <<>>
    /\ edits = 0

(* Marking rows: `s`, `u`, `gs`, `gu`, `gt`, `,`, `Sr`, `Sd`, `|`.         *)

Select(S) == Mark([frame EXCEPT !.selected = S])

SelectRow(d) == Select(frame.selected \cup {frame.rowOrder[d]})
UnselectRow(d) == Select(frame.selected \ {frame.rowOrder[d]})
SelectAllRows == Select(frame.selected \cup Visible(frame))
UnselectAllRows == Select({})
ToggleAllSelection == Select(Visible(frame) \ frame.selected)

\* The rows showing the value under the cursor, or none of them if all were.
SelectByValue(d, col) ==
    LET value == frame.rows[frame.rowOrder[d]][col]
        same  == {p \in Visible(frame) : frame.rows[p][col] = value}
    IN  Select(IF same \subseteq frame.selected THEN frame.selected \ same
               ELSE frame.selected \cup same)

\* A pattern or an expression adds the visible rows it matches.
SelectByRegex(matches) == Select(frame.selected \cup matches)

ApplySelectRandom(chosen) == chosen # {} /\ Select(chosen)

SelectDuplicates ==
    Select({p \in Visible(frame) : Cardinality(Group(frame, Columns, p)) > 1})

(* Editing cells: `e` and `ge`.                                            *)

ApplyEdit(d, col, value) ==
    /\ Commit(SetCells(frame, {frame.rowOrder[d]}, col, value))
    /\ UNCHANGED sortKeys

ApplyBulkEdit(col, value) ==
    /\ frame.selected # {}
    /\ Commit(SetCells(frame, frame.selected, col, value))
    /\ UNCHANGED sortKeys

(* Adding rows: `o`, `O`, `P`.                                             *)

\* `at` is the display position after the cursor's; without rows the cursor
\* is on the first position all the same.
AddEmptyRow(at) ==
    /\ Commit(InsertEmptyRow(frame, at))
    /\ UNCHANGED sortKeys

ApplyRowForm(row) ==
    /\ Commit(InsertRowsTyped(frame, <<row>>))
    /\ UNCHANGED sortKeys

Paste(block) ==
    /\ Commit(PasteRows(frame, block))
    /\ UNCHANGED sortKeys

\* The clipboard is empty, or holds a value its column cannot.
PasteRefused == Refuse

\* insert_rows_typed fails: pop_undo puts the frame back, and the redo entry
\* that made is dropped.
RowFormRefused == Refuse

(* Removing rows: `d`, `D` and `SD`.                                       *)

DeleteSelectedRows ==
    /\ frame.selected # {}
    /\ Commit(DeleteSelected(frame))
    /\ UNCHANGED sortKeys

SmartDedup(keys, keep) ==
    /\ \E kept \in Keepers(frame, keys, keep) : Commit(Deduplicate(frame, kept))
    /\ UNCHANGED sortKeys

(* Sorting: `[`, `]`, `z[`, `z]` and `r`.                                  *)

SortCursorColumn(col, desc, append) ==
    LET key  == [col |-> col, desc |-> desc]
        rest == Retain(sortKeys, {k \in SortKey : k.col # col})
        keys == IF append THEN Append(rest, key) ELSE <<key>>
    IN  /\ sortKeys' = keys
        /\ Commit(SortByKeys(frame, keys))

ResetSort ==
    /\ Commit(ResetOrder(frame))
    /\ sortKeys' = <<>>

(* `U` and `R`.  The sort markers are not part of a snapshot.              *)

Undo ==
    /\ undo # <<>>
    /\ redo' = PushSnapshot(redo, frame)
    /\ frame' = undo[Len(undo)]
    /\ undo' = SubSeq(undo, 1, Len(undo) - 1)
    /\ UNCHANGED <<sortKeys, edits>>

Redo ==
    /\ redo # <<>>
    /\ undo' = PushSnapshot(undo, frame)
    /\ frame' = redo[Len(redo)]
    /\ redo' = SubSeq(redo, 1, Len(redo) - 1)
    /\ UNCHANGED <<sortKeys, edits>>

\* Every redraw computes the footer, or takes the cached one.
Draw == Aggregated /\ Mark(ComputeAggregates(frame))

-----------------------------------------------------------------------------

\* The tiebreakers the popup offers: none, by luck, or by a column that is not
\* one of the keys.
Keeps(keys) == [rule : {"first", "random"}, col : keys]
                   \cup [rule : {"min", "max"}, col : Columns \ keys]

Marking ==
    \/ \E d \in DOMAIN frame.rowOrder : SelectRow(d)
    \/ \E d \in DOMAIN frame.rowOrder : UnselectRow(d)
    \/ SelectAllRows
    \/ UnselectAllRows
    \/ ToggleAllSelection
    \/ \E d \in DOMAIN frame.rowOrder, col \in Columns : SelectByValue(d, col)
    \/ \E matches \in SUBSET Visible(frame) : SelectByRegex(matches)
    \/ \E chosen \in SUBSET Visible(frame) : ApplySelectRandom(chosen)
    \/ SelectDuplicates

Editing ==
    \/ \E d \in DOMAIN frame.rowOrder, col \in Columns,
          value \in Values \cup {Null} : ApplyEdit(d, col, value)
    \/ \E col \in Columns, value \in Values \cup {Null} : ApplyBulkEdit(col, value)
    \/ \E d \in 1 .. Len(frame.rowOrder) \cup {1} : AddEmptyRow(d + 1)
    \/ \E row \in Row : ApplyRowForm(row)
    \/ RowFormRefused
    \/ \E block \in Clipboards : Paste(block)
    \/ PasteRefused
    \/ DeleteSelectedRows
    \/ \E keys \in SUBSET Columns \ {{}} :
          \E keep \in Keeps(keys) : SmartDedup(keys, keep)
    \/ \E col \in Columns, desc, append \in BOOLEAN :
          SortCursorColumn(col, desc, append)
    \/ ResetSort

Next == Marking \/ Editing \/ Undo \/ Redo \/ Draw

Spec == Init /\ [][Next]_vars

-----------------------------------------------------------------------------

\* The frame on screen and every frame undo or redo can bring back.
Remembered == {frame} \cup Range(undo) \cup Range(redo)

(* Whatever sequence of edits, undos and redos led here, each remembered   *)
(* table is one whose index lists agree: row_order and original_order show *)
(* the same rows, each once, none past the end of the cells, and there is  *)
(* a key slot for every row (set_cell, paste_rows, record_added_rows index *)
(* these lists with physical rows unchecked).                              *)
FramesWellFormed == \A f \in Remembered : WellFormed(f)

\* The keys of the rows a frame still shows.
ShownKeys(f) == KeysOf(f, Visible(f))

(* Every row of the database table is accounted for exactly once: still in *)
(* the sheet under its own key, or written down for deletion.  A row in    *)
(* neither place would survive a save that should have deleted it, one in  *)
(* both would be deleted while the user still sees it.                     *)
KeysAccountedFor ==
    \A f \in Remembered :
        /\ ShownKeys(f) \cap f.deleted = {}
        /\ ShownKeys(f) \cup f.deleted = KeysOf(f, Physical(f))
        /\ \A p, q \in Physical(f) : f.ids[p] = f.ids[q] /\ p # q => f.ids[p] = NoKey

(* A mark never outlives the row it is on: what `d` removes and `ge`       *)
(* writes to is something the user can see marked.                         *)
MarksVisible == \A f \in Remembered : f.selected \subseteq Visible(f)

(* Undo and redo share one budget of MaxUndo snapshots, so that redoing    *)
(* never throws away an undo step and undoing never a redo step (the two   *)
(* caps inside pop_undo and pop_redo never drop anything).                 *)
HistoryBudget == Len(undo) + Len(redo) <= MaxUndo

(* Undo and redo walk one line of states: undoing and redoing bring back   *)
(* exactly what was there, however edits, marks, redraws and refused edits *)
(* are mixed in (push_undo, pop_undo, pop_redo).                           *)
History == INSTANCE EditHistory WITH
    timeline <- undo \o <<frame>> \o Reverse(redo),
    now <- Len(undo) + 1
ImplementsEditHistory == History!Spec

(* The cached footer never shows a value that has since been edited away:  *)
(* each row it was computed over still holds what it held then.            *)
FooterValuesCurrent ==
    frame.agg # NoFooter => \A e \in frame.agg : e[2] = frame.rows[e[1]]

(* The cached footer is that of the rows on screen ("the cache is          *)
(* invalidated whenever the data changes", compute_aggregates).            *)
FooterFresh == frame.agg # NoFooter => frame.agg = Footer(frame)

(* After a sort the rows on screen follow the markers in the header: of    *)
(* any two rows the first marker that tells them apart decides, NULLs go   *)
(* last in either direction, and rows no marker tells apart stay as they   *)
(* were (sort_cursor_column, sort_by_keys: "two single-key sorts are not a *)
(* compound one").                                                         *)
FollowsMarkers(f, keys, before) ==
    \A i, j \in DOMAIN f.rowOrder :
        LET a == f.rows[f.rowOrder[i]]
            b == f.rows[f.rowOrder[j]]
            apart == {n \in DOMAIN keys : a[keys[n].col] # b[keys[n].col]}
        IN  i < j =>
            IF apart = {}
            THEN Position(before, f.rowOrder[i]) < Position(before, f.rowOrder[j])
            ELSE LET key == keys[Min(apart)]
                     x == a[key.col]
                     y == b[key.col]
                 IN  x # Null /\ (y # Null => IF key.desc THEN x > y ELSE x < y)

SortFollowsMarkers ==
    [][ \A col \in Columns, desc, append \in BOOLEAN :
            SortCursorColumn(col, desc, append) =>
                FollowsMarkers(frame', sortKeys', frame) ]_vars

(* Dropping duplicates keeps exactly one row of every combination of key   *)
(* cells on screen, and the rows it keeps stay in the order they were in   *)
(* (smart_dedup_with_keys, deduplicate).                                   *)
DedupKeepsOneOfEach ==
    [][ \A keys \in SUBSET Columns \ {{}} :
            (\E keep \in Keeps(keys) : SmartDedup(keys, keep)) =>
            /\ \A p \in Visible(frame) :
                  Cardinality(Group(frame, keys, p) \cap Visible(frame')) = 1
            /\ \A i, j \in DOMAIN frame'.rowOrder : i < j =>
                  Position(frame, frame'.rowOrder[i])
                      < Position(frame, frame'.rowOrder[j]) ]_vars

(* A paste that fails costs no undo step (the promise of CHANGELOG.md).    *)
RefusedPasteKeepsUndo == [][PasteRefused => undo' = undo]_vars
=============================================================================
