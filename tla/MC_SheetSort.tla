---------------------------- MODULE MC_SheetSort ----------------------------
(* The commands of SheetEdit that reorder and thin out rows or may be      *)
(* refused, with undo and redo, on a table of two columns.  A behaviour of *)
(* SortSpec is one of SheetEdit's Spec.                                    *)
EXTENDS MC_SheetEdit

Sorting ==
    \/ \E keys \in SUBSET Columns \ {{}} :
          \E keep \in Keeps(keys) : SmartDedup(keys, keep)
    \/ \E col \in Columns, desc, append \in BOOLEAN :
          SortCursorColumn(col, desc, append)
    \/ ResetSort
    \/ \E d \in 1 .. Len(frame.rowOrder) \cup {1} : AddEmptyRow(d + 1)
    \/ \E block \in Clipboards : Paste(block)
    \/ PasteRefused
    \/ Undo
    \/ Redo

SortSpec == Init /\ [][Sorting]_vars
=============================================================================
