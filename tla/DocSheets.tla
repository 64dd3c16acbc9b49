------------------------------ MODULE DocSheets ------------------------------
(***************************************************************************)
(* Sheets over a document (data/io/doc_io.rs, app/actions/doc.rs, the      *)
(* document branches of app/actions/edit.rs, selection.rs, app/mod.rs and  *)
(* sheet.rs).  The sheets of a dive chain share one tree; each holds a     *)
(* projection of its part of it, patched in place by a cell edit and       *)
(* rebuilt by anything else, and a history of roots.  A hit list holds     *)
(* paths and the revision they were found at.                              *)
(***************************************************************************)
EXTENDS DocTree

CONSTANTS
    Files,          \* what the opened file may hold
    Nodes,          \* what files and typed containers are made of, with all that is in it
    Keys, Texts,    \* what is typed for a key and for a value
    Typed,          \* what the editor may come back with for a container
    Targets,        \* paths typed for gp
    MaxDepth,       \* sheets on the stack
    MaxUndo,        \* snapshots kept (50 in the code)
    MaxEdits,       \* revisions of all documents that edits may lead to
    MaxRevision,    \* revisions of all documents, with what is undone and redone
    MaxDocs         \* documents held at once, over the run

ASSUME NodesAssumption ==
    /\ Files \cup Typed \subseteq Nodes
    /\ \A n \in Nodes : NodeOK(n) /\ Below(n) \subseteq Nodes
ASSUME TargetsAssumption == \A p \in Targets : IsPath(p)
\* A token read as null, which a bulk edit would show as it was typed, is not.
ASSUME TextsAssumption == Texts \cap Blanks \subseteq {""}
ASSUME BoundsAssumption == MaxDepth \in Nat \ {0} /\ MaxUndo \in Nat \ {0} /\ MaxEdits \in Nat /\ MaxRevision \in Nat /\ MaxDocs \in Nat \ {0}

VARIABLES
    file,       \* the tree in the file
    docs,       \* the documents: root and revision
    sheets,     \* the stack, the active sheet last
    refused     \* the last key was answered with a refusal

vars == <<file, docs, sheets, refused>>

NoHits == [doc |-> 0, revision |-> 0, found |-> <<>>]

\* A sheet over docs[d]; sourced when it would be saved to the file.
SheetOf(table, d, view, sourced) ==
    [doc |-> d, view |-> view, hits |-> NoHits, sourced |-> sourced,
     paths |-> table.paths, roles |-> table.roles, cells |-> table.cells,
     width |-> Len(table.roles), marked |-> FALSE, ordered |-> FALSE,
     undo |-> <<>>, redo |-> <<>>, renamed |-> {}]

SheetOver(d, root, view, sourced) == SheetOf(Project(root, view)[2], d, view, sourced)

Top == sheets[Len(sheets)]
Root(s) == docs[s.doc].root
OnDoc == Top.doc # 0
Rows == DOMAIN Top.paths
Cols == DOMAIN Top.roles
Show(s) == sheets' = [sheets EXCEPT ![Len(sheets)] = s]
Open(s) == Len(sheets) < MaxDepth /\ sheets' = Append(sheets, s)
Replace(d, root) == docs' = [docs EXCEPT ![d].root = root, ![d].revision = @ + 1]
Say(no) == refused' = no /\ UNCHANGED file

Init ==
    /\ file \in Files
    /\ docs = <<[root |-> file, revision |-> 0]>>
    /\ sheets = <<SheetOver(1, file, AutoView(file, <<>>), TRUE)>>
    /\ refused = FALSE

Revisions == MapThenSumSet(LAMBDA d : docs[d].revision, DOMAIN docs)
MayEdit == OnDoc /\ Revisions < MaxEdits
MayGoBack == OnDoc /\ Revisions < MaxRevision

\* reproject: a projection that fails leaves the old one.
Showing(s, table) ==
    [s EXCEPT !.paths = table.paths, !.roles = table.roles, !.cells = table.cells,
              !.width = Len(table.roles), !.ordered = FALSE, !.renamed = {}]
Refreshed(s, table, otherwise) == IF table = Refused THEN otherwise ELSE Showing(s, table[2])

Reprojected(s, root) == Refreshed(s, Project(root, s.view), s)

\* reset_view_state and the places that clear sort_keys.
Unsorted(s) == [s EXCEPT !.marked = FALSE, !.ordered = FALSE]

-----------------------------------------------------------------------------
(* History.                                                                *)

Snapshot(s) == [root |-> Root(s), cells |-> s.cells, width |-> s.width, ordered |-> s.ordered]

Pushed(stack, snap) == Append(IF Len(stack) = MaxUndo THEN Tail(stack) ELSE stack, snap)
PushUndo(s) == [s EXCEPT !.undo = Pushed(@, Snapshot(s)), !.redo = <<>>]

\* A refusal pops the snapshot taken for the edit; the redo steps are gone already.
Refuse ==
    /\ Show([Top EXCEPT !.redo = <<>>])
    /\ UNCHANGED docs /\ Say(TRUE)

\* restore: the table is rebuilt from the root; only when that fails is the
\* snapshot's table taken, under the mapping there was.
Restored(s, snap) ==
    Refreshed(s, Project(snap.root, s.view),
              [s EXCEPT !.cells = snap.cells, !.width = snap.width, !.ordered = snap.ordered])

Undo ==
    /\ MayGoBack /\ Top.undo # <<>>
    /\ Replace(Top.doc, Last(Top.undo).root)
    /\ Show([Restored(Top, Last(Top.undo)) EXCEPT
                 !.undo = Front(@), !.redo = Pushed(@, Snapshot(Top))])
    /\ Say(FALSE)

Redo ==
    /\ MayGoBack /\ Top.redo # <<>>
    /\ Replace(Top.doc, Last(Top.redo).root)
    /\ Show([Restored(Top, Last(Top.redo)) EXCEPT
                 !.redo = Front(@), !.undo = Pushed(@, Snapshot(Top))])
    /\ Say(FALSE)

\* Mutant: the table is taken back, what was written of the tree is not.
TakeBackTable(written) ==
    /\ Replace(Top.doc, written)
    /\ Show([Restored(Top, Snapshot(Top)) EXCEPT !.redo = <<>>])
    /\ Say(TRUE)

\* An edit of many rows that failed on one, with part of it written: pop_undo puts
\* the root back under a new revision and rebuilds the table.
TakeBack(written) ==
    /\ Replace(Top.doc, Snapshot(Top).root)
    /\ Show([Restored(Top, Snapshot(Top)) EXCEPT !.redo = <<>>])
    /\ Say(TRUE)

\* doc_mapping_ok: by size alone.
MappingOk(s) == Len(s.roles) = s.width /\ Len(s.paths) = Len(s.cells)

-----------------------------------------------------------------------------
(* Cells, and the changes of one row that other commands repeat.           *)

\* DocState::set_cell: the tree after the edit.
SetCell(root, r, c, text) ==
    LET role == Top.roles[c]
        path == CellPath(Top.paths, Top.roles, r, c)
        old == Get(root, path)
    IN  CASE role = TypeRole -> Refused
          [] role = KeyRole -> RenameKey(root, path, text)
          [] OTHER -> IF IsContainer(old) THEN Refused ELSE SetNode(root, path, ParseScalar(text, old))

\* The key a path ends in, and a new one put before it, or last where there is none.
KeyOf(rel) == Last(rel)[2]
WithKey(root, parent, rel, new) ==
    LET n == Get(root, parent)
        at == IF rel = <<>> THEN 1
              ELSE IF HasKey(n, KeyOf(rel)) THEN KeyPos(n, KeyOf(rel))
              ELSE Len(Content(n)) + 1
    IN  IF Kind(n) # "dict" \/ HasKey(n, new) THEN root
        ELSE Graft(root, parent, <<"dict", Insert(Content(n), at, <<new, Null>>)>>)

\* Two keys of a dictionary that has both change places.
Swapped(root, parent, a, b) ==
    LET n == Get(root, parent)
        i == KeyPos(n, a)
        j == KeyPos(n, b)
    IN  IF HasKey(n, a) /\ HasKey(n, b)
        THEN Graft(root, parent, <<"dict", [Content(n) EXCEPT ![i] = Content(n)[j], ![j] = Content(n)[i]]>>)
        ELSE root

\* What a loop over rows does for one of them.
Change(root, edit) ==
    CASE edit.does = "type" -> SetCell(root, edit.row, edit.col, edit.text)
      [] edit.does = "remove" -> RemoveNode(root, edit.path)
      [] edit.does = "rename" -> RenameKey(root, edit.path, edit.key)
      [] edit.does = "insert" -> WithKey(root, edit.path, edit.rel, edit.key)
      [] edit.does = "swap" -> Swapped(root, edit.path, edit.key, edit.other)

\* The changes one after the other, up to the first that is refused.
OneByOne(root, edits) ==
    LET after[i \in 0 .. Len(edits)] ==
            IF i = 0 THEN [root |-> root, failed |-> FALSE]
            ELSE LET next == Change(after[i - 1].root, edits[i])
                 IN  IF after[i - 1].failed \/ next = Refused
                     THEN [after[i - 1] EXCEPT !.failed = TRUE]
                     ELSE [root |-> next, failed |-> FALSE]
    IN  after[Len(edits)]
Edits(edit(_), rows) == [i \in DOMAIN rows |-> edit(rows[i])]

\* What set_cell has the table show: the tree's rendering.
Answer(root, r, c, text) ==
    IF Top.roles[c] = KeyRole THEN <<"text", text>>
    ELSE Shown(Get(root, CellPath(Top.paths, Top.roles, r, c)))

Renaming(rows, c) == IF Top.roles[c] = KeyRole THEN rows ELSE {}

\* apply_edit and apply_cell_from_editor: the tree first, then the one cell.
ApplyEdit ==
    /\ MayEdit /\ MappingOk(Top)
    /\ \E r \in Rows, c \in Cols :
       \E text \in IF Top.roles[c] = KeyRole THEN Keys ELSE Texts :
           LET root == SetCell(Root(Top), r, c, text)
           IN  IF root = Refused THEN Refuse
               ELSE /\ Replace(Top.doc, root)
                    /\ Show([PushUndo(Top) EXCEPT !.cells[r][c] = Answer(root, r, c, text),
                                                  !.renamed = @ \cup Renaming({r}, c)])
                    /\ Say(FALSE)

\* apply_bulk_edit goes through the marked rows in any order and takes all of it
\* back when one is refused; the table is patched with the text as typed.
Patched(cells, rows, c, text) ==
    [r \in DOMAIN cells |-> IF r \in rows THEN [cells[r] EXCEPT ![c] = <<"text", text>>] ELSE cells[r]]

Bulk(rows, c, text) ==
    OneByOne(Root(Top), Edits(LAMBDA r : [does |-> "type", row |-> r, col |-> c, text |-> text], rows))

ApplyBulkEdit ==
    /\ MayEdit /\ MappingOk(Top)
    /\ \E marked \in {S \in SUBSET Rows : Cardinality(S) = 2}, c \in Cols :
       \E rows \in SetToSeqs(marked), text \in IF Top.roles[c] = KeyRole THEN Keys ELSE Texts :
           LET done == Bulk(rows, c, text)
           IN  IF done.failed THEN TakeBack(done.root)
               ELSE /\ Replace(Top.doc, done.root)
                    /\ Show([PushUndo(Top) EXCEPT !.cells = Patched(@, marked, c, text),
                                                  !.renamed = @ \cup Renaming(marked, c)])
                    /\ Say(FALSE)

\* apply_node_from_editor: the container under the cursor is replaced as a whole,
\* unless what was typed does not parse.
EditNode ==
    /\ MayEdit
    /\ \E r \in Rows, c \in Cols, node \in Typed :
           LET path == CellPath(Top.paths, Top.roles, r, c)
               root == SetNode(Root(Top), path, node)
           IN  /\ Top.roles[c] # TypeRole
               /\ IsContainer(Get(Root(Top), path)) /\ node # Get(Root(Top), path)
               /\ \/ Refuse
                  \/ /\ Replace(Top.doc, root)
                     /\ Show(Unsorted(Reprojected(PushUndo(Top), root)))
                     /\ Say(FALSE)

-----------------------------------------------------------------------------
(* Rows and record columns.                                                *)

\* DocState::delete_rows: elements from the last to the first; it fails as well when
\* the row was all the sheet shows.
HighToLow(rows) == InOrder(rows, {p \in rows \X rows : p[1] > p[2]})

Without(rows) ==
    OneByOne(Root(Top), Edits(LAMBDA r : [does |-> "remove", path |-> Top.paths[r]], HighToLow(rows)))

DeleteRows ==
    /\ MayEdit
    /\ \E rows \in SUBSET Rows \ {{}} :
           LET done == Without(rows)
           IN  IF done.failed \/ Project(done.root, Top.view) = Refused THEN TakeBack(done.root)
               ELSE /\ Replace(Top.doc, done.root)
                    /\ Show(Unsorted(Reprojected(PushUndo(Top), done.root)))
                    /\ Say(FALSE)

\* The nodes a column's key is in, row by row, and the key itself.
Holders(rel) == [r \in Rows |-> Top.paths[r] \o Front(rel)]

LowToHigh(rows) == InOrder(rows, Ascending(rows))
ForRows(edit(_), rows) == OneByOne(Root(Top), Edits(edit, LowToHigh(rows))).root

\* A column command gives the new root and the expansions kept, or Refused.
Done(root, expanded) == <<"done", [root |-> root, expanded |-> expanded]>>

DeleteField(rel) ==
    LET has == {r \in Rows : Get(Root(Top), Top.paths[r] \o rel) # Absent}
    IN  IF has = {} THEN Refused
        ELSE Done(ForRows(LAMBDA r : [does |-> "remove", path |-> Top.paths[r] \o rel], has),
                  Top.view.expanded)

\* An expansion of the column, or under it, goes on under the new key.
RenamedPath(p, rel, new) ==
    IF IsPrefix(rel, p) THEN [p EXCEPT ![Len(rel)] = Key(new)] ELSE p

\* Mutant: a key of the new name is written over.
RenameFieldOver(rel, new) ==
    LET has == {r \in Rows : HasKey(Get(Root(Top), Holders(rel)[r]), KeyOf(rel))}
        clash == {r \in has : HasKey(Get(Root(Top), Holders(rel)[r]), new)}
        free == ForRows(LAMBDA r : [does |-> "remove", path |-> Append(Holders(rel)[r], Key(new))], clash)
        renames == Edits(LAMBDA r : [does |-> "rename", path |-> Top.paths[r] \o rel, key |-> new],
                         LowToHigh(has))
    IN  IF Last(rel)[1] # "key" \/ new = KeyOf(rel) \/ has = {} THEN Refused
        ELSE Done(OneByOne(free, renames).root,
                  {RenamedPath(p, rel, new) : p \in Top.view.expanded})

\* All or nothing: a clash in one record refuses the rename in all.
RenameField(rel, new) ==
    LET has == {r \in Rows : HasKey(Get(Root(Top), Holders(rel)[r]), KeyOf(rel))}
    IN  IF \/ Last(rel)[1] # "key" \/ new = KeyOf(rel) \/ has = {}
           \/ \E r \in has : HasKey(Get(Root(Top), Holders(rel)[r]), new)
        THEN Refused
        ELSE Done(ForRows(LAMBDA r : [does |-> "rename", path |-> Top.paths[r] \o rel, key |-> new], has),
                  {RenamedPath(p, rel, new) : p \in Top.view.expanded})

\* rel is empty on the column of bare rows.
InsertField(rel, new) ==
    LET parents == IF rel = <<>> THEN Top.paths ELSE Holders(rel)
        has == {r \in Rows : Kind(Get(Root(Top), parents[r])) = "dict"}
    IN  IF \/ Top.view.mode # "Records" \/ has = {}
           \/ rel # <<>> /\ Last(rel)[1] # "key"
           \/ \E r \in has : HasKey(Get(Root(Top), parents[r]), new)
        THEN Refused
        ELSE Done(ForRows(LAMBDA r : [does |-> "insert", path |-> parents[r], rel |-> rel, key |-> new],
                          has),
                  Top.view.expanded)

\* move_field: the two keys change places in every record that has both; refused,
\* and swapped back, when the table would not show it.
MoveField(c, rel, other) ==
    LET has == {r \in Rows : /\ HasKey(Get(Root(Top), Holders(rel)[r]), KeyOf(rel))
                             /\ HasKey(Get(Root(Top), Holders(rel)[r]), KeyOf(other))}
        root == ForRows(LAMBDA r : [does |-> "swap", path |-> Holders(rel)[r], key |-> KeyOf(rel),
                                    other |-> KeyOf(other)], has)
        roles == Project(root, Top.view)[2].roles
    IN  IF \/ Last(rel)[1] # "key" \/ Last(other)[1] # "key" \/ Front(rel) # Front(other) \/ has = {}
           \/ c \in DOMAIN roles /\ roles[c] = Field(rel)
        THEN Refused
        ELSE Done(root, Top.view.expanded)

\* Mutant: the sort marker stays.
ColumnOpKeepingMarker(outcome) ==
    IF outcome = Refused THEN Refuse
    ELSE /\ Replace(Top.doc, outcome[2].root)
         /\ Show(Reprojected([PushUndo(Top) EXCEPT !.view.expanded = outcome[2].expanded],
                             outcome[2].root))
         /\ Say(FALSE)

\* doc_column_op.
ColumnOp(outcome) ==
    IF outcome = Refused THEN Refuse
    ELSE /\ Replace(Top.doc, outcome[2].root)
         /\ Show(Unsorted(Reprojected([PushUndo(Top) EXCEPT !.view.expanded = outcome[2].expanded],
                                      outcome[2].root)))
         /\ Say(FALSE)

FieldColumns == {c \in Cols : Top.roles[c][1] = "Field"}
Rel(c) == Top.roles[c][2]

DeleteColumn == MayEdit /\ MappingOk(Top) /\ \E c \in FieldColumns : ColumnOp(DeleteField(Rel(c)))

RenameColumn ==
    /\ MayEdit /\ MappingOk(Top)
    /\ \E c \in FieldColumns, k \in Keys : ColumnOp(RenameField(Rel(c), k))

InsertColumn ==
    /\ MayEdit /\ MappingOk(Top)
    /\ \E c \in FieldColumns \cup {d \in Cols : Top.roles[d] = RowRole}, k \in Keys :
           ColumnOp(InsertField(Rel(c), k))

MoveColumn ==
    /\ MayEdit /\ MappingOk(Top)
    /\ \E c, d \in FieldColumns :
           d \in {c - 1, c + 1} /\ ColumnOp(MoveField(c, Rel(c), Rel(d)))

-----------------------------------------------------------------------------
(* Looking at it differently.                                              *)

\* sort_cursor_column, as for any table: a snapshot is taken, no node changes.
Sort ==
    /\ OnDoc /\ ~Top.ordered
    /\ Show([PushUndo(Top) EXCEPT !.marked = TRUE, !.ordered = TRUE])
    /\ UNCHANGED docs /\ Say(FALSE)

ColumnNodes(c) == {Get(Root(Top), CellPath(Top.paths, Top.roles, r, c)) : r \in Rows}

Reshape(expanded) ==
    /\ Show(Unsorted(Reprojected([Top EXCEPT !.view.expanded = expanded], Root(Top))))
    /\ UNCHANGED docs /\ Say(FALSE)

ExpandColumn ==
    /\ OnDoc
    /\ \E c \in FieldColumns :
           /\ Rel(c) \notin Top.view.expanded
           /\ \E n \in ColumnNodes(c) : IsContainer(n)
           /\ Reshape(Top.view.expanded \cup {Rel(c)})

\* contract_one: the innermost expansion over the column, and all beneath it.
ContractColumn ==
    /\ OnDoc
    /\ \E c \in FieldColumns :
           LET over == {p \in Top.view.expanded : IsPrefix(p, Rel(c))}
           IN  \E inner \in over :
                   /\ \A p \in over : IsPrefix(p, inner)
                   /\ Reshape({p \in Top.view.expanded : ~IsPrefix(inner, p)})

CycleViewMode ==
    /\ OnDoc
    /\ LET node == Get(Root(Top), Top.view.anchor)
           modes == ModesFor(node)
           cur == IF Top.view.mode \in ToSet(modes)
                  THEN CHOOSE i \in DOMAIN modes : modes[i] = Top.view.mode ELSE 1
           view == [Top.view EXCEPT !.mode = modes[(cur % Len(modes)) + 1], !.expanded = {}]
       IN  /\ node # Absent /\ Len(modes) > 1
           /\ Show(Unsorted(Reprojected([Top EXCEPT !.view = view], Root(Top))))
    /\ UNCHANGED docs /\ Say(FALSE)

-----------------------------------------------------------------------------
(* Going elsewhere.                                                        *)

OpenAt(d, path, sourced) ==
    Open(SheetOver(d, docs[d].root, AutoView(Get(docs[d].root, path), path), sourced))

\* dive_into_node, by the row or by the cell under the cursor.
UnderCursor == {Top.paths[r] : r \in Rows}
               \cup {CellPath(Top.paths, Top.roles, r, c) : r \in Rows, c \in FieldColumns}

Dive ==
    /\ OnDoc
    /\ \E path \in UnderCursor :
           /\ IsContainer(Get(Root(Top), path))
           /\ OpenAt(Top.doc, path, Top.sourced)
    /\ UNCHANGED docs /\ Say(FALSE)

\* open_node_path: a scalar opens its parent.
OpenNodePath(d, path, sourced) ==
    LET node == Get(docs[d].root, path)
    IN  IF node = Absent THEN UNCHANGED sheets /\ Say(TRUE)
        ELSE /\ OpenAt(d, IF IsContainer(node) \/ path = <<>> THEN path ELSE Front(path), sourced)
             /\ Say(FALSE)

\* apply_doc_search: what each hit shows is what its path led to then.
DocSearch ==
    /\ OnDoc
    /\ \E pattern \in Keys :
           LET hits == Hits(Root(Top), pattern)
               found == [p \in hits |-> Shown(Get(Root(Top), p))]
           IN  /\ hits # {}
               /\ Open([Top EXCEPT
                    !.doc = 0, !.hits = [doc |-> Top.doc, revision |-> docs[Top.doc].revision, found |-> found],
                    !.paths = <<>>, !.roles = <<>>, !.cells = <<>>, !.width = 0, !.marked = FALSE,
                    !.ordered = FALSE, !.undo = <<>>, !.redo = <<>>, !.renamed = {}])
    /\ UNCHANGED docs /\ Say(FALSE)

\* Mutant: the revision is not compared.
OpenHitAnyway ==
    /\ Top.hits.doc # 0
    /\ \E path \in DOMAIN Top.hits.found : OpenNodePath(Top.hits.doc, path, Top.sourced)
    /\ UNCHANGED docs

\* open_search_hit, on the sheet of hits.
OpenHit ==
    /\ Top.hits.doc # 0
    /\ \E path \in DOMAIN Top.hits.found :
           IF docs[Top.hits.doc].revision # Top.hits.revision
           THEN UNCHANGED sheets /\ Say(TRUE)
           ELSE OpenNodePath(Top.hits.doc, path, Top.sourced)
    /\ UNCHANGED docs

\* apply_path_goto: the node on screen already only moves the cursor.
PathGoto ==
    /\ OnDoc
    /\ \E path \in Targets :
           LET node == Get(Root(Top), path)
               target == IF IsContainer(node) \/ path = <<>> THEN path ELSE Front(path)
           IN  IF node # Absent /\ target = Top.view.anchor
               THEN UNCHANGED sheets /\ Say(FALSE)
               ELSE OpenNodePath(Top.doc, path, Top.sourced)
    /\ UNCHANGED docs

\* apply_query: a document of its own, to be saved elsewhere.  The program picks a
\* container of the tree.
Query ==
    /\ OnDoc /\ Len(docs) < MaxDocs
    /\ \E path \in Targets :
           LET root == Get(Root(Top), path)
           IN  /\ IsContainer(root)
               /\ docs' = Append(docs, [root |-> root, revision |-> 0])
               /\ Open(SheetOver(Len(docs) + 1, root, AutoView(root, <<>>), FALSE))
    /\ Say(FALSE)

\* A document no sheet holds any more is gone.
Held(stack) == UNION {{stack[i].doc, stack[i].hits.doc} : i \in DOMAIN stack}
Freed(doc) == [doc EXCEPT !.root = Null]

\* Mutant: the sheet below is left as it was.
PopUnrefreshed ==
    /\ Len(sheets) > 1
    /\ sheets' = Front(sheets)
    /\ docs' = [d \in DOMAIN docs |-> IF d \in Held(Front(sheets)) THEN docs[d] ELSE Freed(docs[d])]
    /\ Say(FALSE)

\* pop_sheet and refresh_doc_projection: the sort markers stay.
Pop ==
    /\ Len(sheets) > 1
    /\ LET below == sheets[Len(sheets) - 1]
       IN  sheets' = [Front(sheets) EXCEPT ![Len(sheets) - 1] =
                         IF below.doc = 0 THEN below ELSE Reprojected(below, Root(below))]
    /\ docs' = [d \in DOMAIN docs |-> IF d \in Held(Front(sheets)) THEN docs[d] ELSE Freed(docs[d])]
    /\ Say(FALSE)

\* reload_file, refused inside a node: the file's tree, no history, the sort reapplied.
Reload ==
    /\ Top.sourced /\ Len(docs) < MaxDocs
    /\ IF OnDoc /\ Top.view.anchor # <<>> THEN UNCHANGED <<docs, sheets>> /\ Say(TRUE)
       ELSE /\ docs' = Append(docs, [root |-> file, revision |-> 0])
            /\ Show([SheetOver(Len(docs) + 1, file, AutoView(file, <<>>), TRUE) EXCEPT
                        !.hits = Top.hits, !.marked = Top.marked, !.ordered = Top.marked])
            /\ Say(FALSE)

Next ==
    \/ ApplyEdit \/ ApplyBulkEdit \/ EditNode \/ DeleteRows
    \/ DeleteColumn \/ RenameColumn \/ InsertColumn \/ MoveColumn
    \/ Undo \/ Redo
    \/ Sort \/ ExpandColumn \/ ContractColumn \/ CycleViewMode
    \/ Dive \/ DocSearch \/ OpenHit \/ PathGoto \/ Query \/ Pop \/ Reload

Spec == Init /\ [][Next]_vars

-----------------------------------------------------------------------------
\* The sheets, their mappings and their histories have the shapes the code gives
\* them, and the mapping has a path for every row and a role for every column of
\* the table it came with (doc_io.rs, build and reproject).
TypeOK ==
    /\ \A d \in DOMAIN docs : docs[d].revision \in Nat /\ Kind(docs[d].root) # "absent"
    /\ Len(sheets) \in 1 .. MaxDepth
    /\ \A i \in DOMAIN sheets :
           LET s == sheets[i]
           IN  /\ s.doc \in 0 .. Len(docs) /\ s.hits.doc \in 0 .. Len(docs)
               /\ s.doc # 0 \/ s.hits.doc # 0
               /\ s.view.mode \in {"Records", "KeyValue", "Scalars"}
               /\ Len(s.undo) <= MaxUndo /\ Len(s.redo) <= MaxUndo
               /\ \A r \in DOMAIN s.cells : Len(s.cells[r]) = s.width
               /\ \A p \in DOMAIN s.paths : IsPrefix(s.view.anchor, s.paths[p])
    /\ refused \in BOOLEAN

\* Whatever was edited, deleted, reshaped, undone or edited in another sheet of the
\* chain, each cell of the active sheet shows the node an edit of it would write to,
\* save for rows whose key was edited since (finding doc_rename), the type column and
\* a sheet whose own node is gone (sheet.rs, doc_mapping_ok: "writing to a stale
\* mapping would silently modify the wrong node").
ShowsWhatItWrites(s, rows) ==
    (s.doc # 0 /\ MappingOk(s) /\ Project(Root(s), s.view) # Refused) =>
        \A r \in rows, c \in DOMAIN s.roles :
            /\ s.roles[c] = KeyRole => Get(Root(s), s.paths[r]) # Absent
            /\ s.roles[c] # TypeRole => s.cells[r][c] = CellOf(Root(s), s.paths[r], s.roles[c], s.view.mode)

CellsShowWhatTheyWrite == ShowsWhatItWrites(Top, Rows \ Top.renamed)

\* The same for every row: editing a key leaves the row under its old path, so the
\* next edit of that row goes to a node that is not there, or is another's.
MappingDescribesTable == ShowsWhatItWrites(Top, Rows)

\* A refused command leaves every tree and the stack as they were, though it may have
\* written part of the rows before it failed (edit.rs, apply_bulk_edit; selection.rs,
\* delete_selected_rows; doc_io.rs, rename_field: "All or nothing").
RefusedChangesNothing ==
    [][refused' => /\ \A d \in DOMAIN docs : docs'[d].root = docs[d].root
                   /\ Len(sheets') = Len(sheets)]_vars

\* A hit opens only while every hit of its list still is what the list shows, in
\* whichever sheet and by whichever command the tree was changed meanwhile
\* (doc.rs, revision; app/actions/doc.rs, open_search_hit).
HitsOpenWhatTheyFound ==
    [][(Len(sheets') > Len(sheets) /\ Top.doc = 0) =>
          \A p \in DOMAIN Top.hits.found :
              Top.hits.found[p] = Shown(Get(docs[Top.hits.doc].root, p))]_vars

\* Renaming, adding and moving a column and every way of looking at the tree keep all
\* its values: no key is written over, no record is left out (doc_io.rs, rename_field,
\* insert_field, move_field).
Values(root) ==
    LET leaves == {p \in Places(root) : ~IsContainer(Get(root, p)) /\ Get(root, p) # Null}
    IN  [v \in {Get(root, p) : p \in leaves} |-> Cardinality({p \in leaves : Get(root, p) = v})]

ColumnOpsLoseNoValue ==
    [][(/\ OnDoc /\ ~refused' /\ Top.view.mode = "Records" /\ Len(sheets') = Len(sheets)
        /\ Len(docs') = Len(docs) /\ docs' # docs /\ Rows' = Rows
        /\ Values(docs'[Top.doc].root) # Values(Root(Top))) =>
          ~(RenameColumn \/ InsertColumn \/ MoveColumn)]_vars

\* Only going back, in the stack or in the history, leaves a sort marker over rows
\* that are in the tree's order: every command that rebuilds the rows drops it
\* (app/mod.rs, doc_column_op: "a kept sort marker would claim an order the rows no
\* longer have").
MarkersGoWithTheOrder ==
    [][(/\ Len(sheets') = Len(sheets) /\ ~refused' /\ (Top.marked => Top.ordered)
        /\ (Top.marked /\ ~Top.ordered)') => Undo \/ Redo]_vars

=============================================================================
