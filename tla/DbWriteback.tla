---------------------------- MODULE DbWriteback ----------------------------
(***************************************************************************)
(* Saving a sheet back into the database table it was read from            *)
(* (data/io/db_write.rs, app/actions/io.rs), while another program may     *)
(* write to the same table.                                                *)
(*                                                                         *)
(* The sheet keeps what it read (TableSource.original).  Saving compares   *)
(* the frame with that and shows the statements it takes (build_plan); on  *)
(* Enter they run in one transaction, after a check that the rows they     *)
(* touch are still as they were read (apply); then the table is read again *)
(* (reload_db_sheet).  A sheet drilled down from a chart, a frequency or a *)
(* pivot table is a copy of its parent's frame that shows fewer rows and   *)
(* belongs to the same table (inherit_db_origin); the sheets in between    *)
(* hold no table and are left out.                                         *)
(*                                                                         *)
(* Row commands are reduced to one of each effect on the frame (SheetEdit  *)
(* has them all, with undo), columns and their types never change, and a   *)
(* save never goes to another file.                                        *)
(***************************************************************************)
EXTENDS RowFrame

CONSTANTS
    Tables,         \* what the table may hold at first: key |-> row
    Keys,           \* bound: the keys the database can assign
    Dives,          \* whether the user drills down
    ReloadMayFail,  \* whether reading the table after a save may fail
    MaxDepth,       \* bound: sheets on the stack
    MaxEdits,       \* bound: edits the user makes
    MaxWrites       \* bound: writes the other program makes

NoPlan == <<>>      \* sql.plan = None

ASSUME KeysAssumption == IsFiniteSet(Keys) /\ Keys \subseteq Nat \ {NoKey}
ASSUME TablesAssumption == \A t \in Tables : DOMAIN t \subseteq Keys /\ Range(t) \subseteq Row
ASSUME SwitchesAssumption == Dives \in BOOLEAN /\ ReloadMayFail \in BOOLEAN
ASSUME BoundsAssumption ==
    MaxDepth \in Nat \ {0} /\ MaxEdits \in Nat /\ MaxWrites \in Nat

VARIABLES
    table,      \* the table in the database: key |-> row
    sheets,     \* the stack of sheets over it, the active one last
    mode,       \* what the program is doing
    plan,       \* the statements in the confirmation popup
    landed,     \* history: for each row the user added, how often it was INSERTed
    edits,      \* bookkeeping of the bound: edits made so far
    writes      \* bookkeeping of the bound: writes by the other program

vars == <<table, sheets, mode, plan, landed, edits, writes>>

(* A sheet is a record                                                     *)
(*    frame   its dataframe                                                *)
(*    base    TableSource.original: the rows as they were read             *)
(*    added   history: which added row each physical row is, 0 if it was   *)
(*            read from the table                                          *)
(*    gone    history: the added rows deleted again in this frame          *)

Sheet == [frame : Frame, base : Seq(Row), added : Seq(Nat), gone : SUBSET Nat]

Active == sheets[Len(sheets)]

Plans == [ sets : UNION {[K -> Row] : K \in SUBSET Keys},
           inserts : Seq(Nat \X Row), deletes : SUBSET Keys,
           checks : UNION {[K -> Row] : K \in SUBSET Keys} ]

TypeOK ==
    /\ DOMAIN table \subseteq Keys /\ Range(table) \subseteq Row
    /\ Len(sheets) \in 1 .. MaxDepth
    /\ sheets \in Seq(Sheet)
    /\ \A s \in Range(sheets) :
          /\ WellFormed(s.frame)
          /\ Range(s.frame.ids) \subseteq Keys \cup {NoKey}
          /\ Len(s.added) = Len(s.frame.rows)
          /\ \A p \in Physical(s.frame) :
                s.frame.ids[p] = NoKey <=> s.added[p] # 0
    /\ mode \in {"Normal", "Saving", "SqlConfirm", "Reload"}
    /\ mode = "SqlConfirm" <=> plan # NoPlan
    /\ plan # NoPlan => plan \in Plans
    /\ landed \in Seq(Nat)
    /\ edits \in 0 .. MaxEdits /\ writes \in 0 .. MaxWrites

-----------------------------------------------------------------------------
(* Reading the table.                                                      *)

\* load_sqlite_table_full: one physical row per key, in the order of the keys.
Load(t) ==
    LET ids   == InOrder(DOMAIN t, Ascending(DOMAIN t))
        rows  == [p \in DOMAIN ids |-> t[ids[p]]]
        order == [p \in DOMAIN ids |-> p]
    IN  [ frame |-> [ rows |-> rows, rowOrder |-> order, originalOrder |-> order,
                      selected |-> {}, ids |-> ids, deleted |-> {},
                      agg |-> NoFooter ],
          base  |-> rows,
          added |-> [p \in DOMAIN ids |-> 0],
          gone  |-> {} ]

(* Working out the statements.                                             *)

\* The physical rows that were read, are not deleted, and read differently now.
Changed(s) ==
    {p \in DOMAIN s.base : /\ s.frame.ids[p] \notin s.frame.deleted
                           /\ s.frame.rows[p] # s.base[p]}

\* The value that F gives to the physical row of a key, for the keys of P.
ByKey(s, P, F) ==
    [k \in {s.frame.ids[p] : p \in P} |->
        F[CHOOSE p \in DOMAIN s.base : s.frame.ids[p] = k]]

\* The physical rows no database has seen.
Unsaved(s) == {p \in Physical(s.frame) : s.frame.ids[p] = NoKey}

\* Mutant: only the rows to update are checked for drift.
BuildPlanTrustingDeletes(s) ==
    LET new == InOrder(Unsaved(s), Ascending(Unsaved(s))) IN
    [ sets    |-> ByKey(s, Changed(s), s.frame.rows),
      inserts |-> [i \in DOMAIN new |-> <<s.added[new[i]], s.frame.rows[new[i]]>>],
      deletes |-> s.frame.deleted,
      checks  |-> ByKey(s, Changed(s), s.base) ]

\* Mutant: every row read is written back, changed or not.
BuildPlanOfEverything(s) ==
    LET doomed == {p \in DOMAIN s.base : s.frame.ids[p] \in s.frame.deleted}
        new    == InOrder(Unsaved(s), Ascending(Unsaved(s)))
    IN  [ sets    |-> ByKey(s, DOMAIN s.base, s.frame.rows),
          inserts |-> [i \in DOMAIN new |-> <<s.added[new[i]], s.frame.rows[new[i]]>>],
          deletes |-> s.frame.deleted,
          checks  |-> ByKey(s, Changed(s) \cup doomed, s.base) ]

\* The plan for a sheet.
BuildPlan(s) ==
    LET doomed == {p \in DOMAIN s.base : s.frame.ids[p] \in s.frame.deleted}
        new    == InOrder(Unsaved(s), Ascending(Unsaved(s)))
    IN  [ sets    |-> ByKey(s, Changed(s), s.frame.rows),
          inserts |-> [i \in DOMAIN new |-> <<s.added[new[i]], s.frame.rows[new[i]]>>],
          deletes |-> s.frame.deleted,
          checks  |-> ByKey(s, Changed(s) \cup doomed, s.base) ]

IsEmpty(pl) == pl.sets = <<>> /\ pl.inserts = <<>> /\ pl.deletes = {}

(* Running them.                                                           *)

\* compare_drift: every row the plan touches is there, and as it was read.
NoDrift(pl, t) ==
    \A k \in DOMAIN pl.checks : k \in DOMAIN t /\ t[k] = pl.checks[k]

\* UPDATE, INSERT under the keys the engine assigned, DELETE.
Run(pl, t, assigned) ==
    LET kept == DOMAIN t \cup Range(assigned)
        all  == [k \in kept |->
                    IF k \in Range(assigned)
                    THEN pl.inserts[CHOOSE i \in DOMAIN assigned : assigned[i] = k][2]
                    ELSE IF k \in DOMAIN pl.sets THEN pl.sets[k] ELSE t[k]]
    IN  Restrict(all, kept \ pl.deletes)

-----------------------------------------------------------------------------

Init ==
    /\ table \in Tables
    /\ sheets = <<Load(table)>>
    /\ mode = "Normal"
    /\ plan = NoPlan
    /\ landed = <<>>
    /\ edits = 0
    /\ writes = 0

SetActive(s) == sheets' = [sheets EXCEPT ![Len(sheets)] = s]

SetFrame(f) == SetActive([Active EXCEPT !.frame = f])

\* An edit of the active sheet's rows.
Edit ==
    /\ mode = "Normal"
    /\ edits < MaxEdits
    /\ edits' = edits + 1
    /\ UNCHANGED <<table, mode, plan, writes>>

\* `s`, `u` and the others: marks on the rows shown change, others stay.
MarkRows(S) ==
    /\ mode = "Normal"
    /\ SetFrame([Active.frame EXCEPT
                    !.selected = (@ \ Visible(Active.frame)) \cup S])
    /\ UNCHANGED <<table, mode, plan, landed, edits, writes>>

UnselectAllRows ==
    /\ mode = "Normal"
    /\ SetFrame([Active.frame EXCEPT !.selected = {}])
    /\ UNCHANGED <<table, mode, plan, landed, edits, writes>>

ApplyEdit(p, col, value) ==
    /\ Edit
    /\ SetFrame(SetCells(Active.frame, {p}, col, value))
    /\ UNCHANGED landed

ApplyBulkEdit(col, value) ==
    /\ Edit
    /\ Active.frame.selected # {}
    /\ SetFrame(SetCells(Active.frame, Active.frame.selected, col, value))
    /\ UNCHANGED landed

AddRow(row) ==
    /\ Edit
    /\ SetActive([Active EXCEPT !.frame = InsertRowsTyped(@, <<row>>),
                                !.added = Append(@, Len(landed) + 1)])
    /\ landed' = Append(landed, 0)

DeleteSelectedRows ==
    /\ Edit
    /\ Active.frame.selected # {}
    /\ SetActive([Active EXCEPT
            !.frame = DeleteSelected(@),
            !.gone = @ \cup ({Active.added[p] : p \in Active.frame.selected} \ {0})])
    /\ UNCHANGED landed

\* drill_down_freq_value, drill_down_pivot_value, chart_drill_down: a copy of
\* the frame that shows the rows with one value, marks and all.
DrillDown(col, value) ==
    LET f       == Active.frame
        matches == {p \in Visible(f) : f.rows[p][col] = value}
        order   == Retain(f.rowOrder, matches)
    IN  /\ mode = "Normal"
        /\ Dives /\ Len(sheets) < MaxDepth
        /\ matches # {}
        /\ sheets' = Append(sheets,
               [Active EXCEPT !.frame = [f EXCEPT !.rowOrder = order,
                                                  !.originalOrder = order,
                                                  !.agg = NoFooter]])
        /\ UNCHANGED <<table, mode, plan, landed, edits, writes>>

PopSheet ==
    /\ mode = "Normal"
    /\ Len(sheets) > 1
    /\ sheets' = SubSeq(sheets, 1, Len(sheets) - 1)
    /\ UNCHANGED <<table, mode, plan, landed, edits, writes>>

\* Ctrl+S asks for a path.
SaveFile ==
    /\ mode = "Normal"
    /\ mode' = "Saving"
    /\ UNCHANGED <<table, sheets, plan, landed, edits, writes>>

CancelSave ==
    /\ mode = "Saving"
    /\ mode' = "Normal"
    /\ UNCHANGED <<table, sheets, plan, landed, edits, writes>>

\* The path is the file the sheet came from.  Without changes there is nothing
\* to confirm.
SaveIntoDatabase ==
    /\ mode = "Saving"
    /\ \/ /\ IsEmpty(BuildPlan(Active))
          /\ mode' = "Normal"
          /\ UNCHANGED plan
       \/ /\ ~IsEmpty(BuildPlan(Active))
          /\ plan' = BuildPlan(Active)
          /\ mode' = "SqlConfirm"
    /\ UNCHANGED <<table, sheets, landed, edits, writes>>

\* Esc in the popup goes back to the question for a path.
CancelSql ==
    /\ mode = "SqlConfirm"
    /\ plan' = NoPlan
    /\ mode' = "Saving"
    /\ UNCHANGED <<table, sheets, landed, edits, writes>>

\* Enter, and the transaction commits.  The engine is free in the keys it
\* gives to new rows, as long as they are not in use.
ApplySql ==
    /\ mode = "SqlConfirm"
    /\ NoDrift(plan, table)
    /\ \E assigned \in [DOMAIN plan.inserts -> Keys \ DOMAIN table] :
          /\ IsInjective(assigned)
          /\ table' = Run(plan, table, assigned)
    /\ landed' = [t \in DOMAIN landed |->
                     landed[t] + Cardinality({i \in DOMAIN plan.inserts :
                                                 plan.inserts[i][1] = t})]
    /\ plan' = NoPlan
    /\ mode' = "Reload"
    /\ UNCHANGED <<sheets, edits, writes>>

\* Enter, and the transaction is rolled back: a row has drifted, or the
\* database is locked or refuses a statement.
ApplySqlFails ==
    /\ mode = "SqlConfirm"
    /\ plan' = NoPlan
    /\ mode' = "Saving"
    /\ UNCHANGED <<table, sheets, landed, edits, writes>>

\* Mutant: the frame is patched in place instead of read again.
PatchInPlace ==
    /\ mode = "Reload"
    /\ SetActive([Active EXCEPT !.base = SubSeq(Active.frame.rows, 1, Len(@)),
                                !.frame.deleted = {}])
    /\ mode' = "Normal"
    /\ UNCHANGED <<table, plan, landed, edits, writes>>

\* Mutant: the list of deleted keys outlives the save.
ReloadKeepingDeleted ==
    /\ mode = "Reload"
    /\ SetActive([Load(table) EXCEPT !.frame.deleted = Active.frame.deleted])
    /\ mode' = "Normal"
    /\ UNCHANGED <<table, plan, landed, edits, writes>>

\* reload_db_sheet: the whole table, with the marks on the rows that have a key.
ReloadDbSheet ==
    /\ mode = "Reload"
    /\ LET f      == Active.frame
           wanted == KeysOf(f, f.selected)
           fresh  == Load(table)
           marked == {p \in Physical(fresh.frame) : fresh.frame.ids[p] \in wanted}
       IN  SetActive([fresh EXCEPT !.frame.selected = marked])
    /\ mode' = "Normal"
    /\ UNCHANGED <<table, plan, landed, edits, writes>>

\* "Wrote ..., but reloading the table failed".
ReloadFails ==
    /\ mode = "Reload"
    /\ ReloadMayFail
    /\ mode' = "Normal"
    /\ UNCHANGED <<table, sheets, plan, landed, edits, writes>>

\* Another program writes one row of the table, at any moment but inside the
\* transaction.
OtherWrites(t) ==
    /\ writes < MaxWrites
    /\ writes' = writes + 1
    /\ table' = t
    /\ UNCHANGED <<sheets, mode, plan, landed, edits>>

\* The tables one write away.
OneWriteAway ==
    {[table EXCEPT ![k] = row] : k \in DOMAIN table, row \in Row}
        \cup {Restrict(table, DOMAIN table \ {k}) : k \in DOMAIN table}
        \cup {[j \in DOMAIN table \cup {k} |-> IF j = k THEN row ELSE table[j]] :
                 k \in Keys \ DOMAIN table, row \in Row}

Next ==
    \/ \E S \in SUBSET Visible(Active.frame) : MarkRows(S)
    \/ UnselectAllRows
    \/ \E p \in Visible(Active.frame), col \in Columns,
          value \in Values \cup {Null} : ApplyEdit(p, col, value)
    \/ \E col \in Columns, value \in Values \cup {Null} : ApplyBulkEdit(col, value)
    \/ \E row \in Row : AddRow(row)
    \/ DeleteSelectedRows
    \/ \E col \in Columns, value \in Values \cup {Null} : DrillDown(col, value)
    \/ PopSheet
    \/ SaveFile
    \/ CancelSave
    \/ SaveIntoDatabase
    \/ CancelSql
    \/ ApplySql
    \/ ApplySqlFails
    \/ ReloadDbSheet
    \/ ReloadFails
    \/ \E t \in OneWriteAway : OtherWrites(t)

Spec == Init /\ [][Next]_vars

-----------------------------------------------------------------------------

\* The active sheet has the row of key k at the physical row p.
HasRead(p, k) == p \in DOMAIN Active.base /\ Active.frame.ids[p] = k

(* A save never overwrites or deletes a row that another program, or the   *)
(* user in another sheet, has changed since this sheet read it, however    *)
(* long the popup was open (RowCheck, compare_drift).                      *)
NoLostUpdate ==
    [][ ApplySql =>
        \A k \in DOMAIN table :
            (k \notin DOMAIN table' \/ table'[k] # table[k]) =>
                \E p \in DOMAIN Active.base :
                    HasRead(p, k) /\ Active.base[p] = table[k] ]_vars

(* A save leaves the table with every row the user deleted gone, every row *)
(* the user changed as the sheet has it, every new row of the sheet in,    *)
(* and every other row as the database last had it, whoever wrote it       *)
(* (build_plan, apply).                                                    *)
SaveMerges ==
    [][ ApplySql =>
        /\ \A k \in DOMAIN table :
              \/ k \in Active.frame.deleted /\ k \notin DOMAIN table'
              \/ /\ k \in DOMAIN table' \ Active.frame.deleted
                 /\ \/ \E p \in Changed(Active) :
                          HasRead(p, k) /\ table'[k] = Active.frame.rows[p]
                    \/ /\ ~\E p \in Changed(Active) : HasRead(p, k)
                       /\ table'[k] = table[k]
        /\ Cardinality(DOMAIN table' \ DOMAIN table) = Cardinality(Unsaved(Active))
        /\ \A p \in Unsaved(Active) :
              \E k \in DOMAIN table' \ DOMAIN table :
                  table'[k] = Active.frame.rows[p] ]_vars

(* Once the table is read again the sheet has nothing left to write, so    *)
(* that saving twice writes once (reload_db_sheet).                        *)
SavedSheetIsClean == [][ReloadDbSheet => IsEmpty(BuildPlan(Active))']_vars

(* A row the user added gets into the table at most once ("a second save   *)
(* would insert the same rows again", apply_sql_plan).                     *)
AddedAtMostOnce == \A t \in DOMAIN landed : landed[t] <= 1

(* A row the user added and then deleted is not written to the table       *)
(* ("`d` deletes selected rows", docs/en/database.md).                     *)
DeletedNewRowsStayOut ==
    plan # NoPlan => \A i \in DOMAIN plan.inserts : plan.inserts[i][1] \notin Active.gone

(* Saving a drilled-down sheet is "an ordinary writeback of the rows it    *)
(* shows" (CHANGELOG.md).                                                  *)
SavesOnlyShown ==
    plan # NoPlan => DOMAIN plan.sets \subseteq KeysOf(Active.frame, Visible(Active.frame))

(* What is written down for deletion is what leaves the sheet, so it was   *)
(* in the sheet ("database rows that `removed` takes out of the sheet",    *)
(* record_deleted_rows).                                                   *)
DeletesOnlyShown ==
    [][DeleteSelectedRows => Active.frame.selected \subseteq Visible(Active.frame)]_vars
=============================================================================
