# A TLA+ verification of tuitab

tuitab is a terminal explorer for tables: CSV, Parquet, Excel, JSON, YAML, TOML,
SQLite and DuckDB files open as a stack of sheets that can be sorted, edited,
summarised, joined and saved.  It is one process with one thread that handles
keys; a second thread only reads large files.  An MCP server offers the same
operations to programs.  These modules model the parts whose mistakes cost a
user data, or leave the program deaf or showing something that is not there:
what happens to rows and to their identity, to the undo history, to tables that
are swapped out, to a document seen by several sheets, to a database that is
written back, to summaries and the way back from them, and to the modes that
give each key its meaning.

## The system

| Component | Code | State it keeps | What makes it correct | Modelled |
|---|---|---|---|---|
| Sheet stack, disk swap | `sheet.rs`, `data/swap.rs` | sheets, swapped positions, swap files | is a plain stack of tables | `SheetStack` |
| Row operations of a table | `data/dataframe.rs`, `data/sort.rs`, `data/dedup.rs` | cells, `row_order`, `original_order`, marks, database keys, footer cache | the lists agree; every key is shown or written down for deletion | `RowFrame` |
| Editing commands and undo | `app/mod.rs`, `app/actions/{edit,selection,clipboard,row_form}.rs`, `sheet.rs` | undo and redo stacks, sort markers | undo and redo walk one line of states | `SheetEdit` |
| Database writeback | `data/io/db_write.rs`, `app/actions/io.rs` | what was read, the plan in the popup | no lost update, no row written twice | `DbWriteback` |
| MCP write protocol | `mcp/{mod,tools,source,write}.rs` | one pending plan, cached frames | a plan runs once, on the rows that were shown; the cache is current | `McpServer` |
| Document sheets | `data/doc.rs`, `data/view.rs`, `data/io/doc_io.rs`, `app/actions/doc.rs` | a tree shared by the sheets over it, its revision, roots to go back to | a cell shows the node it writes to; a refusal changes nothing | `DocTree`, `DocSheets` |
| Modes, key dispatch, dialogs | `app/mod.rs`, `event.rs`, `types.rs` | the mode, the parked command, the cursor | every mode has a way out; no dialog outlives its sheet | `App` |
| Background loading, reload | `data/async_loader.rs`, `app/mod.rs` | the receiver | the result reaches the sheet that asked; waiting ends | `App` |
| Joins | `app/actions/join.rs`, `app/mod.rs`, `data/join.rs` | the wizard's answers, a queue of tables | there is a table to join with and the keys are its columns | `JoinDialog` (the rows of a join: no) |
| Grouping, pivot, frequency | `data/{dataframe,group,aggregator}.rs`, `app/mod.rs`, `app/actions/{pivot,chart}.rs` | what a summary was made from | lines add up and lead back to their rows | `Summaries`, `Analysis` |
| Window functions | `data/window.rs`, `app/mod.rs` | none | values equal their definition; the table stays as it was | `Windows`, `Analysis` |
| Column layout | `app/actions/column.rs`, `data/column.rs`, `data/dataframe.rs` | headers, pins | headers name their cells | `Frames` (types, splitting, replacing: no) |
| Reshaping | `data/transpose.rs` | the `transposed` flag | twice is the identity | `Summaries` (`describe.rs`: no) |
| Filters and expressions | `data/{filter,expression,query}.rs` | none | | no: string processing |
| MCP calculations | `mcp/{calc,pipeline,special,render}.rs` | none | | no: pure table transformations |
| JSON-RPC framing, file formats, rendering, clipboard, start-up | the rest | none | | no: input and output |

How they interact.  Every key becomes an `Action`; `App::handle_action` passes
it along a chain of handlers, each of which works on `stack.active_mut()`.
Handlers that change rows take an undo snapshot of the whole frame first
(copy on write), then change the frame.  Drilling down, summarising, joining
and diving push a sheet, and the one below goes to disk until it is the top
again.  Drawing computes the footer of the active frame and caches it in the
frame, so a redraw is also a step.  Commands that read a whole table are parked
in `pending_action` and run after the next redraw; a file above a threshold is
read by a thread and polled for by the loop.  The sheets of a dive chain share
one tree behind a lock and a revision; popping rebuilds the projection of the
sheet below.  Saving a sheet that came from a database compares its frame with
what was read, shows the statements, runs them in a transaction after checking
that the rows are still as they were read, and reads the table again.  The MCP
server keeps one plan and a few frames between requests and handles one request
at a time.  Only files and databases are shared with anybody else.

Hard to test: long mixes of edits, undo and redo; one table or tree seen by
two sheets; another program writing while a popup or a plan is open; a save
that commits and a reload that fails; a cache that one of a dozen commands
forgets to clear; a load that ends after the user has moved on; a summary whose
columns were changed before Enter.  `PROJECT.json` lists these hazards with the
line where each bites.

## Modules

**`FrameStack`** is the promise: a never empty stack of tables that can be
pushed, popped, edited at the top and read anywhere.

**`SheetStack`** is `sheet.rs`'s stack with `swap_out` and `swap_in`: the
tables in memory, the positions recorded as swapped, and the files on disk.
Positions are 1-based.  A swap file that cannot be read or written panics in
the code (`expect`), which ends the program, so no action fails.
`ImplementsFrameStack` instantiates `FrameStack` with each table taken from
where it is.  `App` and `JoinDialog` extend this module, so that every push,
pop and peek they do goes through the swap files.

**`App`** composes the stack with the rest of the application: `mode`,
`pending_action`, `load_receiver` and the thread behind it, each sheet's
`cursor_col`, `chart.drill_return` and `pending_window_fn`.  `Keys` is
`event.rs`: for each mode the action of Esc and those of the keys that do more
than edit a line or move in a list.  `Moves` is, for each action that only
changes the mode, where its handler can end; actions that touch the stack, the
cursor, the loader or the parked command are actions of their own.  A table is
its width and its kind (table, listing, view of a document, or the empty frame
a loading sheet holds), which is what the guards of the handlers look at.
Text typed into a dialog decides only which of a handler's outcomes happens,
so all of them are possible.  An index out of range ends the program
(`running = "panic"`).  `leaving` is an observer: once set, the user presses
only Esc.

**`JoinDialog`** is the wizard `J` with its modes (the overview of a listing,
the source, a path, the type, the keys of either side), the queue of a chain,
and `execute_join`.  Whether a file loads and whether a join succeeds is open;
what is left behind when it does not is the point.

**`RowFrame`** holds no state: a frame is a record and each operation of
`data/dataframe.rs`, `data/sort.rs`, `data/dedup.rs` an operator on it, shared
by the next modules.

| Model | Code |
|---|---|
| `rows` | the Polars frame, indexed by physical row; rows are never moved or removed |
| `rowOrder`, `originalOrder` | `row_order`, `original_order` |
| `selected` | `selected_rows` |
| `ids`, `deleted` | `db_rows.ids` (0 for `None`), `db_rows.deleted` |
| `agg` | `aggregates_cache`, as the rows it was computed over |

**`Orders`** holds the list operations it is built from.  Polars' stable sort,
`Vec::retain` and `Vec::insert` are defined by counting: the k-th element in an
order is the one with k - 1 before it.  That is a definition for every input
that the provers can use, unlike a recursion.  `SumOf`, the sum of a list of
integers, is a recursive function over its positions.  `JoinDialog`,
`McpServer` and `Frames` use the module too.

**`EditHistory`** is the promise of undo: a line of states with a mark on the
one shown.

**`SheetEdit`** is one sheet over a database table and every command on its
rows: marking (`s`, `u`, `gs`, `gu`, `gt`, `,`, `Sr`, `Sd`, `|`), `e`, `ge`,
`o`, `O`, `P`, `d`, `D`, `SD`, `[`, `]`, `z[`, `z]`, `r`, `U`, `R`, and the
redraw.  `Commit` is `push_undo` followed by the change; `Refuse` is a command
that takes its snapshot, finds out that it cannot work and pops it again, by
which time a full stack has lost its oldest entry and redo is gone.  The cursor
is not state: a command works on any row or column it could be on.

**`DbWriteback`** is a table, the stack of sheets over it (drill-downs by
frequency, pivot or chart are copies of the frame that show fewer rows), the
popup, and another program.  `BuildPlan` is `build_plan`: updates of read rows
that differ from what was read, inserts of rows without a key, deletes of the
keys written down, and a check for each row updated or deleted.  `ApplySql` is
the transaction, atomic as the engine makes it; the reload is a step of its
own, for the other program may write in between and the read may fail.
`landed`, `added` and `gone` are history variables: they record what the user
did and steer nothing.  Row commands are reduced to one per effect on the
frame, since `SheetEdit` has them all.

**`McpServer`** is the server's loop over a database, a plain file and the
directory it lies in.  A request is several steps (`Stamped`, `Loaded`,
`Planning`, `Creating`, `Running`) between which other programs write:
`QueryCall` takes the stamp and looks in the cache, `Load` reads and caches
under that stamp, `CheckOutput` looks whether the output exists, and then
either the rows are written or a plan is made (`PlanOverwrite`, `PlanCreate`).
`WriteCall` is `tuitab_write`, `ApplyPlan` and `ApplyPlanFails` are
`tuitab_write_apply` with the newest id, `ApplyRefused` with any other.
What a table or file holds is its columns and its rows, a row being the cells
of those columns: a plan sets cells of rows, deletes and adds rows, or keeps
some columns under old or new names and adds others (`from`, `adds`), which
destroys the cells of the columns not kept in every row.  The checks of a plan
(`NoDrift`) are those of the code, the rows it sets or deletes and the names of
the columns, and no more.
`stamp` is what `stamp_of` would return: it includes SQLite's write-ahead log,
and it is the directory's own time for a listing.  `applied`, `retired` and `found`,
what existed when `write_result` looked, are history variables.  `Made` is what
other programs make, at any moment, the one between that look and the write
included.

**`DocTree`** holds no state: a node is a kind and its content, and its
operators are those of `data/doc.rs` (`get`, `set`, `remove`, renaming a key,
`parse_scalar`, `search`) and `data/view.rs` (`project` in its three modes,
expansions, `cell_path`).  The recursion over paths and levels is by functions,
and `NodeOK`, `IsPath` say what a node and a path are.

**`DocSheets`** is the stack of sheets over documents: `docs` are the trees
with their revisions, shared by the sheets of a dive chain; each sheet has its
anchor, mode and expansions, the projection it last made (`paths`, `roles`,
`cells`) and a history of roots.  One action per command: editing a cell, many
cells or a container as text, deleting rows, deleting, renaming, inserting and
moving a field, undo and redo, sorting, expanding and contracting, changing the
mode, diving, searching and opening a hit, `gp`, querying, popping, reloading.
A bulk edit or deletion that fails half way has written part of its rows when
it is taken back.  `renamed` and `ordered` are observers: the rows whose key was
edited in place, and whether the rows are in the marker's order.  `Nodes` is
everything files and typed containers are made of: a set that has with each
node those under it, of any size, so that trees of any depth are covered
without recursion on their shape.  `TextsAssumption` leaves out one thing typed:
a token read as null, which a bulk edit would show as it was typed.

**`Frames`**, **`Summaries`** and **`Windows`** are the tables computed from a
table, as operators: a frame with headers (`columns`) and the names of the
Polars frame (`df`) as the two lists they are in the code, because what is
checked is that they stay in step (`InStep`); `build_frequency_table`,
`build_multi_frequency_table`, `group_by`, `create_pivot_table`,
`transpose_table`; and the window functions as `add_window_column` computes
them, renumbered by screen order. A text, and so a name, is a sequence of
`Words`, so that a name made of others (`g:sum`, a key joined with `|`) is
their concatenation; a number is an integer, and its text a numeral in which
all digits are alike, which keeps numbers apart and is all that looking rows up
by text needs. A value has two texts: the program's own (`Text`), which cells,
keys of a line and labels of bars are written in, and the one it has when
Polars casts it (`Cast`), which look-ups compare and the columns of a pivot are
named by. They differ on a whole number in a Float64 column, so a `float` is
modelled by its whole values; a running total of integers is such a column.
`FrameOK` is what every table is: a rectangle whose cells have the types of
their headers, with index lists that name its rows.

**`Analysis`** is the stack of such sheets with the commands that open them
and the ways back: Enter on a frequency or pivot line, on a bar, on a row.
`made` is a history variable saying what a sheet was computed as.

The modules ending in **`_proofs`** hold the theorems, each about the module it
is named after (`SheetEdit_proofs` has those about `RowFrame` too, `App_proofs`
those about `JoinDialog`, and `Analysis_proofs` those about `Frames`,
`Summaries` and `Windows`); the `MC_` modules give TLC its tables, files and
keys.

## What the runs check

| Run | Bounds | Shows |
|---|---|---|
| `app` | empty, narrow and wide table, a listing, a document; depth 3; every mode and key | the stack with its swap files is a plain stack under every key; a load lands in the sheet it was started for; no dialog is left over another sheet or over a document it must not change; waiting ends; Esc leads out |
| `join` | a listing and three tables of one or two columns that share names; depth 4 | there is always a table to join with, the keys are its columns, the queue is this chain's, a table taken from a sheet below is what that sheet shows |
| `rows` | 2 rows, 1 column of 2 values and NULL, empty and 2-row clipboards, 2 edits, 1 undo step, redraws anywhere | index lists agree, keys are accounted for, marks are visible, in every remembered frame; the cached footer counts no value that was edited away |
| `sort` | 3 rows, 2 columns with ties and a NULL, a clipboard of one row, 3 edits, 2 undo steps | sorts and deduplication do what their markers and keys say; undo and redo walk one line within one budget, refused pastes included |
| `db_save` | 1 row, 2 keys, 2 edits, 1 foreign write, depth 2, reloads that fail | no lost update |
| `db_once` | 2 rows, 3 keys, 2 edits, 1 foreign write, 1 sheet | a save merges, leaves the sheet clean, inserts each row once |
| `mcp_write` | 2 tables (one there at first) and a file, 2 keys, 2 columns, cells that are empty or NULL, a cache of 2, 3 requests, 1 foreign write | a plan runs once, only the newest, and sets and deletes only rows as shown; nothing a request found is destroyed unplanned; cached tables and files are current; every request is answered |
| `doc` | two records, one nested; depth 3, 1 undo step, 2 edits, 3 revisions, 2 documents, `Effort` at most 3 | cells show the nodes they write to; a refusal leaves the trees alone; a hit opens what it found; column commands lose no value; a sort marker goes with the order |
| `analysis` | two tables of 3 rows and 3 columns, integers in one and floats in the other, with NULLs, empty texts and ties, pinned on one or two columns; 2 changes, depth 3, `MaxEffort` 2; all ten window functions | headers name their cells; summaries add up; their lines find their rows, and Enter shows them, where the program spells the keys as Polars does; windows mean their definition and leave the table alone; transposing twice is the identity |

Why these bounds are enough to be interesting.  The operations treat rows and
columns alike: two rows make every order and every way to be in one list and
not the other, the third row of `sort` and `analysis` makes a tie broken by a
second key, and `MaxUndo` of 1 or 2 is reached and passed by the edits allowed
(50 in the code).  One foreign write can fall before the popup or the plan,
while it is open, and between commit and reload.  Three MCP requests are a
plan, another one or a failed call that replaces it, and an apply; a cache of
two is overfilled by three sources.  Depth 3 of `app` and 4 of `join` have a
sheet on disk under one that is swapped in.  `Width` of 0, 1 and 2 makes a
cursor on, before and beyond the last column.

`sort` leaves out the commands that neither reorder rows nor can be refused
(`SortSpec` in `MC_SheetSort` allows fewer steps than `Spec`), which pays for
its second column.

In `doc`, `Effort` (in `MC_DocSheets`) counts how far the sheets are from those
of a file just opened: sheets opened, edits, documents made, markers, changed
modes and expansions.  It is a constraint of that run, so that TLC examines
every command in every state within that distance, but not what lies beyond;
three is enough for dive, edit and pop, for expand, edit and undo, and for
search, edit and open.  `MaxEdits` bounds the revisions edits lead to and
`MaxRevision` those that undo and redo lead to.

In `analysis` the bounds are guards of the actions: `changes` counts the
commands that change a sheet in place (deleting marked rows is not counted,
the rows being finitely many), and `MaxEffort` bounds changes and sheets
opened together on the way to a state that is left.  A window column counts as
all changes that remain, so that windows are computed on tables that were
changed or summarised once before, and not changed after.

Deadlock is checked in `rows`, `sort`, `db_save` and `db_once`.  In the others
the system really stops: the program quits or panics in `app`, and the other
bounds, which are guards, leave some states without a step (a stack at its
depth, requests used up).

### Fairness

Only what the code's own scheduling does is assumed fair.

- `AppSpec`: weak fairness of `LoaderEnds` (the thread reads a finite file, or
  fails, or dies), of `Poll` and of `RunPending` (the loop in `run` polls the
  receiver and takes the parked command on every turn, and no key blocks it),
  and of Esc once `leaving` is set, by a user who keeps pressing it.  No other
  key is ever owed.  Under it `WaitingEnds`: Loading and Calculating always
  end, whatever fails.  And `EscLeadsOut`: from every mode and stack, pressing
  Esc alone arrives at the question whether to quit.
- `FairSpec` of `McpServer`: weak fairness of the server's own steps, a loop
  that handles a request to its end.  Clients and other programs owe nothing.
  Under it `EveryRequestAnswered`.

The other components do nothing unless the user presses a key, so they have
nothing that must happen.

### Where the code does something else

Three runs end in a violation.

- `db_twice` - "a second save would insert the same rows again": add a row,
  drill down to it, save there, go back, save.  Only the active sheet is
  reloaded, so the parent still holds the row without a key.
- `db_gone` - "`d` deletes selected rows": a row added and deleted again is in
  no list of the screen, but `build_plan` inserts every physical row without a
  key.
- `pivot_panic` - Enter in a pivot is to drill down, or to say which column is
  missing.  Once an index column of the pivot sheet was renamed or deleted,
  `drill_down_pivot_value` has fewer texts than names and reads past their end.

Further counterexamples have a configuration here, to be run by hand
(`tlc -config <cfg> <module>`), each with the sentence it contradicts in the
comment of its property:

| Configuration, module | Property | What happens |
|---|---|---|
| `MC_AppReload`, `MC_App` | `NothingThrownAwayYet` | "a reload that fails must leave the sheet exactly as it was" (`app/mod.rs:572`): above 10 MB the sheet and its history are emptied before the thread reads |
| `MC_AppPanic`, `MC_App` | `NeverReadsPastTheColumns` | a load that fails leaves an empty sheet, on which `[` or `F` indexes column 0; likewise after a reload with fewer columns |
| `MC_SheetFooterStale`, `MC_SheetEdit` | `FooterFresh` | "The cache is invalidated whenever the data changes": `delete_selected_rows` and `paste_rows` do not clear it |
| `MC_SheetRefused`, `MC_SheetEdit` | `RefusedPasteKeepsUndo` | "A paste that does fail no longer eats an undo entry either": with 50 snapshots `push_undo` has dropped the oldest before the paste is refused, and redo is gone in any case |
| `MC_DbHidden`, `MC_DbWriteback` | `SavesOnlyShown` | "an ordinary writeback of the rows it shows": a drilled-down sheet writes its parent's pending edits of hidden rows too |
| `MC_DbMarks`, `MC_DbWriteback` | `DeletesOnlyShown` | a drilled-down sheet inherits marks on rows it does not show, and `d` deletes those |
| `MC_DocRename`, `MC_DocSheets` | `MappingDescribesTable` | "writing to a stale mapping would silently modify the wrong node": editing a key cell renames the key, while `row_paths` keep the old one and `doc_mapping_ok` compares sizes only, so the row's next edit goes to the old key |
| `MC_RowsCounted`, `MC_Analysis` | `EveryRowIsCounted` | `gF` counts "any col", the first one, and `count()` passes over NULL: rows whose first key is NULL count 0 |
| `MC_FloatKeys`, `MC_Analysis` | `FloatLinesFindTheirRows` | "Find display-row indices where `col_idx` equals `target` exactly" (`dataframe.rs:1693`): the target is the program's text of a value, "2" for 2.0, the column is compared as Polars casts it, "2.0"; so Enter on a line of a frequency table or pivot keyed by a float column with whole values, a running total included, finds no rows |
| `MC_McpDrop`, `MC_McpServer` | `DropsOnlyWhatWasShown` | "if a row changed since the plan was made, nothing is written" (`mcp/tools.rs:486`): an alter that drops a column checks no row, so what another program wrote in that column since the plan goes with it |
| `MC_McpCreate`, `MC_McpServer` | `NothingDestroyedInOneCall` | "Writing a path that does not exist yet stays one call - there is nothing there to lose" (`write_result`): what another program makes between the look and the write is replaced in the same call |
| `MC_McpReplace`, `MC_McpServer` | `ReplacesWhatWasShown` | a plan that replaces a table is applied without comparing the table with what was shown |
| `MC_McpListing`, `MC_McpServer` | `CachedListingsAreCurrent` | a directory's listing shows sizes and times but is cached under the directory's own time |

`NothingDestroyedUnplanned` and `StatementsRunAsShown` say what holds beside
these: what a request found when it looked is destroyed by no request without a
plan, and the columns a plan keeps hold in every row what they held, but for the
cells the plan was shown to set.

Observations made while modelling, read from the code and not checked:

- After a save whose reload failed, the next save inserts the added rows again;
  after a failed create the dialog keeps the table name answered for the old
  path; adding a window column to a database sheet drops its `db_rows`.
- `chart.drill_return` is consumed by the next pop of any sheet.
- The sort markers of a document sheet stay over rows in tree order after Pop,
  Undo, Redo and a failed bulk edit; a refused command costs the redo steps.
- `gp` to the root followed by `R` passes the guard that refuses a reload inside
  a node; a bulk edit of a null token patches the table with the raw text.
- A histogram's last bar counts its maximum, and the range its Enter asks for
  leaves it out.  The blank bar counts NULLs and empty texts alike and leads to
  the empty texts alone, or to nothing where there are none; so does the NULL
  line of a frequency table, whose text is the empty one.
- `,` marks the rows with the value under the cursor by the same look-up as
  Enter on a line, and so marks none on a whole value in a column of floats.
- `T` twice is not the identity once the label column was moved or deleted; `F`
  over a column called `Pct` or `Bar`, or `I` twice, leaves one header too many:
  the column of shares or bars replaces the key in the Polars frame, and both
  headers stay.  `HeadersMatchColumns` names this case as its one exception
  (`CountsByPctOrBar`), and the theorem about it shows that there is no other.
- The rows of a pivot come in the order of Polars' unstable grouping.  `J`
  joins all rows of both frames, deleted and filtered ones included.

## What is proved

For every set of values, columns, tables, depth and budget (the assumptions
named in the modules):

- `SheetStack_proofs`: `TypeCorrect`, `SwapDisciplineHolds`,
  `RefinesFrameStack`.  `SwapDiscipline` with the types is inductive.  The
  refinement maps each step to the step of `FrameStack` of the same name; the
  lemmas say that swapping out and in leaves `Contents` as it was, which is
  where `swapped = 1 .. Len(sheets) - 1` is needed.
- `Orders_proofs`: the lemmas about lists that the others rest on:
  `InOrderBijection`, that listing a finite set by counting is a bijection, and
  from it what `Retain`, `Insert` and a permutation do to a list without
  repetitions.  Then the sums: `TotalsUnfold`, that the recursion is what it
  says for a list of any length, `SumByParts`, that a list added up part by
  part comes to the same sum, `CountIsSum`, and `SumListed`, that the order in
  which a set is listed does not change what it adds up to.  They are proved by
  induction without an induction theorem: `EveryNatural` says that a set of
  naturals that has 0 and the successor of each of its members has them all,
  and takes a set where the library's theorem takes an operator.
- `SheetEdit_proofs`: first one lemma for each operation of `RowFrame`, that it
  keeps a `Faithful` frame faithful: well formed with its marks on visible rows
  (`Sound`), every key of the table in a row shown or written down for deletion
  (`Accounted`), no footer over values its rows no longer hold (`FooterHolds`).
  From these `TypeCorrect`, `FramesStayWellFormed`, `MarksStayVisible`,
  `KeysStayAccountedFor`, `FooterStaysCurrent`, `BudgetHolds`.  The invariant `IInv` says that the frame shown and every frame
  in both histories is `Faithful`, and that the histories fit the budget.  The
  remembered frames are in it because undo brings one back; the budget, because
  the caps in `pop_undo` and `pop_redo` are harmless only within it.
  `HistoryIsOneLine` maps undo, the frame and redo to the line of `EditHistory`,
  every step to the step of the same name or to a stutter.  `SortsAsMarked`
  follows from the permutation `sort_by_keys` applies being a linear order with
  the former positions as its last key, `DedupLeavesOne` from `Keeps` choosing
  one row of each group.
- `DbWriteback_proofs`: `TypeCorrect`, `NothingLost`, `Merges`,
  `CleanAfterReload`, with drill-downs and failing reloads allowed.  The
  invariant `IInv` says that every sheet is `Tied` to the table - the rows with
  a key are exactly the rows in `base`, no two share a key, every key written
  down for deletion is one of theirs - and that the plan in the popup is the
  one the active sheet would make now.  Then `PlanChecks` shows that each key
  the plan touches is checked against the row read under it, `RunChanges` that
  running the plan touches no other key, and the check that precedes it
  (`NoDrift`) that the table still has what was read.  `Merges` needs in
  addition that new keys are fresh and that keys are not shared, for otherwise
  an update could take the value of another row.
  `AddedRowsLandOnce` is about one sheet over its table and reloads that succeed
  (`~Dives`, `~ReloadMayFail`).  Both are needed: with a drill-down the row is
  written twice (`db_twice`), and so it is by a save after a failed reload.  Its
  invariant `OnceOnly` says that the rows the sheet has yet to insert are not in
  the table, except between the commit and the reload.
- `McpServer_proofs`: `TypeCorrect`, `NewestPlanOnce`, `CacheCurrent`,
  `RunsAsShown`, `NothingDestroyed`.  The invariant adds to the types that the
  plan in the slot is the newest and not applied yet, and that a cache entry
  whose stamp is the present one holds what is on the disk; for that, an entry
  read under an older stamp must be known to be older, which is why stamps are
  bounded by the clock.  `RunsAsShown` is then the drift check applied to the
  keys a plan touches, for every plan, those that change the columns included:
  of the rows it neither sets nor deletes it says that the kept columns hold
  what they held, and nothing of the dropped ones, which are not checked.
  `NothingDestroyed` needs no assumption about other programs, who may make
  tables and files at any moment: it speaks of what the request found.
- `App_proofs`: `AppTypeCorrect`, `LoadsLand`, `DialogsOverTables`,
  `AppKeepsTheStack`, `DialogsKeepTheirSheet`.  The tables `Keys` and `Moves`
  enter as facts about the modes they can lead to; the invariant joins the
  types, the swap discipline, what is shown while a load or a parked command is
  under way, and the two properties.  Every key, load and parked command is
  shown to be one step of `SheetStack` or none, so the refinement follows from
  `RefinesFrameStack`.  In the same module, about the wizard of `JoinDialog`:
  `NeverWithoutATable`, `KeysCanMeet`, `ChainInOrder`, `PeeksAreExact`,
  `WizardKeepsTheStack`.  The invariant says for each screen what the answers
  given so far are about; the positions picked are those of the list on screen
  only while that list is on screen.  The stack's own invariant is part of it,
  since the active sheet is in memory only by the swap discipline.
- `Analysis_proofs`, for all tables a file may hold, names, functions and depth:
  `AnalysisTypeCorrect`, `AnalysisHeadersMatch`, `TransposingTwiceIsNothing`,
  `WindowsLeaveTheTable` and `WindowsMeanThatAlways` from the invariant `AInv`;
  `SummariesAddUpAlways`, `LinesFindTheirRowsAlways` and
  `DrillShowsItsLineAlways` from `SInv`, which extends it.

  `AInv` says that every sheet is `FrameOK`, that its headers are in step
  unless it counts by a `Pct` or `Bar`, and that such a sheet is on top, for
  nothing but leaving it is modelled.  Types of cells are part of it because
  the text of a cell depends on the type in its header: a pivot, a transposed
  table and a window each make columns whose header and cells are written by
  different lines of code.  One lemma per operator of `Frames`, `Summaries` and
  `Windows` says that it makes a table with headers in step out of such a table;
  `AInvInductive` has a step for each command.

  `SInv` adds that every sheet `Summarises` the one under it.  What
  `SummariesAddUp` says of totals is too weak to be kept along with the other
  two properties, which look a line up by the texts of its keys: so it also says
  for each line without a NULL key that its count, or each of its cells, is that
  of the rows under it with the same key values (`CountsHold`, `CellsHold`), and
  that a key has the same type in both tables (`KeysAlike`).  Equal casts then
  mean equal values (`CastInjective`), since no two numbers share a numeral; that
  the text of a key is its cast is a condition on the line (`KeysFindable`),
  which floats do not always meet: see `MC_FloatKeys`.  A change of a
  column makes the sheet `reshaped`, a sort or a deletion of rows leaves its
  cells (`SameCells`), and the sheet under it does not change while it is
  there.  That a summary adds up is, by `SumByParts`, that its groups are
  disjoint and cover the rows; for a pivot, that every row with a value lies in
  one cell of the grid.

  `WindowsMeanThatAlways` compares what `add_window_column` computes, sorted by
  partition, then by the ordering column, running over the sorted rows and put
  back by the inverse permutation, with a definition that speaks of each row by
  itself.  The place of a row in its partition is the number of rows that
  precede it, and a running sum is the sum over those rows because `SumListed`
  lets it be taken in any order.

- `DocSheets_proofs`: `RefusedLeavesTreesAlone`, `HitsAreCurrentWhenOpened`,
  `MarkersNeverOutliveTheOrder`.  The invariant `DocInv` says of every sheet on
  the stack, not only of the active one, that its list of hits names a document
  that is there, at a revision not to come, and that at the present revision it
  is true of the tree.  It survives every edit because each one, those of undo
  and redo and the taking back of a failed one included, raises the revision,
  and `Pop` because a document is freed only when no sheet names it.  The
  operations on trees are left folded: these three theorems hold whatever they
  compute.

  `CellsAlwaysShowWhatTheyWrite`, `ColumnCommandsLoseNoValue` and
  `DocTypeCorrect`, in the same module, open them.
  A `Tree` is a node under which every path leads to a node or to nothing; `Get`
  along a path joined of two is `Get` along the second from where the first
  leads, and a node written at a path leaves all paths apart from it as they
  were (`Grafted`, `Written`), by induction on the length of the path.  Each
  operation on trees gives a tree; so does a loop over rows (`OneByOne`), by
  induction on the rows.  `Layout` is how a projection lies over its tree: its
  rows are the view's node or different children of it, its columns the keys,
  values and types of a dictionary, the bare rows, or fields none of which is
  inside another.  `ProjectedTable` says that every projection in every mode,
  with columns widened level by level, gives such a layout with cells that show
  their nodes.  `CellInv` then says that every document is a tree, that every
  sheet on the stack lies over its tree though its cells may be old, that every
  snapshot is a tree and every hit a path, and that the cells of the active
  sheet show their nodes, save in rows whose key was edited in place.  Old cells
  under the top do no harm because `Pop` projects again, as `Undo` and `Redo` do
  for the tree they bring back.  Two cells lead to different nodes, which lets an edit patch one and
  leave the others, by `Layout`: this is where fields inside one another would
  break it.

  `ColumnCommandsLoseNoValue` compares the leaves of the tree before and after.
  Renaming a key maps the leaves one to one, through the key renamed
  (`KeysDoNotCount`); inserting one adds only a null, which `Values` does not
  count (`NullsDoNotCount`); exchanging two moves no child.  That the places of
  a tree are finitely many (`UnderIsFinite`) is what makes equal counts follow
  from a bijection.  `Places`, and with it `Values`, goes four levels down, so
  that is how deep the theorem looks.

  `DocTypeCorrect` needs `CellInv` for the widths of the cells and the paths of
  the rows, and `Shaped` for the modes, the bounds and the sheets of hits.

The proof of `AppTypeCorrect` found a state TLC's run had passed over, since the
type invariant was not among its properties: a view of a document without
columns, popped back to, put the cursor at 0, where the code has the first
position.  `Within` is the `col.min(cols.saturating_sub(1))` of the code.

The proof about `DocSheets` found two operators of `DocTree` (`RenameKey`,
`ParseScalar`) written as a `CASE` with arms that overlap, where TLA+ leaves
open which is taken; they are written in the order of the code now.

Type invariants: those of `SheetStack`, `SheetEdit`, `DbWriteback`, `McpServer`,
`App`, `Analysis` and `DocSheets` are proved, that of `JoinDialog` within
`JoinInv`.

Only model-checked: liveness (`WaitingEnds`, `EscLeadsOut`,
`EveryRequestAnswered`), which is out of the prover's reach, and that runs reach
the disagreements listed as findings.  Every other property of a passing run is
stated by a theorem.

## Not modelled

- Cell values beyond order, equality and NULL; types of columns and the
  conversion of a whole column that an edit may cause; splitting, replacing and
  computed columns; the expression language and filters.
- Creating and replacing tables from the terminal, schema changes of a save and
  the rebuild of a table (one transaction of the database), saving into another
  database file.
- The rows a join makes (Polars'), and the columns it renames.
- Of documents: parsing and writing the three formats, saving, the path bar,
  null tokens typed into a cell, the `type` column's text after an edit, and
  commands on columns that are no field, which are refused without effect.
- Of summaries: shares of a total as group keys, sorting by text, `avg` and
  `pct_of_total` windows, numeric histograms, `describe`, random samples, other
  aggregators than Sum, and editing or undoing on these sheets.
- Of the application: what is typed into a dialog, the mouse, the clipboard,
  files of the external editor.
- MCP calculations and the query pipeline, which keep no state; JSON-RPC
  framing; readers and writers of files; rendering.
- Crashes: tuitab persists nothing of its own, and a database transaction is
  the engine's.

## Plan

1. `DbWriteback` extended by schema changes, rebuilds, creation and copies.
2. The rows of a join against their relational definition.
