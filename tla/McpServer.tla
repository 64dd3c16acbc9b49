----------------------------- MODULE McpServer -----------------------------
(***************************************************************************)
(* The MCP server (mcp/mod.rs, mcp/tools.rs, mcp/source.rs, mcp/write.rs): *)
(* one request at a time reads a database table, a plain file or the       *)
(* directory that holds the file, through a small cache, and may write a   *)
(* result or change a table.  Whatever destroys something is first planned *)
(* and shown, and only tuitab_write_apply with the id of the plan performs *)
(* it.  Other programs change the same files between any two steps of a    *)
(* request.                                                                *)
(*                                                                         *)
(* The operations of a query are left out (a result is the table that was  *)
(* read), and so are tuitab_jq and tuitab_calc, which keep no state.       *)
(***************************************************************************)
EXTENDS Orders, SequencesExt

CONSTANTS
    Tables,         \* the tables of one database
    Keys,           \* the row identities the engine may assign
    Columns,        \* the names a column may have
    Values,         \* what a cell may hold besides NULL
    EmptyText,      \* the text of no characters, one of Values
    Disks,          \* what the tables and the file may hold at first
    Made,           \* what other programs make a table or the file with
    Writable,       \* whether the server was started with --mcp-write
    CacheEntries,   \* CACHE_ENTRIES
    MaxCalls,       \* bound: requests
    MaxWrites       \* bound: changes other programs make

File == "file"      \* a plain file
Dir == "dir"        \* the directory that holds it
Db == "db"          \* the database, a file of its own elsewhere
Null == "null"

Objects == Tables \cup {File}
Sources == Objects \cup {Dir}
PathOf(src) == IF src \in Tables THEN Db ELSE src

\* A row is a cell for each column.
Cells == Values \cup {Null}
Row == UNION {[C -> Cells] : C \in SUBSET Columns}

\* A table or a file: whether it is there, its columns, and rows under keys.
Content == {c \in [there : BOOLEAN, cols : SUBSET Columns,
                   rows : UNION {[K -> Row] : K \in SUBSET Keys}] :
               \A k \in DOMAIN c.rows : DOMAIN c.rows[k] = c.cols}
Absent == [there |-> FALSE, cols |-> {}, rows |-> [k \in {} |-> <<>>]]
Held(content) == DOMAIN content.rows

Idle == [step |-> "Idle"]
NoPlan == [id |-> 0]

ASSUME NamesAssumption == Tables \cap {File, Dir, Db} = {} /\ EmptyText \in Values
ASSUME DisksAssumption == Disks \subseteq [Objects -> Content]
ASSUME MadeAssumption == Made \subseteq Content
ASSUME SwitchesAssumption == Writable \in BOOLEAN
ASSUME BoundsAssumption ==
    CacheEntries \in Nat \ {0} /\ MaxCalls \in Nat /\ MaxWrites \in Nat

VARIABLES
    disk,       \* what every table and the file hold
    stamp,      \* path |-> what stamp_of would read there, 0 if there is no file
    cache,      \* Server.cache: the frames read, newest first
    pending,    \* Server.pending: the one plan waiting
    planSeq,    \* Server.plan_seq
    call,       \* the request being handled
    applied,    \* history: how often each plan was applied
    retired,    \* history: the plans a later planning call has replaced
    found,      \* history: what there was when write_result looked
    clock,      \* the changes made to the disk so far, which number the stamps
    calls, writes  \* bookkeeping of the bounds

vars == <<disk, stamp, cache, pending, planSeq, call, applied, retired, found, clock, calls, writes>>
history == <<applied, retired, found>>
bounds == <<clock, calls, writes>>

(* What reading a source gives.  The listing of the directory tells the    *)
(* size and the time of the file, so it changes when the file does.        *)
Read(src) ==
    IF src = Dir THEN [disk[File] EXCEPT !.there = TRUE] ELSE disk[src]

Exists(o) == disk[o].there

Entry == [src : Sources, stamp : 0 .. clock, df : Content]

\* A request that reads a source and may go on to write what it read.
Task == [step : {"Stamped", "Loaded", "Planning", "Creating", "Running"}, src : Sources,
         out : Objects \cup {"none"}, overwrite : BOOLEAN, df : Content,
         stamp : 0 .. clock, drops : BOOLEAN]

\* A plan replaces a table or the file by a frame, or is a list of statements.
Replacement == [id : 1 .. planSeq, kind : {"overwrite"}, target : Objects, df : Content,
                drops : BOOLEAN, shown : Content]
\* `from` names, for every column that is kept, the column it was, and `adds`
\* the new ones; `sets` the new cells of the rows that are updated.
Statements ==
    {p \in [id : 1 .. planSeq, kind : {"statements"}, target : Tables,
            from : UNION {[C -> Columns] : C \in SUBSET Columns}, adds : SUBSET Columns,
            sets : UNION {[M -> Row] : M \in SUBSET Keys}, deletes : SUBSET Keys,
            inserts : Seq(Row), shown : Content] :
        /\ \A c \in DOMAIN p.from : p.from[c] \in p.shown.cols
        /\ \A i \in DOMAIN p.inserts : DOMAIN p.inserts[i] = DOMAIN p.from \cup p.adds}

TypeOK ==
    /\ disk \in [Objects -> Content]
    /\ stamp \in [{Db, File, Dir} -> 0 .. clock]
    /\ cache \in Seq(Entry) /\ Len(cache) <= CacheEntries
    /\ pending \in {NoPlan} \cup Replacement \cup Statements
    /\ planSeq \in Nat
    /\ call \in {Idle} \cup Task
    /\ call.step \notin {"Idle", "Stamped"} => call.out \in Objects
    /\ applied \in Seq(Nat) /\ Len(applied) = planSeq
    /\ retired \subseteq 1 .. planSeq /\ found \subseteq Objects
    /\ clock \in Nat /\ calls \in 0 .. MaxCalls /\ writes \in 0 .. MaxWrites

Init ==
    /\ disk \in Disks
    /\ stamp = [p \in {Db, File, Dir} |-> IF p = File /\ ~Exists(File) THEN 0 ELSE 1]
    /\ cache = <<>> /\ pending = NoPlan /\ planSeq = 0 /\ call = Idle
    /\ applied = <<>> /\ retired = {} /\ found = {}
    /\ clock = 1 /\ calls = 0 /\ writes = 0

-----------------------------------------------------------------------------
(* Changes to the disk.  Each gives the file new metadata; making or       *)
(* removing the file changes its directory as well.                        *)

\* Mutant: the write-ahead log is no part of the stamp.
PutIntoLog(o, content) ==
    /\ disk' = [disk EXCEPT ![o] = content]
    /\ clock' = clock + 1
    /\ stamp' = [p \in DOMAIN stamp |->
                    IF p = PathOf(o) /\ o = File
                    THEN (IF ~content.there THEN 0 ELSE clock + 1)
                    ELSE IF p = Dir /\ o = File /\ Exists(File) # content.there
                         THEN clock + 1
                         ELSE stamp[p]]

Put(o, content) ==
    /\ disk' = [disk EXCEPT ![o] = content]
    /\ clock' = clock + 1
    /\ stamp' = [p \in DOMAIN stamp |->
                    IF p = PathOf(o)
                    THEN (IF o = File /\ ~content.there THEN 0 ELSE clock + 1)
                    ELSE IF p = Dir /\ o = File /\ Exists(File) # content.there
                         THEN clock + 1
                         ELSE stamp[p]]

DiskStays == UNCHANGED <<disk, stamp, clock>>

\* Another program changes one row, or makes or removes a table or the file.
OtherWrites(o, content) ==
    /\ writes < MaxWrites
    /\ content # disk[o]
    /\ Put(o, content)
    /\ writes' = writes + 1
    /\ UNCHANGED <<cache, pending, planSeq, call, history, calls>>

-----------------------------------------------------------------------------
(* Requests.  One is read when the one before it has been answered.        *)

Request == call = Idle /\ calls < MaxCalls /\ calls' = calls + 1

Answered == call' = Idle

\* The entry for a source as the file stands, 0 if there is none.
Hit(src) ==
    LET fresh == {i \in DOMAIN cache : cache[i].src = src /\ cache[i].stamp = stamp[PathOf(src)]}
    IN  IF stamp[PathOf(src)] = 0 \/ fresh = {} THEN 0
        ELSE CHOOSE i \in fresh : \A j \in fresh : i <= j

\* A request that reads a source and answers with rows (query and describe
\* without an output, inspect of a file) or goes on to write them to `out`.
\* inspect of a table reads it past the cache and changes nothing.  The stamp
\* is taken first, and a hit moves to the front.
QueryCall(src, out, overwrite) ==
    LET i == Hit(src)
        task(step, df, at) == [step |-> step, src |-> src, out |-> out,
                               overwrite |-> overwrite, df |-> df, stamp |-> at, drops |-> FALSE]
    IN  /\ Request
        /\ IF i = 0
           THEN /\ call' = task("Stamped", Absent, stamp[PathOf(src)])
                /\ UNCHANGED cache
           ELSE /\ cache' = <<cache[i]>> \o RemoveAt(cache, i)
                /\ call' = IF out = "none" THEN Idle ELSE task("Loaded", cache[i].df, 0)
        /\ DiskStays
        /\ UNCHANGED <<pending, planSeq, history, writes>>

\* Mutant: a source that is gone gets no answer.
LoadWithoutError ==
    LET df == Read(call.src) IN
    /\ call.step = "Stamped"
    /\ df.there
    /\ cache' = <<[src |-> call.src, stamp |-> call.stamp, df |-> df]>>
    /\ call' = IF call.out = "none" THEN Idle ELSE [call EXCEPT !.step = "Loaded", !.df = df]
    /\ DiskStays
    /\ UNCHANGED <<pending, planSeq, history, calls, writes>>

\* The read, which may find nothing or fail; the frame goes to the front of
\* the cache under the stamp taken before it.
Load ==
    LET df    == Read(call.src)
        entry == [src |-> call.src, stamp |-> call.stamp, df |-> df]
        rest  == Retain(cache, {c \in Range(cache) : c.src # call.src})
        all   == <<entry>> \o rest
    IN  /\ call.step = "Stamped"
        /\ \/ Answered /\ UNCHANGED cache
           \/ /\ df.there
              /\ cache' = SubSeq(all, 1, IF Len(all) < CacheEntries THEN Len(all) ELSE CacheEntries)
              /\ call' = IF call.out = "none" THEN Idle
                         ELSE [call EXCEPT !.step = "Loaded", !.df = df]
        /\ DiskStays
        /\ UNCHANGED <<pending, planSeq, history, calls, writes>>

\* Replacing what is there needs the flag, the caller's word and a plan.
\* A table is never written into the database the query read.
CheckOutput ==
    /\ call.step = "Loaded"
    /\ \/ Answered /\ UNCHANGED cache      \* an operation fails
       \/ /\ cache' = <<>>
          /\ IF call.out \in Tables /\ call.src \in Tables
             THEN Answered
             ELSE IF ~Exists(call.out)
             THEN call' = [call EXCEPT !.step = "Creating"]
             ELSE IF Writable /\ call.overwrite
             THEN call' = [call EXCEPT !.step = "Planning"]
             ELSE Answered
    /\ found' = IF call' = Idle THEN {} ELSE {o \in Objects : Exists(o)}
    /\ DiskStays
    /\ UNCHANGED <<pending, planSeq, applied, retired, calls, writes>>

\* A plan takes the one slot; the plan before it is gone.
Offer(plan) ==
    /\ planSeq' = planSeq + 1
    /\ pending' = plan
    /\ applied' = Append(applied, 0)
    /\ retired' = 1 .. planSeq

\* Mutant: the flag to ask for the overwriting is enough.
PlanOverwriteAtOnce ==
    /\ call.step = "Planning"
    /\ Put(call.out, call.df)
    /\ Answered /\ found' = {}
    /\ UNCHANGED <<cache, pending, planSeq, applied, retired, calls, writes>>

\* plan_replacement, plan_file_overwrite: nothing is written.  A table gone
\* by now will only be created.  `shown` is what is there when it is counted.
PlanOverwrite ==
    /\ call.step = "Planning"
    /\ \/ Offer([id |-> planSeq + 1, kind |-> "overwrite", target |-> call.out,
                 df |-> call.df, drops |-> Exists(call.out), shown |-> disk[call.out]])
       \/ /\ pending' = NoPlan          \* a reference into the table, a bad column
          /\ retired' = 1 .. planSeq
          /\ UNCHANGED <<planSeq, applied>>
    /\ Answered /\ found' = {}
    /\ DiskStays
    /\ UNCHANGED <<cache, calls, writes>>

\* create_table works out its statements, and looks again whether the table
\* is there; a file is simply written.
PlanCreate ==
    /\ call.step = "Creating"
    /\ call' = [call EXCEPT !.step = "Running", !.drops = call.out \in Tables /\ Exists(call.out)]
    /\ DiskStays
    /\ UNCHANGED <<cache, pending, planSeq, history, calls, writes>>

\* Whether DROP and CREATE of one table go through.
EngineAgrees(target, drops) == target = File \/ drops = Exists(target)

RunCreate ==
    /\ call.step = "Running"
    /\ \/ EngineAgrees(call.out, call.drops) /\ Put(call.out, call.df)
       \/ DiskStays             \* the statements or the writer fail
    /\ Answered /\ found' = {}
    /\ UNCHANGED <<cache, pending, planSeq, applied, retired, calls, writes>>

-----------------------------------------------------------------------------
(* tuitab_write: a change to one table, worked out and shown.              *)

\* The statements that turn the table into one with the rows of M set, rows
\* deleted or a row added; an UPDATE names the cells that differ.
Plan(t, sets, deletes, inserts) ==
    [id |-> planSeq + 1, kind |-> "statements", target |-> t,
     from |-> [c \in disk[t].cols |-> c], adds |-> {},
     sets |-> sets, deletes |-> deletes, inserts |-> inserts, shown |-> disk[t]]
NoSets == [k \in {} |-> <<>>]

SetPlan(t, M, assign) ==
    LET Differs(k) == {c \in DOMAIN assign : disk[t].rows[k][c] # assign[c]}
    IN  Plan(t, [k \in {k \in M : Differs(k) # {}} |-> [c \in Differs(k) |-> assign[c]]],
             {}, <<>>)
DeletePlan(t, M) == Plan(t, NoSets, M, <<>>)
InsertPlan(t, row) == Plan(t, NoSets, {}, <<row>>)

\* Columns kept, maybe under another name, dropped and added.  A column of
\* text is filled with empty texts, which is an UPDATE of every row; any other
\* stays NULL and takes none.
AlterPlan(t, from, adds, texts) ==
    [Plan(t, IF texts = {} THEN NoSets
             ELSE [k \in Held(disk[t]) |-> [c \in texts |-> EmptyText]], {}, <<>>)
        EXCEPT !.from = from, !.adds = adds]

\* Which column each one of a reshaped table was: no two are the same.
Keepings(cols) == UNION {Injection(C, cols) : C \in SUBSET Columns}

Plans(t) ==
    LET cols == disk[t].cols
        held == SUBSET Held(disk[t])
    IN  {SetPlan(t, M, assign) : M \in held, assign \in UNION {[C -> Cells] : C \in SUBSET cols}}
            \cup {DeletePlan(t, M) : M \in held}
            \cup {InsertPlan(t, row) : row \in [cols -> Cells]}
            \cup UNION {UNION {{AlterPlan(t, from, adds, texts) : texts \in SUBSET adds} :
                          adds \in SUBSET (Columns \ DOMAIN from)} : from \in Keepings(cols)}

ChangesNothing(p) ==
    /\ DOMAIN p.sets = {} /\ p.deletes = {} /\ p.inserts = <<>>
    /\ p.adds = {} /\ p.from = [c \in p.shown.cols |-> c]

\* Mutant: a call that fails leaves the plan before it in place.
WriteCallFailsLate ==
    /\ Request
    /\ Writable
    /\ retired' = 1 .. planSeq
    /\ DiskStays
    /\ UNCHANGED <<cache, pending, planSeq, call, applied, found, writes>>

\* The plan before is dropped whatever comes of this call: the arguments may
\* be refused, the table be a view or gone, nothing may change.
WriteCallFails ==
    /\ Request
    /\ Writable
    /\ pending' = NoPlan
    /\ retired' = 1 .. planSeq
    /\ DiskStays
    /\ UNCHANGED <<cache, planSeq, call, applied, found, writes>>

WriteCall(t) ==
    /\ Request
    /\ Writable
    /\ Exists(t)
    /\ \E p \in Plans(t) : ~ChangesNothing(p) /\ Offer(p)
    /\ DiskStays
    /\ UNCHANGED <<cache, call, found, writes>>

\* tuitab_write_apply with the id of no plan waiting: the plan stays.
ApplyRefused(id) ==
    /\ Request
    /\ Writable
    /\ id # pending.id
    /\ DiskStays
    /\ UNCHANGED <<cache, pending, planSeq, call, history, writes>>

\* A row the table has now as it was when the plan was made.
SameRow(p, k) ==
    k \in Held(disk[p.target]) \cap Held(p.shown) /\ disk[p.target].rows[k] = p.shown.rows[k]

\* Mutant: deleted rows are not checked.
NoDriftOfSets(p) ==
    /\ p.shown.cols = disk[p.target].cols
    /\ \A k \in DOMAIN p.sets : SameRow(p, k)

\* check_shape, compare_drift: the names of the columns, and every row that is
\* updated or deleted, are as they were when the plan was made.  The rows a
\* DROP COLUMN empties are in no check.
NoDrift(p) ==
    /\ p.shown.cols = disk[p.target].cols
    /\ \A k \in DOMAIN p.sets \cup p.deletes : SameRow(p, k)

\* A row under the new columns, before anything is set in it.
Recast(p, row) ==
    [c \in DOMAIN p.from \cup p.adds |-> IF c \in DOMAIN p.from THEN row[p.from[c]] ELSE Null]

\* The keys of the table once the statements have run, the new row's `fresh`.
KeysAfter(p, fresh) ==
    (Held(disk[p.target]) \ p.deletes) \cup (IF p.inserts = <<>> THEN {} ELSE {fresh})

RowAfter(p, fresh, k) ==
    LET row == Recast(p, disk[p.target].rows[k])
        set == IF k \in DOMAIN p.sets THEN p.sets[k] ELSE <<>>
    IN  IF p.inserts # <<>> /\ k = fresh THEN p.inserts[1]
        ELSE [c \in DOMAIN row |-> IF c \in DOMAIN set THEN set[c] ELSE row[c]]

\* DROP, RENAME and ADD COLUMN come first, then the rows.
Run(p, fresh) ==
    [there |-> TRUE, cols |-> DOMAIN p.from \cup p.adds,
     rows  |-> [k \in KeysAfter(p, fresh) |-> RowAfter(p, fresh, k)]]

\* The keys the engine may give to a new row.
Fresh(p) == IF p.inserts = <<>> THEN Keys ELSE Keys \ Held(disk[p.target])

\* An engine drops no table's last column.
KeepsAColumn(p) == DOMAIN p.from = {} => p.shown.cols = {}

\* Mutant: the plan is taken only once it has been written.
ApplyPlanKept ==
    /\ Request
    /\ pending # NoPlan
    /\ pending.kind = "statements"
    /\ NoDrift(pending) /\ KeepsAColumn(pending)
    /\ \E fresh \in Fresh(pending) : Put(pending.target, Run(pending, fresh))
    /\ cache' = <<>>
    /\ applied' = [applied EXCEPT ![pending.id] = @ + 1]
    /\ UNCHANGED <<pending, planSeq, call, retired, found, writes>>

\* The plan is taken before it is run, so it is gone even if that fails.  Only
\* statements are checked against the table as it was shown.
ApplyPlan ==
    /\ Request
    /\ pending # NoPlan
    /\ pending' = NoPlan
    /\ \/ /\ pending.kind = "overwrite"
          /\ EngineAgrees(pending.target, pending.drops)
          /\ Put(pending.target, pending.df)
       \/ /\ pending.kind = "statements"
          /\ NoDrift(pending) /\ KeepsAColumn(pending)
          /\ \E fresh \in Fresh(pending) : Put(pending.target, Run(pending, fresh))
    /\ cache' = <<>>
    /\ applied' = [applied EXCEPT ![pending.id] = @ + 1]
    /\ UNCHANGED <<planSeq, call, retired, found, writes>>

\* A row has drifted, the engine refuses a statement, the file is read-only.
ApplyPlanFails ==
    /\ Request
    /\ pending # NoPlan
    /\ pending' = NoPlan
    /\ DiskStays
    /\ UNCHANGED <<cache, planSeq, call, history, writes>>

-----------------------------------------------------------------------------

\* What one change by another program can leave in an object that is there:
\* a cell or row changed, a row removed or added, columns dropped.
RowsChanged(now) ==
    {[now EXCEPT !.rows[k] = row] : k \in Held(now), row \in [now.cols -> Cells]}
RowsRemoved(now) ==
    {[now EXCEPT !.rows = [j \in Held(now) \ {k} |-> now.rows[j]]] : k \in Held(now)}
WithRow(now, k, row) ==
    [now EXCEPT !.rows = [j \in Held(now) \cup {k} |-> IF j = k THEN row ELSE now.rows[j]]]
RowsAdded(now) ==
    {WithRow(now, k, row) : k \in Keys \ Held(now), row \in [now.cols -> Cells]}
ColumnsDropped(now) ==
    {[now EXCEPT !.cols = C, !.rows = [j \in Held(now) |-> [c \in C |-> now.rows[j][c]]]] :
        C \in SUBSET now.cols \ {{}}}

OneChangeAway(o) ==
    {Absent} \cup
    (IF Exists(o)
     THEN RowsChanged(disk[o]) \cup RowsRemoved(disk[o]) \cup RowsAdded(disk[o])
          \cup ColumnsDropped(disk[o])
     ELSE Made)

ServerStep == Load \/ CheckOutput \/ PlanOverwrite \/ PlanCreate \/ RunCreate

Next ==
    \/ \E src \in Sources, out \in Objects \cup {"none"}, overwrite \in BOOLEAN :
          QueryCall(src, out, overwrite)
    \/ ServerStep
    \/ WriteCallFails
    \/ \E t \in Tables : WriteCall(t)
    \/ \E id \in 1 .. planSeq + 1 : ApplyRefused(id)
    \/ ApplyPlan
    \/ ApplyPlanFails
    \/ \E o \in Objects : \E content \in OneChangeAway(o) : OtherWrites(o, content)

Spec == Init /\ [][Next]_vars

(* The server is one loop that handles a request to its end (serve); what  *)
(* the client asks and what other programs do is owed to nobody.           *)
FairSpec == Spec /\ WF_vars(ServerStep)

-----------------------------------------------------------------------------

(* A plan is applied at most once, and never after a later planning call,  *)
(* even one that failed ("a plan can never outlive the conversation that   *)
(* produced it and be applied in place of a newer one", Server.pending).   *)
OnlyTheNewestPlanOnce ==
    /\ \A id \in DOMAIN applied : applied[id] <= 1
    /\ pending # NoPlan => pending.id \notin retired /\ applied[pending.id] = 0

(* What a plan of statements deletes or changes is what was shown with it, *)
(* however long ago that was, and nothing another program wrote since is    *)
(* lost in the columns it keeps (check_shape, compare_drift).  What a       *)
(* DROP COLUMN takes is DropsOnlyWhatWasShown, which the code breaks.       *)
StatementsRunAsShown ==
    [][ (ApplyPlan /\ pending.kind = "statements") =>
        LET p    == pending
            now  == disk[p.target]
            then == disk'[p.target]
        IN  /\ now.cols = p.shown.cols
            /\ \A k \in Held(now) :
                  \/ SameRow(p, k)
                  \/ /\ k \in Held(then)
                     /\ \A c \in DOMAIN p.from : then.rows[k][c] = now.rows[k][p.from[c]] ]_vars

(* "If a row changed since the plan was made, nothing is written"           *)
(* (apply_tool_schema), said of the cells in the columns a plan drops.      *)
DropsOnlyWhatWasShown ==
    [][ (ApplyPlan /\ pending.kind = "statements") =>
        \A k \in Held(disk[pending.target]), c \in pending.shown.cols \ Range(pending.from) :
            /\ k \in Held(pending.shown)
            /\ disk[pending.target].rows[k][c] = pending.shown.rows[k][c] ]_vars

(* Without a plan that was shown and applied, the server destroys nothing   *)
(* that was there when write_result looked; what another program makes      *)
(* after the look is only destroyed where it was made in time for           *)
(* create_plan to see it, or is the file.  (A table made later yet makes    *)
(* CREATE TABLE fail.)                                                      *)
NothingDestroyedUnplanned ==
    [][ \A o \in Objects :
          (disk'[o] # disk[o] /\ Exists(o) /\ writes' = writes /\ ~ApplyPlan) =>
              o \notin found /\ (o \in Tables => call.drops) ]_vars

(* A frame that the cache would answer with is what the file or the table  *)
(* holds, whoever wrote last (stamp_of, load).                             *)
CachedFramesAreCurrent ==
    \A i \in DOMAIN cache :
        (cache[i].src # Dir /\ Hit(cache[i].src) = i) => cache[i].df = Read(cache[i].src)

(* Every request is answered.                                              *)
EveryRequestAnswered == (call # Idle) ~> (call = Idle)

(* "If the table changed since step 1, nothing is written and you start    *)
(* over" (WRITE_INSTRUCTIONS), said of replacing a table as well.          *)
ReplacesWhatWasShown ==
    [][ (ApplyPlan /\ pending.kind = "overwrite") =>
            disk[pending.target] = pending.shown ]_vars

(* "Load source, reusing the cached frame when the file has not changed"   *)
(* (load), said of every source.                                           *)
CachedListingsAreCurrent ==
    \A i \in DOMAIN cache :
        Hit(cache[i].src) = i => cache[i].df = Read(cache[i].src)
(* "Writing a path that does not exist yet stays one call - there is        *)
(* nothing there to lose" (write_result), whenever it is looked at.         *)
NothingDestroyedInOneCall ==
    [][ \A o \in Objects :
          (disk'[o] # disk[o] /\ Exists(o) /\ writes' = writes) => ApplyPlan ]_vars
=============================================================================
