----------------------------- MODULE JoinDialog -----------------------------
(***************************************************************************)
(* The JOIN wizard (app/actions/join.rs, execute_join): it takes the other *)
(* table from a file, from what lies beside the current one or from a      *)
(* sheet below it, then the columns to meet on, and chains through a queue *)
(* of tables picked from a listing.  Of the application's modes only       *)
(* Normal and the wizard's are here; a table is its columns, and whether a *)
(* load or the join of two tables succeeds is open.                        *)
(***************************************************************************)
EXTENDS SheetStack, Orders

CONSTANTS
    Columns,    \* table |-> the names of its columns, in order
    Overviews,   \* directory and database listings
    Beside      \* table |-> what is in the directory, database or workbook it was
                \* opened from, or that it lists; empty for a result

ASSUME ColumnsAssumption ==
    \A f \in Frames : Columns[f] \in Seq(STRING) /\ IsInjective(Columns[f])
ASSUME OverviewsAssumption == Overviews \subseteq Frames
ASSUME BesideAssumption == Beside \in [Frames -> Seq(Frames)]

VARIABLES
    screen,     \* App.mode, while the wizard is the question
    items,      \* join.context_items
    picked,     \* join.overview_selected: positions in items
    queue,      \* join.pending_queue
    other,      \* join.other_df
    left,       \* join.left_keys, in the order they were picked
    right,      \* join.right_keys
    chosen      \* observer: the tables this wizard was told to chain

join == <<items, picked, queue, other, left, right, chosen>>
joinVars == <<vars, screen, join>>

Names(keys) == Range(keys)

\* A key is picked when it is not, and dropped when it is.
Toggle(keys, c) ==
    IF c \in Names(keys) THEN Retain(keys, Names(keys) \ {c}) ELSE Append(keys, c)

\* collect_join_context_items: all that is there but the table itself.
ContextItems(f) == Retain(Beside[f], Frames \ {f})

JoinInit ==
    /\ Init
    /\ screen = "Normal"
    /\ items = <<>> /\ picked = {} /\ queue = <<>> /\ chosen = <<>>
    /\ other = Nothing /\ left = <<>> /\ right = <<>>

-----------------------------------------------------------------------------
(* Choosing the tables.                                                    *)

\* Mutant: the queue of an abandoned chain stays.
OpenJoinKeepingQueue ==
    /\ screen = "Normal"
    /\ other' = Nothing /\ left' = <<>> /\ right' = <<>> /\ chosen' = <<>>
    /\ items' = ContextItems(Top)
    /\ IF Top \in Overviews
       THEN IF ContextItems(Top) = <<>> THEN UNCHANGED <<screen, picked>>
            ELSE screen' = "JoinOverviewSelect" /\ picked' = {}
       ELSE screen' = "JoinSelectSource" /\ UNCHANGED picked
    /\ StackAsIs /\ UNCHANGED queue

OpenJoin ==
    /\ screen = "Normal"
    /\ other' = Nothing /\ left' = <<>> /\ right' = <<>> /\ queue' = <<>> /\ chosen' = <<>>
    /\ items' = ContextItems(Top)
    /\ IF Top \in Overviews
       THEN IF ContextItems(Top) = <<>> THEN UNCHANGED <<screen, picked>>
            ELSE screen' = "JoinOverviewSelect" /\ picked' = {}
       ELSE screen' = "JoinSelectSource" /\ UNCHANGED picked
    /\ StackAsIs

OverviewToggle ==
    /\ screen = "JoinOverviewSelect"
    /\ \E i \in DOMAIN items :
           picked' = IF i \in picked THEN picked \ {i} ELSE picked \cup {i}
    /\ StackAsIs /\ UNCHANGED <<screen, items, queue, other, left, right, chosen>>

\* The picked items, in the order of the list and not of the picking.
InListOrder ==
    LET order == InOrder(picked, Ascending(picked))
    IN  [n \in 1 .. Cardinality(picked) |-> items[order[n]]]

\* The first table becomes a sheet, the second the other one, the rest wait.  With
\* fewer than two picked, or one of them unreadable, everything stays as it is.
OverviewApply ==
    /\ screen = "JoinOverviewSelect" /\ Cardinality(picked) >= 2
    /\ Push(InListOrder[1])
    /\ other' = InListOrder[2]
    /\ queue' = SubSeq(InListOrder, 3, Cardinality(picked))
    /\ chosen' = InListOrder
    /\ left' = <<>> /\ right' = <<>>
    /\ screen' = "JoinSelectType"
    /\ UNCHANGED <<items, picked>>

TakeOther(f) ==
    /\ other' = f
    /\ screen' = "JoinSelectType"
    /\ UNCHANGED <<items, picked, queue, left, right, chosen>>

BrowseFile ==
    /\ screen = "JoinSelectSource"
    /\ screen' = "JoinInputPath"
    /\ StackAsIs /\ UNCHANGED join

SourceFromItems ==
    /\ screen = "JoinSelectSource"
    /\ \E i \in DOMAIN items : TakeOther(items[i])
    /\ StackAsIs

\* A sheet of the stack.  After a wizard that began in a listing the cursor of
\* the list is an old one and may stand on no sheet at all.
SourceFromStack(idx) ==
    /\ screen = "JoinSelectSource"
    /\ CloneSheet(idx)
    /\ IF idx <= Depth THEN TakeOther(taken') ELSE UNCHANGED <<screen, join>>

PathApply ==
    /\ screen = "JoinInputPath"
    /\ \E f \in Frames : TakeOther(f)
    /\ StackAsIs

-----------------------------------------------------------------------------
(* Choosing the columns.                                                   *)

TypeApply ==
    /\ screen = "JoinSelectType"
    /\ screen' = "JoinSelectLeftKeys" /\ left' = <<>>
    /\ StackAsIs /\ UNCHANGED <<items, picked, queue, other, right, chosen>>

\* JoinLeftKeyToggle, JoinLeftKeyToggleAll
LeftKeyToggle ==
    /\ screen = "JoinSelectLeftKeys"
    /\ \/ \E c \in Names(Columns[Top]) : left' = Toggle(left, c)
       \/ left' = IF Len(left) = Len(Columns[Top]) THEN <<>> ELSE Columns[Top]
    /\ StackAsIs /\ UNCHANGED <<screen, items, picked, queue, other, right, chosen>>

\* Mutant: what matches is not asked of the other table.
LeftKeyApplyUnmatched ==
    /\ screen = "JoinSelectLeftKeys" /\ left # <<>>
    /\ right' = left
    /\ screen' = "JoinSelectRightKeys"
    /\ StackAsIs /\ UNCHANGED <<items, picked, queue, other, left, chosen>>

LeftKeyApply ==
    /\ screen = "JoinSelectLeftKeys" /\ left # <<>>
    /\ right' = Retain(left, Names(Columns[other]))
    /\ screen' = "JoinSelectRightKeys"
    /\ StackAsIs /\ UNCHANGED <<items, picked, queue, other, left, chosen>>

RightKeyToggle ==
    /\ screen = "JoinSelectRightKeys"
    /\ \E c \in Names(Columns[other]) : right' = Toggle(right, c)
    /\ StackAsIs /\ UNCHANGED <<screen, items, picked, queue, other, left, chosen>>

\* The Cancel actions: one screen back, and out from the first.
BackFrom == [JoinOverviewSelect  |-> "Normal",
             JoinSelectSource    |-> "Normal",
             JoinInputPath       |-> "JoinSelectSource",
             JoinSelectType      |-> "JoinSelectSource",
             JoinSelectLeftKeys  |-> "JoinSelectType",
             JoinSelectRightKeys |-> "JoinSelectLeftKeys"]

Cancel ==
    /\ screen \in DOMAIN BackFrom
    /\ screen' = BackFrom[screen]
    /\ StackAsIs /\ UNCHANGED join

-----------------------------------------------------------------------------
(* execute_join.                                                           *)

Ready == screen = "JoinSelectRightKeys" /\ right # <<>> /\ Len(right) = Len(left)

\* The result is pushed and nothing waits.
JoinEnds ==
    /\ Ready /\ other # Nothing /\ queue = <<>>
    /\ \E f \in Frames : Push(f)
    /\ other' = Nothing /\ screen' = "Normal"
    /\ UNCHANGED <<items, picked, queue, left, right, chosen>>

\* The result is pushed, and is the left side of the next join of the chain.
JoinGoesOn ==
    /\ Ready /\ other # Nothing /\ queue # <<>>
    /\ \E f \in Frames : Push(f)
    /\ other' = Head(queue) /\ queue' = Tail(queue)
    /\ left' = <<>> /\ right' = <<>>
    /\ screen' = "JoinSelectType"
    /\ UNCHANGED <<items, picked, chosen>>

\* The next table does not load: the chain is given up, the result stays.
ChainBreaks ==
    /\ Ready /\ other # Nothing /\ queue # <<>>
    /\ \E f \in Frames : Push(f)
    /\ other' = Nothing /\ queue' = <<>> /\ screen' = "Normal"
    /\ UNCHANGED <<items, picked, left, right, chosen>>

\* Mutant: the other table is not put back.
JoinRefusedOnce ==
    /\ Ready
    /\ other' = Nothing
    /\ StackAsIs /\ UNCHANGED <<screen, items, picked, queue, left, right, chosen>>

\* Key types that cannot meet, or an error of the join: the other table was
\* taken and is put back so the user can try again.  With none there is no way on.
JoinRefused ==
    /\ Ready
    /\ screen' = IF other = Nothing THEN "Normal" ELSE screen
    /\ StackAsIs /\ UNCHANGED join

\* Outside the wizard: sheets are left and opened.
ReturnToSheetBelow == screen = "Normal" /\ Pop /\ UNCHANGED <<screen, join>>
OpenTable == screen = "Normal" /\ (\E f \in Frames : Push(f)) /\ UNCHANGED <<screen, join>>

JoinNext ==
    \/ OpenJoin \/ OverviewToggle \/ OverviewApply
    \/ BrowseFile \/ SourceFromItems \/ PathApply
    \/ \E idx \in 1 .. Depth + 1 : SourceFromStack(idx)
    \/ TypeApply \/ LeftKeyToggle \/ LeftKeyApply \/ RightKeyToggle \/ Cancel
    \/ JoinEnds \/ JoinGoesOn \/ ChainBreaks \/ JoinRefused
    \/ ReturnToSheetBelow \/ OpenTable

JoinSpec == JoinInit /\ [][JoinNext]_joinVars

-----------------------------------------------------------------------------

(* In every screen after the first there is another table to join with,    *)
(* refused attempts, steps back and the links of a chain included: the     *)
(* wizard never reaches "no right-hand table loaded" with keys picked.     *)
OtherTableAtHand ==
    screen \in {"JoinSelectType", "JoinSelectLeftKeys", "JoinSelectRightKeys"} => other # Nothing

(* Wherever the user went back to and whatever table was taken meanwhile,  *)
(* the keys shown are columns of the tables that will be joined, none of   *)
(* them twice.                                                             *)
KeysAreColumns ==
    LET keysOf(keys, f) == Names(keys) \subseteq Names(Columns[f]) /\ IsInjective(keys)
    IN  /\ screen \in {"JoinSelectLeftKeys", "JoinSelectRightKeys"} => keysOf(left, Top)
        /\ screen = "JoinSelectRightKeys" => keysOf(right, other)

(* What is still queued are the last of the tables picked for this chain,  *)
(* in the order of the list: none from an abandoned or broken chain, none  *)
(* skipped or moved, and never the two that were joined first.             *)
QueueIsRestOfThisChain ==
    /\ Len(queue) <= (IF Len(chosen) > 2 THEN Len(chosen) - 2 ELSE 0)
    /\ queue = SubSeq(chosen, Len(chosen) - Len(queue) + 1, Len(chosen))

(* Taking a sheet below as the other table takes the table that very sheet *)
(* shows, wherever it is kept, and leaves every sheet as it was.           *)
PeekTakesWhatTheSheetShows ==
    [][\A idx \in DOMAIN sheets :
          SourceFromStack(idx) => other' = Contents[idx] /\ Contents' = Contents]_joinVars
=============================================================================
