----------------------------- MODULE App_proofs -----------------------------
(***************************************************************************)
(* The application, for any tables and a stack of any depth: a load lands  *)
(* in the sheet it was started for, no table dialog stands over a          *)
(* document, no dialog is left over another sheet, and the sheets are used *)
(* only through the operations of the stack.  Then its JOIN wizard.        *)
(***************************************************************************)
EXTENDS App, JoinDialog, SheetStack_proofs, Orders_proofs

ColumnDialogs == {"ExpressionInput", "ColReplacingFind", "ColReplacingReplace",
    "ColSplitting", "WindowFnSelect", "WindowOrderSelect", "WindowDirSelect",
    "PartitionSelect", "RowForm"}

-----------------------------------------------------------------------------
(* The tables of keys and of moves.                                        *)

LEMMA TogetherLookup ==
  ASSUME NEW tables
  PROVE  /\ DOMAIN Together(tables) = UNION {DOMAIN t : t \in tables}
         /\ \A k \in DOMAIN Together(tables) :
               \E t \in tables : k \in DOMAIN t /\ Together(tables)[k] = t[k]
<1>1. DOMAIN Together(tables) = UNION {DOMAIN t : t \in tables}
  BY DEF Together
<1>2. ASSUME NEW k \in DOMAIN Together(tables)
      PROVE  \E t \in tables : k \in DOMAIN t /\ Together(tables)[k] = t[k]
  <2> DEFINE home == CHOOSE t \in tables : k \in DOMAIN t
  <2>1. \E t \in tables : k \in DOMAIN t
    BY <1>1
  <2>2. home \in tables /\ k \in DOMAIN home
    BY <2>1
  <2>3. Together(tables)[k] = home[k]
    BY <1>1 DEF Together
  <2> QED BY <2>2, <2>3
<1> QED BY <1>1, <1>2

\* Where the keys are that the proofs ask about, and what a waiting screen takes.
InPlace(m, K) ==
    /\ "ReloadFile" \in K => m = "Normal"
    /\ "OpenRow" \in K => m = "Normal"
    /\ "DescribeSheet" \in K => m = "Normal"
    /\ "CreateSheetFromSelection" \in K => m = "Normal"
    /\ "OpenCell" \in K => m = "ZPrefix"
    /\ "ColFindConfirm" \in K => m = "ColReplacingFind"
    /\ "ApplyWindowFnSelect" \in K => m = "WindowFnSelect"
    /\ "ApplyWindowOrderSelect" \in K => m = "WindowOrderSelect"
    /\ "ApplyWindowDirSelect" \in K => m = "WindowDirSelect"
    /\ m = "Loading" => K = {"Ignore"}

LEMMA KeysInPlace == \A m \in Modes : InPlace(m, Keys[m].keys)
<1>1. \A m \in DOMAIN [Normal |-> NormalKeys] : InPlace(m, [Normal |-> NormalKeys][m].keys)
  BY DEF NormalKeys, On, InPlace
<1>2. \A m \in DOMAIN PromptKeys : InPlace(m, PromptKeys[m].keys)
  BY DEF PromptKeys, On, InPlace
<1>3. \A m \in DOMAIN WaitKeys : InPlace(m, WaitKeys[m].keys)
  BY DEF WaitKeys, On, InPlace
<1>4. \A m \in DOMAIN GotoKeys : InPlace(m, GotoKeys[m].keys)
  BY DEF GotoKeys, On, InPlace
<1>5. \A m \in DOMAIN SaveKeys : InPlace(m, SaveKeys[m].keys)
  BY DEF SaveKeys, On, InPlace
<1>6. \A m \in DOMAIN ColumnKeys : InPlace(m, ColumnKeys[m].keys)
  BY DEF ColumnKeys, On, InPlace
<1>7. \A m \in DOMAIN PickKeys : InPlace(m, PickKeys[m].keys)
  BY DEF PickKeys, On, InPlace
<1>8. \A m \in DOMAIN NameAndCopyKeys : InPlace(m, NameAndCopyKeys[m].keys)
  BY DEF NameAndCopyKeys, On, InPlace
<1>9. \A m \in DOMAIN JoinKeys : InPlace(m, JoinKeys[m].keys)
  BY DEF JoinKeys, On, InPlace
<1> DEFINE tables == {[Normal |-> NormalKeys], PromptKeys, WaitKeys, GotoKeys, SaveKeys,
                      ColumnKeys, PickKeys, NameAndCopyKeys, JoinKeys}
<1>10. \A t \in tables : \A m \in DOMAIN t : InPlace(m, t[m].keys)
  BY <1>1, <1>2, <1>3, <1>4, <1>5, <1>6, <1>7, <1>8, <1>9
<1>11. Keys = Together(tables)
  BY DEF Keys
<1> HIDE DEF tables
<1> QED BY <1>10, <1>11, TogetherLookup DEF Modes

ModeNames == {
    "Normal", "PivotTableInput", "ChartAggSelect", "Searching",
    "SelectByRegex", "ExpressionInput", "TypeSelect", "CurrencySelect",
    "Editing", "Loading", "Calculating", "AggregatorSelect", "Saving", "Chart",
    "GPrefix", "QueryInput", "PathInput", "DocSearching", "SqlConfirm",
    "TableNameInput", "RowForm", "SaveShapeSelect", "OpenAsSelect", "ZPrefix",
    "ColReplacingFind", "ColReplacingReplace", "ColSplitting", "ColumnMove",
    "SPrefix", "SelectRandomInput", "DedupTiebreakerSelect", "BulkEditing",
    "WindowFnSelect", "WindowOrderSelect", "WindowDirSelect",
    "PartitionSelect", "RenamingColumn", "InsertingColumn", "ConfirmQuit",
    "YPrefix", "CopyFormatSelect", "Help", "JoinSelectSource", "JoinInputPath",
    "JoinSelectType", "JoinSelectLeftKeys", "JoinSelectRightKeys",
    "JoinOverviewSelect"}

LEMMA AllModes == ModeNames \subseteq Modes
<1> DEFINE tables == {[Normal |-> NormalKeys], PromptKeys, WaitKeys, GotoKeys, SaveKeys,
                      ColumnKeys, PickKeys, NameAndCopyKeys, JoinKeys}
<1>1. DOMAIN Keys = UNION {DOMAIN t : t \in tables}
  BY TogetherLookup DEF Keys
<1>2. \A t \in tables : DOMAIN t \subseteq Modes
  BY <1>1 DEF Modes
<1>3. /\ DOMAIN [Normal |-> NormalKeys] \subseteq Modes
      /\ DOMAIN PromptKeys \subseteq Modes /\ DOMAIN WaitKeys \subseteq Modes
      /\ DOMAIN GotoKeys \subseteq Modes /\ DOMAIN SaveKeys \subseteq Modes
      /\ DOMAIN ColumnKeys \subseteq Modes /\ DOMAIN PickKeys \subseteq Modes
      /\ DOMAIN NameAndCopyKeys \subseteq Modes /\ DOMAIN JoinKeys \subseteq Modes
  BY <1>2
<1> QED BY <1>3 DEF ModeNames, PromptKeys, WaitKeys, GotoKeys, SaveKeys, ColumnKeys,
            PickKeys, NameAndCopyKeys, JoinKeys

\* Where a command that only moves between modes may end.
Sensible(k, modes) ==
    /\ modes \subseteq ModeNames \cup {"Stay"}
    /\ "Loading" \notin modes /\ "Calculating" \notin modes
    /\ modes \cap ColumnDialogs # {} => k \in NotOnDocs \cup {"ColFindConfirm"}
    /\ k = "Ignore" => modes = Stay

LEMMA MovesSensible == \A k \in DOMAIN Moves : Sensible(k, Moves[k])
<1>1. \A k \in DOMAIN SearchMoves : Sensible(k, SearchMoves[k])
  BY DEF SearchMoves, To, Stay, Sensible, ModeNames, ColumnDialogs, NotOnDocs
<1>2. \A k \in DOMAIN ExpressionMoves : Sensible(k, ExpressionMoves[k])
  BY DEF ExpressionMoves, To, Stay, Sensible, ModeNames, ColumnDialogs, NotOnDocs
<1>3. \A k \in DOMAIN PrefixMoves : Sensible(k, PrefixMoves[k])
  BY DEF PrefixMoves, To, Stay, Sensible, ModeNames, ColumnDialogs, NotOnDocs
<1>4. \A k \in DOMAIN ColumnMoves : Sensible(k, ColumnMoves[k])
  BY DEF ColumnMoves, To, Stay, Sensible, ModeNames, ColumnDialogs, NotOnDocs
<1>5. \A k \in DOMAIN ColumnTextMoves : Sensible(k, ColumnTextMoves[k])
  BY DEF ColumnTextMoves, To, Stay, Sensible, ModeNames, ColumnDialogs, NotOnDocs
<1>6. \A k \in DOMAIN AggregatorMoves : Sensible(k, AggregatorMoves[k])
  BY DEF AggregatorMoves, To, Stay, Sensible, ModeNames, ColumnDialogs, NotOnDocs
<1>7. \A k \in DOMAIN EditMoves : Sensible(k, EditMoves[k])
  BY DEF EditMoves, To, Stay, Sensible, ModeNames, ColumnDialogs, NotOnDocs
<1>8. \A k \in DOMAIN TypeMoves : Sensible(k, TypeMoves[k])
  BY DEF TypeMoves, To, Stay, Sensible, ModeNames, ColumnDialogs, NotOnDocs
<1>9. \A k \in DOMAIN ClipboardMoves : Sensible(k, ClipboardMoves[k])
  BY DEF ClipboardMoves, To, Stay, Sensible, ModeNames, ColumnDialogs, NotOnDocs
<1>10. \A k \in DOMAIN SaveMoves : Sensible(k, SaveMoves[k])
  BY DEF SaveMoves, To, Stay, Sensible, ModeNames, ColumnDialogs, NotOnDocs
<1>11. \A k \in DOMAIN PlanMoves : Sensible(k, PlanMoves[k])
  BY DEF PlanMoves, To, Stay, Sensible, ModeNames, ColumnDialogs, NotOnDocs
<1>12. \A k \in DOMAIN PivotMoves : Sensible(k, PivotMoves[k])
  BY DEF PivotMoves, To, Stay, Sensible, ModeNames, ColumnDialogs, NotOnDocs
<1>13. \A k \in DOMAIN RowFormMoves : Sensible(k, RowFormMoves[k])
  BY DEF RowFormMoves, To, Stay, Sensible, ModeNames, ColumnDialogs, NotOnDocs
<1>14. \A k \in DOMAIN SelectionMoves : Sensible(k, SelectionMoves[k])
  BY DEF SelectionMoves, To, Stay, Sensible, ModeNames, ColumnDialogs, NotOnDocs
<1>15. \A k \in DOMAIN DedupMoves : Sensible(k, DedupMoves[k])
  BY DEF DedupMoves, To, Stay, Sensible, ModeNames, ColumnDialogs, NotOnDocs
<1>16. \A k \in DOMAIN DocMoves : Sensible(k, DocMoves[k])
  BY DEF DocMoves, To, Stay, Sensible, ModeNames, ColumnDialogs, NotOnDocs
<1>17. \A k \in DOMAIN SortMoves : Sensible(k, SortMoves[k])
  BY DEF SortMoves, To, Stay, Sensible, ModeNames, ColumnDialogs, NotOnDocs
<1>18. \A k \in DOMAIN JoinMoves : Sensible(k, JoinMoves[k])
  BY DEF JoinMoves, To, Stay, Sensible, ModeNames, ColumnDialogs, NotOnDocs
<1> DEFINE tables == {
    SearchMoves, ExpressionMoves, PrefixMoves, ColumnMoves, ColumnTextMoves,
    AggregatorMoves, EditMoves, TypeMoves, ClipboardMoves, SaveMoves,
    PlanMoves, PivotMoves, RowFormMoves, SelectionMoves, DedupMoves,
    DocMoves, SortMoves, JoinMoves}
<1>19. \A t \in tables : \A k \in DOMAIN t : Sensible(k, t[k])
  BY <1>1, <1>2, <1>3, <1>4, <1>5, <1>6, <1>7, <1>8, <1>9, <1>10, <1>11, <1>12, <1>13,
     <1>14, <1>15, <1>16, <1>17, <1>18
<1>20. Moves = Together(tables)
  BY DEF Moves
<1> HIDE DEF tables
<1> QED BY <1>19, <1>20, TogetherLookup

-----------------------------------------------------------------------------
(* The stack under the application.                                        *)

LEMMA KindOf ==
  ASSUME NEW f \in Frames, NEW g \in SameKind(f) \cup {f}
  PROVE  g \in Frames /\ (g \in Docs <=> f \in Docs)
BY KindsAssumption DEF SameKind, Tables

\* What each operation of the stack does to the active sheet.
LEMMA AsIsEffect == StackAsIs => UNCHANGED <<Depth, Top, OnDoc>>
BY DEF StackAsIs, Depth, Top, OnDoc

LEMMA WriteEffect ==
  ASSUME IInv, NEW f \in Frames, Write(f)
  PROVE  Depth' = Depth /\ Top' = f /\ (OnDoc' <=> f \in Docs)
<1>1. sheets' = [sheets EXCEPT ![Len(sheets)] = f]
      /\ sheets \in Seq(Frames \cup {Placeholder}) /\ Len(sheets) \in Nat \ {0}
  BY TopIsFrame DEF Write, IInv, TypeOK
<1>2. Len(sheets') = Len(sheets) /\ sheets'[Len(sheets)] = f
  BY <1>1
<1> QED BY <1>2 DEF Depth, Top, OnDoc

LEMMA PushDeepens ==
  ASSUME IInv, NEW f \in Frames, Push(f)
  PROVE  Depth' = Depth + 1
<1>1. sheets' = Append([sheets EXCEPT ![Len(sheets)] = Placeholder], f)
  BY PushEffect
<1> QED BY <1>1 DEF Depth, IInv, TypeOK

LEMMA PopRises ==
  ASSUME IInv, Pop
  PROVE  /\ Depth' = Depth - 1 /\ Depth - 1 \in Nat \ {0}
         /\ files[Depth - 1] \in Frames
<1> DEFINE top == Len(sheets) - 1
           lower == SubSeq(sheets, 1, top)
<1>1. top \in Nat \ {0} /\ top \in swapped /\ sheets' = [lower EXCEPT ![top] = files[top]]
  BY PopEffect
<1>2. sheets \in Seq(Frames \cup {Placeholder}) /\ files[top] \in Frames
  BY <1>1 DEF IInv, TypeOK
<1>3. lower \in Seq(Frames \cup {Placeholder}) /\ Len(lower) = top
  <2>1. \A i \in 1 .. top : sheets[i] \in Frames \cup {Placeholder}
    BY <1>1, <1>2
  <2> HIDE DEF top
  <2> QED BY <1>1, <2>1, SubSeqProperties
<1> HIDE DEF lower
<1>4. Len(sheets') = top
  BY <1>1, <1>2, <1>3
<1> QED BY <1>1, <1>2, <1>4 DEF Depth

LEMMA StackStep ==
  ASSUME IInv, [AppNext]_appVars
  PROVE  [Next]_vars
<1>1. MaxDepth \in Nat /\ MaxDepth + 1 \in 1 .. MaxDepth + 1 /\ Top \in Frames
  BY TopIsFrame, MaxDepthAssumption
<1>2. ASSUME StackAsIs PROVE Next
  BY <1>1, <1>2, AsIsIsPeek DEF Next
<1>3. ASSUME NEW f \in Frames, Write(f) PROVE Next
  BY <1>3 DEF Next
<1>4. ASSUME NEW f \in Frames, PushSheet(f) PROVE Next
  BY <1>4 DEF PushSheet, Next
<1>5. \A f \in SameKind(Top) \cup {Top} : f \in Frames
  BY <1>1, KindOf
<1>6. Tables \subseteq Frames /\ Blank \in Frames
  BY BlankAssumption DEF Tables
<1>7. ASSUME NEW k, \/ Command(k) \/ Reject(k) \/ IndexMissingColumn(k)
                    \/ WindowDialog(k) \/ Chart(k) \/ Defer(k)
      PROVE  Next
  BY <1>2, <1>7 DEF Command, Reject, IndexMissingColumn, WindowDialog, Chart, Defer
<1>8. ASSUME NEW k, Widen(k) \/ Replace(k) PROVE Next
  BY <1>2, <1>3, <1>5, <1>8 DEF Widen, Replace
<1>9. ASSUME NEW k, Dive(k) PROVE Next
  BY <1>4, <1>5, <1>9 DEF Dive, OpensAs
<1>10. ASSUME DeleteColumn \/ TransposeTable PROVE Next
  BY <1>2, <1>3, <1>5, <1>10 DEF DeleteColumn, TransposeTable
<1>11. ASSUME \/ MoveLeft \/ MoveRight \/ AskToQuit \/ ConfirmQuitYes
              \/ MoveColumn("MoveColumnLeft", -1) \/ MoveColumn("MoveColumnRight", 1)
       PROVE  Next
  BY <1>2, <1>11 DEF MoveLeft, MoveRight, AskToQuit, ConfirmQuitYes, MoveColumn
<1>12. ASSUME ChartDrillDown \/ PopSheet PROVE Next
  BY <1>1, <1>4, <1>12 DEF ChartDrillDown, PopSheet, Next
<1>13. ASSUME ReloadNow \/ ReloadInBackground PROVE Next
  BY <1>3, <1>5, <1>6, <1>13 DEF ReloadNow, ReloadInBackground, ReadAgainAs
<1>14. ASSUME RunPending PROVE Next
  BY <1>2, <1>4, <1>6, <1>14 DEF RunPending
<1>15. ASSUME Poll PROVE Next
  BY <1>2, <1>3, <1>15 DEF Poll
<1>16. CASE LoaderEnds \/ Leave \/ UNCHANGED appVars
  BY <1>16 DEF LoaderEnds, Leave, appVars
<1> QED BY <1>7, <1>8, <1>9, <1>10, <1>11, <1>12, <1>13, <1>14, <1>15, <1>16
        DEF AppNext, KeyStep

-----------------------------------------------------------------------------
(* The invariant.                                                          *)

(* That a load waits in its own sheet holds because no key but Ignore is   *)
(* taken meanwhile, and that no command runs beside a parked one because   *)
(* Calculating takes none: both need the whole of AppTypeOK.               *)
AppInv ==
    /\ IInv
    /\ AppTypeOK
    /\ LoadLandsWhereStarted
    /\ TableDialogsNeverOverADocument

Loads == [state : {"none", "running", "done", "failed", "gone"}, sheet : 0 .. MaxDepth]

LEMMA KeyFacts ==
  ASSUME AppInv, NEW k, Key(k)
  PROVE  /\ running = "yes" /\ mode \in Modes \ {"Calculating"} /\ pending = None
         /\ InPlace(mode, Keys[mode].keys) /\ k \in Keys[mode].keys
         /\ k # "Ignore" => load.state = "none"
<1>1. /\ running = "yes" /\ mode \in Modes \ {"Calculating"} /\ pending = None
      /\ k \in Keys[mode].keys
  BY DEF AppInv, AppTypeOK, Key
<1>2. InPlace(mode, Keys[mode].keys)
  BY <1>1, KeysInPlace
<1>3. k # "Ignore" => mode # "Loading"
  BY <1>1, <1>2 DEF InPlace
<1> QED BY <1>1, <1>2, <1>3 DEF AppInv, LoadLandsWhereStarted

\* A step after which nothing is loaded or parked keeps the invariant if it
\* keeps the types and brings no document under a dialog.
LEMMA Settles ==
  ASSUME AppInv, IInv', load' \in Loads, load'.state = "none", pending' = None,
         leaving' \in BOOLEAN, chart' \in BOOLEAN, armed' \in BOOLEAN,
         running' \in {"yes", "quit", "panic"},
         cursor' \in Seq(Nat \ {0}), Len(cursor') = Depth',
         mode' \in Modes, running' = "yes" => mode' # "Calculating",
         mode' \in ColumnDialogs => ~OnDoc'
  PROVE  AppInv'
<1>1. TypeOK'
  BY DEF IInv
<1>2. None = "none" /\ "none" \notin Deferred
  BY DEF None, Deferred
<1>3. AppTypeOK'
  BY <1>1, <1>2 DEF AppTypeOK, Loads
<1>4. LoadLandsWhereStarted'
  BY DEF LoadLandsWhereStarted
<1>5. TableDialogsNeverOverADocument'
  BY DEF TableDialogsNeverOverADocument, ColumnDialogs
<1> QED BY <1>3, <1>4, <1>5 DEF AppInv

\* Typical ends of a command.
LEMMA Types ==
  ASSUME AppInv
  PROVE  /\ IInv /\ load \in Loads /\ leaving \in BOOLEAN /\ chart \in BOOLEAN
         /\ armed \in BOOLEAN /\ running \in {"yes", "quit", "panic"}
         /\ cursor \in Seq(Nat \ {0}) /\ Len(cursor) = Depth
         /\ Depth \in Nat \ {0} /\ cursor[Depth] \in Nat \ {0}
         /\ Top \in Frames /\ mode \in Modes
         /\ mode \in ColumnDialogs => ~OnDoc
         /\ "Normal" \in Modes
BY TopIsFrame, AllModes
   DEF AppInv, AppTypeOK, Loads, TableDialogsNeverOverADocument, ColumnDialogs, ModeNames

LEMMA NormalIsNoDialog ==
  /\ "Normal" \notin ColumnDialogs /\ "Normal" # "Calculating"
  /\ ModeNames \subseteq Modes
BY AllModes DEF ColumnDialogs

LEMMA Changed ==
  ASSUME NEW T, NEW s \in Seq(T), NEW i \in 1 .. Len(s), NEW c \in T
  PROVE  [s EXCEPT ![i] = c] \in Seq(T) /\ Len([s EXCEPT ![i] = c]) = Len(s)
<1> DEFINE n == Len(s)
           r == [s EXCEPT ![i] = c]
<1>1. n \in Nat /\ s \in [1 .. n -> T]
  OBVIOUS
<1>2. r \in [1 .. n -> T]
  <2> HIDE DEF n
  <2> QED BY <1>1
<1>3. r \in Seq(T) /\ Len(r) = n
  <2> HIDE DEF r, n
  <2> QED BY <1>1, <1>2
<1> QED BY <1>3

LEMMA Placed ==
  ASSUME AppInv, NEW c \in Nat \ {0}, Place(c), Depth' = Depth
  PROVE  cursor' \in Seq(Nat \ {0}) /\ Len(cursor') = Depth'
<1> DEFINE moved == [cursor EXCEPT ![Depth] = c]
<1>1. cursor \in Seq(Nat \ {0}) /\ Len(cursor) = Depth
  BY Types
<1>2. moved \in Seq(Nat \ {0}) /\ Len(moved) = Len(cursor)
  <2>1. Depth \in 1 .. Len(cursor)
    BY <1>1, Types
  <2> HIDE DEF Depth
  <2> QED BY <1>1, <2>1, Changed
<1>3. cursor' = moved
  BY DEF Place
<1> QED BY <1>1, <1>2, <1>3

LEMMA Widths == \A f \in Frames : Width[f] \in Nat
BY WidthAssumption

LEMMA CommandKeeps ==
  ASSUME AppInv, IInv', NEW k, Command(k)
  PROVE  AppInv'
<1>1. /\ Key(k) /\ ~Misplaced(k) /\ k \in DOMAIN Moves /\ GoTo(Moves[k])
      /\ UNCHANGED <<uiVars, leaving>> /\ UNCHANGED <<Depth, Top, OnDoc>>
  BY AsIsEffect DEF Command, Works
<1>2. Sensible(k, Moves[k])
  BY <1>1, MovesSensible
<1>3. PICK m \in Moves[k] : mode' = IF m = "Stay" THEN mode ELSE m
  BY <1>1 DEF GoTo
<1>4. /\ running = "yes" /\ mode \in Modes \ {"Calculating"} /\ pending = None
      /\ InPlace(mode, Keys[mode].keys) /\ k \in Keys[mode].keys
      /\ k # "Ignore" => load.state = "none"
  BY <1>1, KeyFacts
<1>5. mode' \in Modes \ {"Calculating"}
  BY <1>2, <1>3, <1>4, AllModes DEF Sensible
<1>6. mode' \in ColumnDialogs => ~OnDoc'
  <2> SUFFICES ASSUME mode' \in ColumnDialogs PROVE ~OnDoc
    BY <1>1
  <2>1. CASE m = "Stay"
    BY <1>3, <2>1, Types
  <2>2. CASE m # "Stay"
    <3>1. k \in NotOnDocs \cup {"ColFindConfirm"}
      BY <1>2, <1>3, <2>2 DEF Sensible
    <3>2. CASE k \in NotOnDocs
      BY <1>1, <3>2 DEF Misplaced
    <3>3. CASE k = "ColFindConfirm"
      <4>1. mode \in ColumnDialogs
        BY <1>4, <3>3 DEF InPlace, ColumnDialogs
      <4> QED BY <4>1, Types
    <3> QED BY <3>1, <3>2, <3>3
  <2> QED BY <2>1, <2>2
<1>7. CASE k # "Ignore"
  BY <1>1, <1>4, <1>5, <1>6, <1>7, Types, Settles DEF uiVars
<1>8. CASE k = "Ignore"
  <2>1. mode' = mode
    BY <1>2, <1>3, <1>8 DEF Sensible, Stay
  <2>2. TypeOK'
    BY DEF IInv
  <2> QED BY <1>1, <2>1, <2>2
          DEF AppInv, AppTypeOK, LoadLandsWhereStarted, TableDialogsNeverOverADocument, uiVars
<1> QED BY <1>7, <1>8

LEMMA RejectKeeps ==
  ASSUME AppInv, IInv', NEW k, Reject(k) \/ IndexMissingColumn(k)
  PROVE  AppInv'
<1>1. /\ Key(k) /\ (Misplaced(k) \/ Indexes(k))
      /\ mode' \in {"Normal", mode} /\ running' \in {running, "panic"}
      /\ UNCHANGED <<pending, load, cursor, chart, armed, leaving>>
      /\ UNCHANGED <<Depth, Top, OnDoc>>
  BY AsIsEffect DEF Reject, IndexMissingColumn, uiVars
<1>2. k # "Ignore"
  BY <1>1 DEF Misplaced, NotOnDocs, OnlyOnDocs, Indexes, IndexingKeys
<1>3. /\ mode \in Modes \ {"Calculating"} /\ pending = None /\ load.state = "none"
  BY <1>1, <1>2, KeyFacts
<1> QED BY <1>1, <1>3, Types, NormalIsNoDialog, Settles

\* MoveLeft, MoveRight, and the column moved with them.
LEMMA MoveKeeps ==
  ASSUME AppInv, IInv',
         \/ MoveLeft \/ MoveRight
         \/ MoveColumn("MoveColumnLeft", -1) \/ MoveColumn("MoveColumnRight", 1)
  PROVE  AppInv'
<1>1. \E k : k # "Ignore" /\ Key(k)
  BY DEF MoveLeft, MoveRight, MoveColumn, Works
<1>2. /\ mode \in Modes \ {"Calculating"} /\ pending = None /\ load.state = "none"
  BY <1>1, KeyFacts
<1>3. /\ UNCHANGED <<Depth, Top, OnDoc>> /\ mode' \in {mode, "ColumnMove"}
      /\ UNCHANGED <<pending, load, chart, armed, running, leaving>>
  BY AsIsEffect DEF MoveLeft, MoveRight, MoveColumn
<1>4. Width[Top] \in Nat /\ cursor[Depth] \in Nat \ {0}
  BY Types, Widths
<1>5. \/ UNCHANGED cursor
      \/ \E c \in Nat \ {0} : Place(c)
  BY <1>4 DEF MoveLeft, MoveRight, MoveColumn
<1>6. cursor' \in Seq(Nat \ {0}) /\ Len(cursor') = Depth'
  BY <1>3, <1>5, Types, Placed
<1>7. "ColumnMove" \in Modes /\ "ColumnMove" \notin ColumnDialogs
  BY AllModes DEF ModeNames, ColumnDialogs
<1> QED BY <1>2, <1>3, <1>6, <1>7, Types, Settles

LEMMA ClampedType ==
  ASSUME AppInv, NEW f \in Frames
  PROVE  Clamped(f) \in Nat \ {0} /\ Within(cursor[Depth], Width[f]) \in Nat \ {0}
BY Types, Widths DEF Clamped, Within

\* Commands that put another table of the same kind in the place of this one.
LEMMA ReshapeKeeps ==
  ASSUME AppInv, IInv', NEW k, Widen(k) \/ Replace(k) \/ DeleteColumn \/ TransposeTable
  PROVE  AppInv'
<1>1. PICK q : q # "Ignore" /\ Key(q)
  BY DEF Widen, Replace, DeleteColumn, TransposeTable, Works
<1>2. /\ mode \in Modes \ {"Calculating"} /\ pending = None /\ load.state = "none"
  BY <1>1, KeyFacts
<1>3. /\ UNCHANGED <<pending, load, chart, running, leaving>>
      /\ mode' \in {mode, "Normal", "Saving"} /\ armed' \in BOOLEAN
  BY Types DEF Widen, Replace, DeleteColumn, TransposeTable, GoTo, Stay
<1>4. \/ StackAsIs
      \/ \E f \in SameKind(Top) \cup {Top} : Write(f)
  BY DEF Widen, Replace, DeleteColumn, TransposeTable
<1>5. Depth' = Depth /\ (OnDoc' <=> OnDoc)
  <2>1. CASE StackAsIs
    BY <2>1, AsIsEffect
  <2>2. ASSUME NEW f \in SameKind(Top) \cup {Top}, Write(f)
        PROVE  Depth' = Depth /\ (OnDoc' <=> OnDoc)
    BY <2>2, KindOf, Types, WriteEffect DEF OnDoc
  <2> QED BY <1>4, <2>1, <2>2
<1>6. \/ UNCHANGED cursor
      \/ \E c \in Nat \ {0} : Place(c)
  <2>1. \A f \in SameKind(Top) \cup {Top} :
           Clamped(f) \in Nat \ {0} /\ Within(cursor[Depth], Width[f]) \in Nat \ {0}
    BY KindOf, ClampedType, Types
  <2>2. CASE Widen(k)
    BY <2>2 DEF Widen
  <2>3. CASE Replace(k)
    BY <2>1, <2>3 DEF Replace
  <2>4. CASE DeleteColumn
    BY <2>1, <2>4 DEF DeleteColumn
  <2>5. CASE TransposeTable
    BY <2>5 DEF TransposeTable
  <2> QED BY <2>2, <2>3, <2>4, <2>5
<1>7. cursor' \in Seq(Nat \ {0}) /\ Len(cursor') = Depth'
  BY <1>5, <1>6, Types, Placed
<1>8. {"Normal", "Saving"} \subseteq Modes \ {"Calculating"}
      /\ "Normal" \notin ColumnDialogs /\ "Saving" \notin ColumnDialogs
  BY AllModes DEF ModeNames, ColumnDialogs
<1> QED BY <1>2, <1>3, <1>5, <1>7, <1>8, Types, Settles

LEMMA WindowKeeps ==
  ASSUME AppInv, IInv', NEW k, WindowDialog(k)
  PROVE  AppInv'
<1>1. Key(k) /\ ~Misplaced(k)
      /\ k \in {"OpenWindowFnSelect", "CancelWindowFnSelect", "ApplyWindowFnSelect",
                "ApplyWindowOrderSelect", "ApplyWindowDirSelect", "CancelWindowOrderSelect",
                "CancelWindowDirSelect", "CancelPartitionSelect", "OpenPartitionSelect"}
  BY DEF WindowDialog, Works
<1>2. /\ mode \in Modes \ {"Calculating"} /\ pending = None /\ load.state = "none"
      /\ InPlace(mode, Keys[mode].keys) /\ k \in Keys[mode].keys
  BY <1>1, KeyFacts
<1>3. /\ UNCHANGED <<Depth, Top, OnDoc>> /\ armed' \in BOOLEAN
      /\ UNCHANGED <<cursor, pending, load, chart, running, leaving>>
      /\ mode' \in {mode, "Normal", "WindowFnSelect", "WindowOrderSelect",
                    "WindowDirSelect", "PartitionSelect"}
  BY AsIsEffect, Types DEF WindowDialog, OpenPartitionPicker, GoTo
<1>4. {"Normal", "WindowFnSelect", "WindowOrderSelect", "WindowDirSelect",
       "PartitionSelect"} \subseteq Modes \ {"Calculating"}
  BY AllModes DEF ModeNames
<1>5. mode' \in ColumnDialogs => ~OnDoc
  <2>1. CASE k \in {"OpenWindowFnSelect", "OpenPartitionSelect"}
    BY <1>1, <2>1 DEF Misplaced, NotOnDocs
  <2>2. CASE k \in {"ApplyWindowFnSelect", "ApplyWindowOrderSelect", "ApplyWindowDirSelect"}
    <3>1. mode \in ColumnDialogs
      BY <1>2, <2>2 DEF InPlace, ColumnDialogs
    <3> QED BY <3>1, Types
  <2>3. CASE k \in {"CancelWindowFnSelect", "CancelWindowOrderSelect",
                    "CancelWindowDirSelect", "CancelPartitionSelect"}
    <3>1. mode' = "Normal"
      BY <2>3 DEF WindowDialog
    <3> QED BY <3>1, NormalIsNoDialog
  <2> QED BY <1>1, <2>1, <2>2, <2>3
<1> QED BY <1>2, <1>3, <1>4, <1>5, Types, Settles

\* A pushed sheet has a cursor of its own.
LEMMA PushedCursor ==
  ASSUME AppInv, NEW f \in Frames, PushSheet(f)
  PROVE  Depth' = Depth + 1 /\ cursor' \in Seq(Nat \ {0}) /\ Len(cursor') = Depth'
<1>1. Depth' = Depth + 1
  BY Types, PushDeepens DEF PushSheet
<1>2. cursor' = Append(cursor, 1) /\ cursor \in Seq(Nat \ {0}) /\ Len(cursor) = Depth
      /\ 1 \in Nat \ {0}
  BY Types DEF PushSheet
<1>3. cursor' \in Seq(Nat \ {0}) /\ Len(cursor') = Len(cursor) + 1
  BY <1>2, AppendProperties
<1> QED BY <1>1, <1>2, <1>3

LEMMA DiveEnds ==
  ASSUME AppInv, NEW k, Dive(k)
  PROVE  /\ mode' \in {"Normal", "ZPrefix", "JoinSelectType"}
         /\ k # "Ignore" /\ Key(k)
         /\ \E f \in Frames : PushSheet(f)
         /\ UNCHANGED <<pending, load, chart, armed, running, leaving>>
<1>1. /\ k \in DiveKeys /\ Key(k) /\ GoTo(Dives(k).modes)
      /\ UNCHANGED <<pending, load, chart, armed, running, leaving>>
  BY DEF Dive, Works
<1>2. InPlace(mode, Keys[mode].keys) /\ k \in Keys[mode].keys
  BY <1>1, KeyFacts
<1>3. \E f \in Frames : PushSheet(f)
  BY Types, KindOf DEF Dive, OpensAs
<1>4. CASE k \in {"OpenRow", "OpenCell", "DescribeSheet", "CreateSheetFromSelection"}
  <2>1. mode \in {"Normal", "ZPrefix"}
    BY <1>2, <1>4 DEF InPlace
  <2>2. Dives(k).modes = Stay
    BY <1>4 DEF Dives
  <2>3. mode' = mode
    BY <1>1, <2>2 DEF GoTo, Stay
  <2> QED BY <1>1, <1>3, <1>4, <2>1, <2>3
<1>5. CASE k \in {"ApplyQuery", "ApplyDocSearch", "ApplyPathGoto", "ApplyOpenAs",
                  "JoinOverviewApply", "JoinRightKeyApply"}
  <2>1. Dives(k).modes \subseteq {"Normal", "JoinSelectType"}
    BY <1>5 DEF Dives, To
  <2>2. mode' \in {"Normal", "JoinSelectType"}
    BY <1>1, <2>1 DEF GoTo
  <2> QED BY <1>1, <1>3, <1>5, <2>2
<1> QED BY <1>1, <1>4, <1>5 DEF DiveKeys

LEMMA DiveKeeps ==
  ASSUME AppInv, IInv', NEW k, Dive(k)
  PROVE  AppInv'
<1>1. /\ mode' \in {"Normal", "ZPrefix", "JoinSelectType"}
      /\ k # "Ignore" /\ Key(k)
      /\ UNCHANGED <<pending, load, chart, armed, running, leaving>>
  BY DiveEnds
<1>2. pending = None /\ load.state = "none"
  BY <1>1, KeyFacts
<1>3. cursor' \in Seq(Nat \ {0}) /\ Len(cursor') = Depth'
  BY DiveEnds, PushedCursor
<1>4. {"Normal", "ZPrefix", "JoinSelectType"} \subseteq Modes \ {"Calculating"}
      /\ {"Normal", "ZPrefix", "JoinSelectType"} \cap ColumnDialogs = {}
  BY AllModes DEF ModeNames, ColumnDialogs
<1> QED BY <1>1, <1>2, <1>3, <1>4, Types, Settles

LEMMA ChartKeeps ==
  ASSUME AppInv, IInv', NEW k, Chart(k)
  PROVE  AppInv'
<1>1. /\ Key(k) /\ k # "Ignore" /\ mode' \in {"Normal", "Chart", "ChartAggSelect"}
      /\ UNCHANGED <<uiVars, leaving>> /\ UNCHANGED <<Depth, Top, OnDoc>>
  BY AsIsEffect DEF Chart, Works
<1>2. pending = None /\ load.state = "none"
  BY <1>1, KeyFacts
<1>3. {"Normal", "Chart", "ChartAggSelect"} \subseteq Modes \ {"Calculating"}
      /\ {"Normal", "Chart", "ChartAggSelect"} \cap ColumnDialogs = {}
  BY AllModes DEF ModeNames, ColumnDialogs
<1> QED BY <1>1, <1>2, <1>3, Types, Settles DEF uiVars

LEMMA DrillDownKeeps ==
  ASSUME AppInv, IInv', ChartDrillDown
  PROVE  AppInv'
<1>1. /\ Key("ChartDrillDown") /\ PushSheet(Top) /\ mode' = "Normal" /\ chart' = TRUE
      /\ UNCHANGED <<pending, load, armed, running, leaving>>
  BY DEF ChartDrillDown, Works
<1>2. pending = None /\ load.state = "none"
  BY <1>1, KeyFacts
<1>3. cursor' \in Seq(Nat \ {0}) /\ Len(cursor') = Depth'
  BY <1>1, Types, PushedCursor
<1> QED BY <1>1, <1>2, <1>3, Types, NormalIsNoDialog, Settles

LEMMA PopKeeps ==
  ASSUME AppInv, IInv', PopSheet
  PROVE  AppInv'
<1> DEFINE under == Depth - 1
           w == Width[files[under]]
           col == IF files[under] \in Docs THEN Within(cursor[under], w) ELSE cursor[under]
           short == SubSeq(cursor, 1, under)
<1>1. /\ Key("PopSheet") /\ Pop
      /\ cursor' = [short EXCEPT ![under] = col]
      /\ load' = IF load.sheet = Depth THEN [load EXCEPT !.sheet = 0] ELSE load
      /\ chart' = FALSE /\ mode' \in {"Normal", "Chart"}
      /\ running' \in {"panic", running}
      /\ UNCHANGED <<pending, armed, leaving>>
  BY DEF PopSheet, Works
<1>2. pending = None /\ load.state = "none" /\ load \in Loads
  BY <1>1, KeyFacts, Types
<1>3. Depth' = under /\ under \in Nat \ {0} /\ files[under] \in Frames
  BY <1>1, Types, PopRises
<1>4. load' \in Loads /\ load'.state = "none"
  BY <1>1, <1>2, MaxDepthAssumption DEF Loads
<1>5. cursor \in Seq(Nat \ {0}) /\ Len(cursor) = under + 1 /\ w \in Nat
  BY <1>3, Types, Widths
<1> HIDE DEF under, w
<1>6. cursor[under] \in Nat \ {0} /\ col \in Nat \ {0}
  BY <1>3, <1>5 DEF Within
<1>7. short \in Seq(Nat \ {0}) /\ Len(short) = under
  <2>1. \A i \in 1 .. under : cursor[i] \in Nat \ {0}
    BY <1>3, <1>5
  <2> QED BY <1>3, <2>1, SubSeqProperties
<1> HIDE DEF short, col
<1>8. cursor' \in Seq(Nat \ {0}) /\ Len(cursor') = under
  <2>1. under \in 1 .. Len(short)
    BY <1>3, <1>7
  <2> QED BY <1>1, <1>6, <1>7, <2>1, Changed
<1>9. "Chart" \in Modes \ ColumnDialogs /\ "Chart" # "Calculating"
  BY AllModes DEF ModeNames, ColumnDialogs
<1> QED BY <1>1, <1>2, <1>3, <1>4, <1>8, <1>9, Types, NormalIsNoDialog, Settles

LEMMA QuitKeeps ==
  ASSUME AppInv, IInv', AskToQuit \/ ConfirmQuitYes
  PROVE  AppInv'
<1>1. \E k : k # "Ignore" /\ Key(k)
  BY DEF AskToQuit, ConfirmQuitYes, Works
<1>2. mode \in Modes \ {"Calculating"} /\ pending = None /\ load.state = "none"
  BY <1>1, KeyFacts
<1>3. /\ mode' \in {mode, "ConfirmQuit"} /\ running' \in {running, "quit"}
      /\ UNCHANGED <<cursor, pending, load, chart, armed, leaving>>
      /\ UNCHANGED <<Depth, Top, OnDoc>>
  BY AsIsEffect DEF AskToQuit, ConfirmQuitYes, uiVars
<1>4. "ConfirmQuit" \in Modes \ ColumnDialogs
  BY AllModes DEF ModeNames, ColumnDialogs
<1> QED BY <1>2, <1>3, <1>4, Types, Settles

LEMMA ReloadNowKeeps ==
  ASSUME AppInv, IInv', ReloadNow
  PROVE  AppInv'
<1>1. Key("ReloadFile") /\ UNCHANGED <<mode, uiVars, leaving>>
  BY DEF ReloadNow, Works
<1>2. pending = None /\ load.state = "none" /\ mode = "Normal"
  BY <1>1, KeyFacts DEF InPlace
<1>3. PICK f \in ReadAgainAs : Write(f)
  BY DEF ReloadNow
<1>4. f \in Frames
  BY <1>3, KindOf, Types DEF ReadAgainAs, Tables
<1>5. Depth' = Depth
  BY <1>3, <1>4, Types, WriteEffect
<1> QED BY <1>1, <1>2, <1>5, Types, NormalIsNoDialog, Settles DEF uiVars

\* The sheet is emptied and waits: nothing is open over it, nothing else runs.
LEMMA ReloadInBackgroundKeeps ==
  ASSUME AppInv, IInv', ReloadInBackground
  PROVE  AppInv'
<1>1. /\ Key("ReloadFile") /\ Write(Blank) /\ mode' = "Loading"
      /\ load' = [state |-> "running", sheet |-> Depth]
      /\ UNCHANGED <<cursor, pending, chart, armed, running, leaving>>
  BY DEF ReloadInBackground, Works
<1>2. pending = None
  BY <1>1, KeyFacts
<1>3. Depth' = Depth /\ Top' = Blank
  BY <1>1, BlankAssumption, Types, WriteEffect
<1>4. "Loading" \in Modes /\ "Loading" \notin ColumnDialogs
  BY AllModes DEF ModeNames, ColumnDialogs
<1>5. Depth \in 0 .. MaxDepth
  BY TopIsFrame, Types
<1>6. TypeOK'
  BY DEF IInv
<1>7. AppTypeOK'
  BY <1>1, <1>2, <1>3, <1>4, <1>5, <1>6, Types DEF AppTypeOK
<1>8. LoadLandsWhereStarted'
  BY <1>1, <1>3 DEF LoadLandsWhereStarted
<1>9. TableDialogsNeverOverADocument'
  BY <1>1 DEF TableDialogsNeverOverADocument
<1> QED BY <1>7, <1>8, <1>9 DEF AppInv

LEMMA DeferKeeps ==
  ASSUME AppInv, IInv', NEW k, Defer(k)
  PROVE  AppInv'
<1>1. /\ Key(k) /\ k \in Deferred /\ mode' = "Calculating" /\ pending' = k
      /\ UNCHANGED <<Depth, Top, OnDoc>>
      /\ UNCHANGED <<cursor, load, chart, armed, running, leaving>>
  BY AsIsEffect DEF Defer, Works
<1>2. k # "Ignore" /\ k # None
  BY <1>1 DEF Deferred, None
<1>3. load.state = "none"
  BY <1>1, <1>2, KeyFacts
<1>4. "Calculating" \in Modes /\ "Calculating" \notin ColumnDialogs
  BY AllModes DEF ModeNames, ColumnDialogs
<1>5. TypeOK'
  BY DEF IInv
<1>6. AppTypeOK'
  BY <1>1, <1>2, <1>4, <1>5, Types DEF AppTypeOK, Loads
<1>7. LoadLandsWhereStarted'
  BY <1>1, <1>3 DEF LoadLandsWhereStarted
<1>8. TableDialogsNeverOverADocument'
  BY <1>1 DEF TableDialogsNeverOverADocument
<1> QED BY <1>6, <1>7, <1>8 DEF AppInv

LEMMA RunPendingKeeps ==
  ASSUME AppInv, IInv', RunPending
  PROVE  AppInv'
<1>1. /\ mode = "Calculating" /\ pending' = None /\ UNCHANGED <<load, chart, armed, leaving>>
      /\ \/ running' = "panic" /\ mode' = mode
         \/ running' = running /\ mode' = "Normal"
  BY DEF RunPending
<1>2. load.state = "none"
  BY <1>1 DEF AppInv, LoadLandsWhereStarted
<1>3. \/ StackAsIs /\ UNCHANGED cursor
      \/ \E f \in Tables : PushSheet(f)
  BY DEF RunPending
<1>4. cursor' \in Seq(Nat \ {0}) /\ Len(cursor') = Depth'
  <2>1. CASE StackAsIs /\ UNCHANGED cursor
    BY <2>1, AsIsEffect, Types
  <2>2. CASE \E f \in Tables : PushSheet(f)
    BY <2>2, PushedCursor DEF Tables
  <2> QED BY <1>3, <2>1, <2>2
<1>5. "Calculating" \in Modes /\ mode' \notin ColumnDialogs
  BY <1>1, AllModes DEF ModeNames, ColumnDialogs
<1> QED BY <1>1, <1>2, <1>4, <1>5, Types, NormalIsNoDialog, Settles

\* The result goes into the active sheet, which is the one that waits for it.
LEMMA PollKeeps ==
  ASSUME AppInv, IInv', Poll
  PROVE  AppInv'
<1>1. /\ running = "yes" /\ load.state # "none" /\ load' = NoLoad /\ mode' = "Normal"
      /\ UNCHANGED <<cursor, pending, chart, armed, running, leaving>>
  BY DEF Poll
<1>2. mode = "Loading"
  BY <1>1 DEF AppInv, LoadLandsWhereStarted
<1>3. pending = None
  BY <1>1, <1>2 DEF AppInv, AppTypeOK
<1>4. StackAsIs \/ \E f \in Frames : Write(f)
  BY DEF Poll
<1>5. Depth' = Depth
  BY <1>4, AsIsEffect, WriteEffect, Types
<1>6. NoLoad \in Loads /\ NoLoad.state = "none"
  BY MaxDepthAssumption DEF NoLoad, Loads
<1> QED BY <1>1, <1>3, <1>5, <1>6, Types, NormalIsNoDialog, Settles

LEMMA LoaderEndsKeeps ==
  ASSUME AppInv, IInv', LoaderEnds \/ Leave \/ UNCHANGED appVars
  PROVE  AppInv'
<1>1. /\ UNCHANGED <<vars, mode, cursor, pending, chart, armed, running>>
      /\ load' \in Loads /\ load'.sheet = load.sheet
      /\ load'.state # "none" => load.state # "none"
      /\ leaving' \in BOOLEAN
  BY Types DEF LoaderEnds, Leave, appVars, uiVars, Loads
<1>2. TypeOK' /\ UNCHANGED <<Depth, Top, OnDoc>>
  BY <1>1 DEF IInv, vars, Depth, Top, OnDoc
<1> QED BY <1>1, <1>2
        DEF AppInv, AppTypeOK, Loads, LoadLandsWhereStarted, TableDialogsNeverOverADocument

LEMMA AppInitInv == AppInit => AppInv
<1> SUFFICES ASSUME AppInit PROVE AppInv
  OBVIOUS
<1>1. IInv
  BY InitIInv DEF AppInit
<1>2. Len(sheets) = 1 /\ Depth = 1 /\ Top = sheets[1]
  BY DEF AppInit, Init, Depth, Top
<1>3. cursor \in Seq(Nat \ {0}) /\ Len(cursor) = 1
  BY DEF AppInit
<1>4. {"Loading", "Normal"} \subseteq Modes
  BY AllModes DEF ModeNames
<1>5. load \in Loads /\ (load.state # "none" => load.sheet = 1 /\ Top = Blank /\ mode = "Loading")
  BY <1>2, MaxDepthAssumption DEF AppInit, Loads, NoLoad
<1>6. mode \in {"Loading", "Normal"}
  BY DEF AppInit
<1>7. AppTypeOK
  BY <1>1, <1>2, <1>3, <1>4, <1>5, <1>6 DEF AppInit, AppTypeOK, Loads, IInv
<1> QED BY <1>1, <1>2, <1>5, <1>6, <1>7
        DEF AppInv, LoadLandsWhereStarted, TableDialogsNeverOverADocument

LEMMA AppInvNext == AppInv /\ [AppNext]_appVars => AppInv'
<1> SUFFICES ASSUME AppInv, [AppNext]_appVars PROVE AppInv'
  OBVIOUS
<1>1. IInv'
  BY StackStep, NextIInv DEF AppInv
<1>2. ASSUME NEW k, \/ Command(k) \/ Reject(k) \/ IndexMissingColumn(k)
                    \/ Widen(k) \/ Replace(k) \/ WindowDialog(k)
                    \/ Dive(k) \/ Chart(k) \/ Defer(k)
      PROVE  AppInv'
  BY <1>1, <1>2, CommandKeeps, RejectKeeps, ReshapeKeeps, WindowKeeps, DiveKeeps,
     ChartKeeps, DeferKeeps
<1>3. CASE \/ MoveLeft \/ MoveRight
           \/ MoveColumn("MoveColumnLeft", -1) \/ MoveColumn("MoveColumnRight", 1)
  BY <1>1, <1>3, MoveKeeps
<1>4. CASE DeleteColumn \/ TransposeTable
  BY <1>1, <1>4, ReshapeKeeps
<1>5. CASE ChartDrillDown
  BY <1>1, <1>5, DrillDownKeeps
<1>6. CASE PopSheet
  BY <1>1, <1>6, PopKeeps
<1>7. CASE AskToQuit \/ ConfirmQuitYes
  BY <1>1, <1>7, QuitKeeps
<1>8. CASE ReloadNow
  BY <1>1, <1>8, ReloadNowKeeps
<1>9. CASE ReloadInBackground
  BY <1>1, <1>9, ReloadInBackgroundKeeps
<1>10. CASE RunPending
  BY <1>1, <1>10, RunPendingKeeps
<1>11. CASE Poll
  BY <1>1, <1>11, PollKeeps
<1>12. CASE LoaderEnds \/ Leave \/ UNCHANGED appVars
  BY <1>1, <1>12, LoaderEndsKeeps
<1> QED BY <1>2, <1>3, <1>4, <1>5, <1>6, <1>7, <1>8, <1>9, <1>10, <1>11, <1>12
        DEF AppNext, KeyStep

LEMMA AppSoundness == AppSpec => []AppInv
BY AppInitInv, AppInvNext, PTL DEF AppSpec

(* Every variable keeps its type; while the program runs, a command is     *)
(* parked exactly as long as it is shown to be calculating.                *)
THEOREM AppTypeCorrect == AppSpec => []AppTypeOK
BY AppSoundness, PTL DEF AppInv

(* The result of a background load lands in the sheet it was started for,  *)
(* over nothing the user did meanwhile, on a stack of any depth            *)
(* (reload_file, poll_async_load).                                         *)
THEOREM LoadsLand == AppSpec => []LoadLandsWhereStarted
BY AppSoundness, PTL DEF AppInv

(* No dialog that computes or reshapes columns ever stands over a view of  *)
(* a document, whatever keys led there (reject_on_doc_sheet).              *)
THEOREM DialogsOverTables == AppSpec => []TableDialogsNeverOverADocument
BY AppSoundness, PTL DEF AppInv

(* The application uses its sheets only through the operations of the      *)
(* stack, so what FrameStack promises holds under every key, load and      *)
(* parked command.                                                         *)
THEOREM AppKeepsTheStack == AppSpec => ImplementsFrameStack
<1>1. AppInv /\ [AppNext]_appVars => [Next]_vars
  BY StackStep DEF AppInv
<1>2. AppInit => Init
  BY DEF AppInit
<1>3. AppSpec => Spec
  BY <1>1, <1>2, AppSoundness, PTL DEF AppSpec, Spec
<1> QED BY <1>3, RefinesFrameStack

\* A step that keeps the depth, whatever it writes.
LEMMA DepthKept ==
  ASSUME AppInv, StackAsIs \/ (\E f \in Frames : Write(f)) \/ UNCHANGED vars
  PROVE  Depth' = Depth
BY Types, AsIsEffect, WriteEffect DEF vars, Depth

(* No step puts another sheet under an open dialog: what was typed for one *)
(* table is never applied to another (open_node_path, execute_join and the *)
(* others leave their dialog before or with the push).                     *)
THEOREM DialogsKeepTheirSheet == AppSpec => DialogKeepsItsSheet
<1>1. ASSUME AppInv, [AppNext]_appVars
      PROVE  [Depth' # Depth =>
                 mode' \in {"Normal", "Chart", "ZPrefix", "JoinSelectType"}]_appVars
  <2> SUFFICES ASSUME Depth' # Depth
               PROVE  mode' \in {"Normal", "Chart", "ZPrefix", "JoinSelectType"}
    OBVIOUS
  <2>1. ~StackAsIs /\ ~(\E f \in Frames : Write(f)) /\ ~UNCHANGED vars
    BY <1>1, DepthKept
  <2>2. \A f \in SameKind(Top) \cup {Top} : f \in Frames
    BY <1>1, Types, KindOf
  <2>3. ASSUME NEW k, Dive(k)
        PROVE  mode' \in {"Normal", "Chart", "ZPrefix", "JoinSelectType"}
    BY <1>1, <2>3, DiveEnds
  <2>4. CASE ChartDrillDown \/ PopSheet
    BY <2>4 DEF ChartDrillDown, PopSheet
  <2>5. CASE RunPending
    BY <2>1, <2>5 DEF RunPending
  <2>6. ASSUME NEW k PROVE /\ ~Command(k) /\ ~Reject(k) /\ ~IndexMissingColumn(k)
                           /\ ~WindowDialog(k) /\ ~Chart(k) /\ ~Defer(k)
    BY <2>1 DEF Command, Reject, IndexMissingColumn, WindowDialog, Chart, Defer
  <2>7. ASSUME NEW k PROVE ~Widen(k) /\ ~Replace(k) /\ ~DeleteColumn /\ ~TransposeTable
    BY <2>1, <2>2 DEF Widen, Replace, DeleteColumn, TransposeTable
  <2>8. /\ ~MoveLeft /\ ~MoveRight /\ ~AskToQuit /\ ~ConfirmQuitYes
        /\ ~MoveColumn("MoveColumnLeft", -1) /\ ~MoveColumn("MoveColumnRight", 1)
    BY <2>1 DEF MoveLeft, MoveRight, AskToQuit, ConfirmQuitYes, MoveColumn
  <2>9. ~ReloadNow /\ ~ReloadInBackground
    BY <2>1, <2>2, BlankAssumption DEF ReloadNow, ReloadInBackground, ReadAgainAs, Tables
  <2>10. ~Poll /\ ~LoaderEnds /\ ~Leave
    BY <2>1 DEF Poll, LoaderEnds, Leave
  <2>11. AppNext
    BY <1>1, <2>1 DEF appVars
  <2> QED BY <2>3, <2>4, <2>5, <2>6, <2>7, <2>8, <2>9, <2>10, <2>11 DEF AppNext, KeyStep
<1> QED BY <1>1, AppSoundness, PTL DEF AppSpec, DialogKeepsItsSheet
-----------------------------------------------------------------------------
(* The JOIN wizard, for any tables, columns and listings, on a stack of    *)
(* any depth: whatever the user steps back to, the screens that ask for    *)
(* keys stand over a table to join with, the keys are its columns, and the *)
(* queue is the rest of this chain.                                        *)

JoinModes == {"Normal"} \cup DOMAIN BackFrom

KeysOf(keys, f) == Names(keys) \subseteq Names(Columns[f]) /\ IsInjective(keys)

JoinTypeOK ==
    /\ screen \in JoinModes
    /\ items \in Seq(Frames)
    /\ queue \in Seq(Frames) /\ chosen \in Seq(Frames)
    /\ other \in Frames \cup {Nothing}
    /\ left \in Seq(STRING) /\ right \in Seq(STRING)

(* The positions picked are those of the list on screen only while the     *)
(* list is on screen: a wizard opened over a table leaves them behind with *)
(* new items.                                                              *)
PicksAreListed ==
    screen = "JoinOverviewSelect" => picked \in SUBSET (DOMAIN items)

(* The active sheet is a table in memory only by the discipline of the     *)
(* swap files, so the stack's own invariant is part of the wizard's.       *)
JoinInv ==
    /\ IInv
    /\ JoinTypeOK
    /\ PicksAreListed
    /\ OtherTableAtHand
    /\ KeysAreColumns
    /\ QueueIsRestOfThisChain

-----------------------------------------------------------------------------
(* The stack under the wizard.                                             *)

LEMMA JoinTopIsFrame == IInv => /\ Depth \in 1 .. MaxDepth /\ Depth \in Nat
                            /\ Top \in Frames
                            /\ Columns[Top] \in Seq(STRING) /\ IsInjective(Columns[Top])
BY MaxDepthAssumption, ColumnsAssumption DEF IInv, TypeOK, SwapDiscipline, Depth, Top

(* The tables picked, in the order of the list: all of them are tables,    *)
(* as many as were picked.                                                 *)
LEMMA PickedTables ==
  ASSUME items \in Seq(Frames), picked \in SUBSET (DOMAIN items)
  PROVE  /\ Cardinality(picked) \in Nat
         /\ InListOrder \in Seq(Frames)
         /\ Len(InListOrder) = Cardinality(picked)
<1> DEFINE order == InOrder(picked, Ascending(picked))
           n == Cardinality(picked)
<1>1. DOMAIN items = 1 .. Len(items) /\ Len(items) \in Nat
  OBVIOUS
<1>2. IsFiniteSet(picked) /\ picked \in SUBSET Int
  <2>1. IsFiniteSet(DOMAIN items)
    BY <1>1, FS_Interval
  <2> QED BY <1>1, <2>1, FS_Subset
<1>3. n \in Nat
  BY <1>2, FS_CardinalityType
<1>4. order \in Bijection(1 .. n, picked)
  BY <1>2, AscendingIsOrder, InOrderBijection
<1> HIDE DEF order, n
<1>5. \A k \in 1 .. n : order[k] \in picked
  BY <1>4, ListingFacts
<1>6. InListOrder = [k \in 1 .. n |-> items[order[k]]]
  BY DEF InListOrder, order, n
<1>7. \A k \in 1 .. n : items[order[k]] \in Frames
  BY <1>1, <1>5
<1>8. InListOrder \in [1 .. n -> Frames]
  BY <1>6, <1>7
<1> QED BY <1>3, <1>8 DEF n

LEMMA JoinStackStep ==
  ASSUME JoinInv, JoinNext
  PROVE  Next
<1> USE DEF JoinInv
<1>1. MaxDepth \in Nat /\ Depth \in 1 .. MaxDepth /\ MaxDepth + 1 \in 1 .. MaxDepth + 1
  BY JoinTopIsFrame, MaxDepthAssumption
<1>2. ASSUME StackAsIs PROVE Next
  BY <1>1, <1>2, AsIsIsPeek DEF Next
<1>3. ASSUME NEW f \in Frames, Push(f) PROVE Next
  BY <1>3 DEF Next
<1>4. ASSUME NEW idx \in 1 .. Depth + 1, SourceFromStack(idx) PROVE Next
  <2>1. idx \in 1 .. MaxDepth + 1
    BY <1>1
  <2> QED BY <1>4, <2>1 DEF SourceFromStack, Next
<1>5. ASSUME OverviewApply PROVE Next
  <2>1. picked \in SUBSET (DOMAIN items) /\ items \in Seq(Frames)
    BY <1>5 DEF OverviewApply, PicksAreListed, JoinTypeOK
  <2>2. InListOrder \in Seq(Frames) /\ Len(InListOrder) >= 2
    BY <1>5, <2>1, PickedTables DEF OverviewApply
  <2>3. InListOrder[1] \in Frames
    BY <2>2
  <2> QED BY <1>3, <1>5, <2>3 DEF OverviewApply
<1> QED
  BY <1>2, <1>3, <1>4, <1>5
     DEF JoinNext, OpenJoin, OverviewToggle, BrowseFile, SourceFromItems, PathApply,
         TypeApply, LeftKeyToggle, LeftKeyApply, RightKeyToggle, Cancel,
         JoinEnds, JoinGoesOn, ChainBreaks, JoinRefused,
         ReturnToSheetBelow, OpenTable, Next
-----------------------------------------------------------------------------
(* What the wizard computes.                                               *)

LEMMA ContextIsFrames ==
  ASSUME NEW f \in Frames
  PROVE  ContextItems(f) \in Seq(Frames)
<1>1. Beside[f] \in Seq(Frames)
  BY BesideAssumption
<1> QED BY <1>1, RetainProperties DEF ContextItems

LEMMA ToggledKeys ==
  ASSUME NEW T, NEW keys \in Seq(T), NEW c \in T, NEW S,
         c \in S, Names(keys) \subseteq S, IsInjective(keys)
  PROVE  /\ Toggle(keys, c) \in Seq(T)
         /\ Names(Toggle(keys, c)) \subseteq S
         /\ IsInjective(Toggle(keys, c))
<1>1. CASE c \in Names(keys)
  <2>1. DupFree(keys)
    BY DEF DupFree, IsInjective
  <2>2. /\ Retain(keys, Names(keys) \ {c}) \in Seq(T)
        /\ DupFree(Retain(keys, Names(keys) \ {c}))
        /\ Range(Retain(keys, Names(keys) \ {c})) = Range(keys) \cap (Names(keys) \ {c})
    BY <2>1, RetainProperties
  <2>3. Toggle(keys, c) = Retain(keys, Names(keys) \ {c})
    BY <1>1 DEF Toggle
  <2> QED BY <2>2, <2>3 DEF Names, DupFree, IsInjective
<1>2. CASE c \notin Names(keys)
  <2> DEFINE n == Len(keys)
             more == Append(keys, c)
  <2>1. /\ more \in Seq(T) /\ n \in Nat /\ DOMAIN keys = 1 .. n
        /\ DOMAIN more = 1 .. n + 1
        /\ \A i \in 1 .. n + 1 : more[i] = IF i = n + 1 THEN c ELSE keys[i]
    OBVIOUS
  <2>2. Toggle(keys, c) = more
    BY <1>2 DEF Toggle
  <2>3. \A i \in 1 .. n : keys[i] \in S /\ keys[i] # c
    BY <1>2, <2>1, InRange DEF Names
  <2>4. \A i, j \in 1 .. n : keys[i] = keys[j] => i = j
    BY <2>1 DEF IsInjective
  <2> HIDE DEF n, more
  <2>5. \A i \in 1 .. n + 1 : i = n + 1 \/ i \in 1 .. n
    BY <2>1
  <2>6. IsInjective(more)
    BY <2>1, <2>3, <2>4, <2>5 DEF IsInjective
  <2>7. \A i \in 1 .. n + 1 : more[i] \in S
    BY <2>1, <2>3, <2>5
  <2> QED BY <2>1, <2>2, <2>6, <2>7, InRange DEF Names
<1> QED BY <1>1, <1>2

\* The keys that both tables have.
LEMMA MatchingKeys ==
  ASSUME NEW T, NEW keys \in Seq(T), IsInjective(keys), NEW S
  PROVE  /\ Retain(keys, S) \in Seq(T)
         /\ Names(Retain(keys, S)) \subseteq S
         /\ IsInjective(Retain(keys, S))
<1>1. DupFree(keys)
  BY DEF DupFree, IsInjective
<1>2. /\ Retain(keys, S) \in Seq(T) /\ DupFree(Retain(keys, S))
      /\ Range(Retain(keys, S)) = Range(keys) \cap S
  BY <1>1, RetainProperties
<1> QED BY <1>2 DEF Names, DupFree, IsInjective

\* The last of a list, one fewer of them.
LEMMA RestGetsShorter ==
  ASSUME queue \in Seq(Frames), chosen \in Seq(Frames), queue # <<>>,
         QueueIsRestOfThisChain
  PROVE  /\ Head(queue) \in Frames /\ Tail(queue) \in Seq(Frames)
         /\ Len(Tail(queue)) = Len(queue) - 1
         /\ Tail(queue) = SubSeq(chosen, Len(chosen) - Len(Tail(queue)) + 1, Len(chosen))
<1> DEFINE n == Len(chosen)
           k == Len(queue)
           rest == SubSeq(chosen, n - (k - 1) + 1, n)
<1>1. /\ Head(queue) \in Frames /\ Tail(queue) \in Seq(Frames)
      /\ Len(Tail(queue)) = k - 1 /\ k \in Nat \ {0} /\ n \in Nat
      /\ \A i \in 1 .. k - 1 : Tail(queue)[i] = queue[i + 1]
  OBVIOUS
<1>2. k <= (IF n > 2 THEN n - 2 ELSE 0) /\ queue = SubSeq(chosen, n - k + 1, n)
  BY DEF QueueIsRestOfThisChain
<1>3. k <= n
  BY <1>1, <1>2
<1>4. \A i \in 1 .. k : queue[i] = chosen[n - k + i]
  <2>1. n - k + 1 \in 1 .. n + 1
    BY <1>1, <1>3
  <2>2. \A i \in 1 .. n - (n - k + 1) + 1 :
           SubSeq(chosen, n - k + 1, n)[i] = chosen[n - k + 1 + i - 1]
    BY <1>1, <1>3, <2>1, SubSeqProperties
  <2>3. queue = SubSeq(chosen, n - k + 1, n)
    BY <1>2
  <2> HIDE DEF n, k
  <2>4. ASSUME NEW i \in 1 .. k
        PROVE  i \in 1 .. n - (n - k + 1) + 1 /\ n - k + 1 + i - 1 = n - k + i
    BY <1>1
  <2>5. ASSUME NEW i \in 1 .. k PROVE queue[i] = chosen[n - k + i]
    <3>1. SubSeq(chosen, n - k + 1, n)[i] = chosen[n - k + 1 + i - 1]
      BY <2>2, <2>4
    <3> QED BY <2>3, <2>4, <3>1, Zenon
  <2> QED BY <2>5
<1>5. rest \in Seq(Frames) /\ Len(rest) = k - 1
      /\ \A i \in 1 .. k - 1 : rest[i] = chosen[n - (k - 1) + i]
  <2> DEFINE m == n - (k - 1) + 1
  <2>1. m \in Int /\ n \in Int /\ \A i \in m .. n : chosen[i] \in Frames
    BY <1>1, <1>3
  <2>2. /\ SubSeq(chosen, m, n) \in Seq(Frames)
        /\ Len(SubSeq(chosen, m, n)) = IF m <= n THEN n - m + 1 ELSE 0
        /\ \A i \in 1 .. n - m + 1 : SubSeq(chosen, m, n)[i] = chosen[m + i - 1]
    <3> HIDE DEF m, n
    <3> QED BY <2>1, SubSeqProperties
  <2>3. rest = SubSeq(chosen, m, n)
    OBVIOUS
  <2> HIDE DEF rest, n, k
  <2>4. /\ n - m + 1 = k - 1 /\ (IF m <= n THEN n - m + 1 ELSE 0) = k - 1
        /\ \A i \in 1 .. k - 1 : m + i - 1 = n - (k - 1) + i
    BY <1>1
  <2> HIDE DEF m
  <2> QED BY <2>2, <2>3, <2>4
<1> HIDE DEF n, k, rest
<1>6. \A i \in 1 .. k - 1 : Tail(queue)[i] = rest[i]
  <2> TAKE i \in 1 .. k - 1
  <2>1. i + 1 \in 1 .. k /\ n - k + (i + 1) = n - (k - 1) + i
    BY <1>1
  <2> QED BY <1>1, <1>4, <1>5, <2>1
<1>7. Tail(queue) = rest
  BY <1>1, <1>5, <1>6
<1> QED BY <1>1, <1>7 DEF n, k, rest
-----------------------------------------------------------------------------
(* The invariant.                                                          *)

LEMMA JoinInitInv == JoinInit => JoinInv
<1> SUFFICES ASSUME JoinInit PROVE JoinInv
  OBVIOUS
<1>1. IInv
  BY InitIInv DEF JoinInit
<1>2. QueueIsRestOfThisChain
  BY DEF JoinInit, QueueIsRestOfThisChain
<1> QED BY <1>1, <1>2 DEF JoinInit, JoinInv, JoinTypeOK, JoinModes, PicksAreListed,
        OtherTableAtHand, KeysAreColumns

\* Steps that leave the sheets, and with them the table joined from, as they are.
LEMMA TopStays == StackAsIs => UNCHANGED <<Depth, Top>>
BY DEF StackAsIs, Depth, Top

\* Taking the other table, wherever it comes from.
LEMMA TakenOther ==
  ASSUME JoinInv, NEW f \in Frames, TakeOther(f)
  PROVE  /\ JoinTypeOK' /\ PicksAreListed' /\ OtherTableAtHand'
         /\ KeysAreColumns' /\ QueueIsRestOfThisChain'
BY NothingIsNoFrame
   DEF JoinInv, TakeOther, JoinTypeOK, JoinModes, BackFrom, PicksAreListed, OtherTableAtHand,
       KeysAreColumns, QueueIsRestOfThisChain

\* The columns of the two tables, as the steps that pick keys need them.
LEMMA KeyTables ==
  ASSUME JoinInv, screen \in {"JoinSelectLeftKeys", "JoinSelectRightKeys"}
  PROVE  /\ Top \in Frames /\ other \in Frames
         /\ Columns[Top] \in Seq(STRING) /\ IsInjective(Columns[Top])
         /\ Columns[other] \in Seq(STRING)
         /\ left \in Seq(STRING) /\ Names(left) \subseteq Names(Columns[Top])
         /\ IsInjective(left)
BY JoinTopIsFrame, ColumnsAssumption
   DEF JoinInv, JoinTypeOK, OtherTableAtHand, KeysAreColumns

LEMMA ColumnNames ==
  ASSUME NEW f \in Frames, NEW c \in Names(Columns[f])
  PROVE  c \in STRING
<1>1. Columns[f] \in Seq(STRING)
  BY ColumnsAssumption
<1>2. PICK i \in DOMAIN Columns[f] : Columns[f][i] = c
  BY InRange DEF Names
<1> QED BY <1>1, <1>2

LEMMA JoinInvNext == JoinInv /\ [JoinNext]_joinVars => JoinInv'
<1> SUFFICES ASSUME JoinInv, [JoinNext]_joinVars PROVE JoinInv'
  OBVIOUS
<1> USE DEF JoinInv
<1>i. IInv'
  <2>1. CASE JoinNext
    BY <2>1, JoinStackStep, NextIInv
  <2>2. CASE UNCHANGED joinVars
    BY <2>2, NextIInv DEF joinVars
  <2> QED BY <2>1, <2>2
<1>t. /\ JoinTypeOK /\ Top \in Frames /\ Depth \in Nat
      /\ Columns[Top] \in Seq(STRING) /\ IsInjective(Columns[Top])
  BY JoinTopIsFrame
<1>n. ASSUME JoinTypeOK', QueueIsRestOfThisChain', screen' = "Normal" PROVE JoinInv'
  BY <1>i, <1>n DEF PicksAreListed, OtherTableAtHand, KeysAreColumns
<1>1. ASSUME OpenJoin PROVE JoinInv'
  <2>1. ContextItems(Top) \in Seq(Frames)
    BY <1>t, ContextIsFrames
  <2>2. JoinTypeOK'
    BY <1>1, <1>t, <2>1 DEF OpenJoin, JoinTypeOK, JoinModes, BackFrom
  <2>3. QueueIsRestOfThisChain'
    BY <1>1 DEF OpenJoin, QueueIsRestOfThisChain
  <2>4. screen' \in {"Normal", "JoinOverviewSelect", "JoinSelectSource"}
        /\ (screen' = "JoinOverviewSelect" => picked' = {})
    BY <1>1 DEF OpenJoin
  <2> QED BY <1>i, <2>2, <2>3, <2>4 DEF PicksAreListed, OtherTableAtHand, KeysAreColumns
<1>2. ASSUME OverviewToggle PROVE JoinInv'
  BY <1>2, <1>i DEF OverviewToggle, JoinTypeOK, PicksAreListed, OtherTableAtHand,
                    KeysAreColumns, QueueIsRestOfThisChain
<1>3. ASSUME OverviewApply PROVE JoinInv'
  <2> DEFINE n == Cardinality(picked)
  <2>1. /\ n \in Nat /\ n >= 2
        /\ InListOrder \in Seq(Frames) /\ Len(InListOrder) = n
    BY <1>3, PickedTables DEF OverviewApply, PicksAreListed, JoinTypeOK
  <2>2. /\ SubSeq(InListOrder, 3, n) \in Seq(Frames)
        /\ Len(SubSeq(InListOrder, 3, n)) = n - 2
    <3>1. \A i \in 3 .. n : InListOrder[i] \in Frames
      BY <2>1
    <3> HIDE DEF n
    <3> QED BY <2>1, <3>1, SubSeqProperties
  <2>3. InListOrder[2] \in Frames
    BY <2>1
  <2>4. /\ queue' = SubSeq(InListOrder, 3, n) /\ chosen' = InListOrder
        /\ other' = InListOrder[2] /\ screen' = "JoinSelectType"
        /\ left' = <<>> /\ right' = <<>> /\ items' = items
    BY <1>3 DEF OverviewApply
  <2>5. QueueIsRestOfThisChain'
    <3>1. Len(queue') = n - 2 /\ Len(chosen') = n /\ n - (n - 2) + 1 = 3
      BY <2>1, <2>2, <2>4
    <3>2. n - 2 <= (IF n > 2 THEN n - 2 ELSE 0)
      BY <2>1
    <3> HIDE DEF n
    <3> QED BY <2>4, <3>1, <3>2 DEF QueueIsRestOfThisChain
  <2>6. JoinTypeOK'
    BY <1>t, <2>1, <2>2, <2>3, <2>4 DEF JoinTypeOK, JoinModes, BackFrom
  <2>7. OtherTableAtHand'
    BY <2>3, <2>4, NothingIsNoFrame DEF OtherTableAtHand
  <2> QED BY <1>i, <2>4, <2>5, <2>6, <2>7 DEF PicksAreListed, KeysAreColumns
<1>4. ASSUME BrowseFile PROVE JoinInv'
  BY <1>4, <1>i DEF BrowseFile, join, JoinTypeOK, JoinModes, BackFrom, PicksAreListed,
                    OtherTableAtHand, KeysAreColumns, QueueIsRestOfThisChain
<1>5. ASSUME SourceFromItems PROVE JoinInv'
  <2>1. PICK i \in DOMAIN items : TakeOther(items[i])
    BY <1>5 DEF SourceFromItems
  <2>2. items[i] \in Frames
    BY <1>t DEF JoinTypeOK
  <2> QED BY <1>i, <2>1, <2>2, TakenOther
<1>6. ASSUME NEW idx \in 1 .. Depth + 1, SourceFromStack(idx) PROVE JoinInv'
  <2>1. CASE idx <= Depth
    <3>1. idx \in 1 .. Len(sheets) /\ TakeOther(taken')
      BY <1>6, <1>t, <2>1 DEF SourceFromStack, Depth
    <3>2. CloneAt(idx)
      BY <1>6, <1>t, <3>1 DEF SourceFromStack, CloneSheet, Depth
    <3>3. taken' \in Frames
      BY <3>1, <3>2, PeekUnchanged
    <3> QED BY <1>i, <3>1, <3>3, TakenOther
  <2>2. CASE ~(idx <= Depth)
    <3>1. screen = "JoinSelectSource" /\ UNCHANGED <<screen, join>>
      BY <1>6, <2>2 DEF SourceFromStack
    <3> QED BY <1>i, <3>1 DEF join, JoinTypeOK, PicksAreListed, OtherTableAtHand,
                              KeysAreColumns, QueueIsRestOfThisChain
  <2> QED BY <2>1, <2>2
<1>7. ASSUME PathApply PROVE JoinInv'
  BY <1>7, <1>i, TakenOther DEF PathApply
<1>8. ASSUME TypeApply PROVE JoinInv'
  <2>1. JoinTypeOK' /\ QueueIsRestOfThisChain' /\ OtherTableAtHand' /\ PicksAreListed'
    BY <1>8 DEF TypeApply, JoinTypeOK, JoinModes, BackFrom, QueueIsRestOfThisChain,
                OtherTableAtHand, PicksAreListed
  <2>2. KeysAreColumns'
    BY <1>8 DEF TypeApply, KeysAreColumns, Names, Range, IsInjective
  <2> QED BY <1>i, <2>1, <2>2
<1>9. ASSUME LeftKeyToggle PROVE JoinInv'
  <2>1. screen = "JoinSelectLeftKeys" /\ UNCHANGED <<Depth, Top>>
        /\ UNCHANGED <<screen, items, picked, queue, other, right, chosen>>
    BY <1>9, TopStays DEF LeftKeyToggle
  <2>2. left' \in Seq(STRING) /\ Names(left') \subseteq Names(Columns[Top])
        /\ IsInjective(left')
    <3>1. CASE \E c \in Names(Columns[Top]) : left' = Toggle(left, c)
      <4>1. PICK c \in Names(Columns[Top]) : left' = Toggle(left, c)
        BY <3>1
      <4>2. c \in STRING
        BY <1>t, ColumnNames
      <4>3. left \in Seq(STRING) /\ Names(left) \subseteq Names(Columns[Top])
            /\ IsInjective(left)
        BY <2>1, KeyTables
      <4>4. /\ Toggle(left, c) \in Seq(STRING)
            /\ Names(Toggle(left, c)) \subseteq Names(Columns[Top])
            /\ IsInjective(Toggle(left, c))
        BY <4>2, <4>3, ToggledKeys
      <4> QED BY <4>1, <4>4
    <3>2. CASE left' = <<>>
      BY <3>2 DEF Names, Range, IsInjective
    <3>3. CASE left' = Columns[Top]
      BY <1>t, <3>3
    <3> QED BY <1>9, <3>1, <3>2, <3>3 DEF LeftKeyToggle
  <2>3. KeysAreColumns'
    BY <2>1, <2>2 DEF KeysAreColumns
  <2> QED BY <1>i, <1>t, <2>1, <2>2, <2>3
          DEF JoinTypeOK, PicksAreListed, OtherTableAtHand, QueueIsRestOfThisChain
<1>10. ASSUME LeftKeyApply PROVE JoinInv'
  <2>1. /\ screen = "JoinSelectLeftKeys" /\ screen' = "JoinSelectRightKeys"
        /\ UNCHANGED <<Depth, Top>>
        /\ UNCHANGED <<items, picked, queue, other, left, chosen>>
        /\ right' = Retain(left, Names(Columns[other]))
    BY <1>10, TopStays DEF LeftKeyApply
  <2>2. left \in Seq(STRING) /\ Names(left) \subseteq Names(Columns[Top])
        /\ IsInjective(left)
    BY <2>1, KeyTables
  <2>3. /\ Retain(left, Names(Columns[other])) \in Seq(STRING)
        /\ Names(Retain(left, Names(Columns[other]))) \subseteq Names(Columns[other])
        /\ IsInjective(Retain(left, Names(Columns[other])))
    BY <2>2, MatchingKeys
  <2>4. KeysAreColumns'
    BY <2>1, <2>2, <2>3 DEF KeysAreColumns
  <2> QED BY <1>i, <1>t, <2>1, <2>3, <2>4
          DEF JoinTypeOK, JoinModes, BackFrom, PicksAreListed, OtherTableAtHand,
              QueueIsRestOfThisChain
<1>11. ASSUME RightKeyToggle PROVE JoinInv'
  <2>1. /\ screen = "JoinSelectRightKeys" /\ UNCHANGED <<Depth, Top>>
        /\ UNCHANGED <<screen, items, picked, queue, other, left, chosen>>
    BY <1>11, TopStays DEF RightKeyToggle
  <2>2. PICK c \in Names(Columns[other]) : right' = Toggle(right, c)
    BY <1>11 DEF RightKeyToggle
  <2>3. c \in STRING /\ right \in Seq(STRING)
        /\ Names(right) \subseteq Names(Columns[other]) /\ IsInjective(right)
    BY <1>t, <2>1, KeyTables, ColumnNames DEF KeysAreColumns, JoinTypeOK
  <2>4. /\ Toggle(right, c) \in Seq(STRING)
        /\ Names(Toggle(right, c)) \subseteq Names(Columns[other])
        /\ IsInjective(Toggle(right, c))
    BY <2>3, ToggledKeys
  <2>5. KeysAreColumns'
    BY <2>1, <2>2, <2>4 DEF KeysAreColumns
  <2> QED BY <1>i, <1>t, <2>1, <2>2, <2>4, <2>5
          DEF JoinTypeOK, PicksAreListed, OtherTableAtHand, QueueIsRestOfThisChain
<1>12. ASSUME Cancel PROVE JoinInv'
  <2>1. UNCHANGED <<Depth, Top>> /\ UNCHANGED join
        /\ screen \in DOMAIN BackFrom /\ screen' = BackFrom[screen]
    BY <1>12, TopStays DEF Cancel
  <2>2. screen' \in JoinModes /\ screen' \notin {"JoinOverviewSelect", "JoinSelectRightKeys"}
        /\ (screen' = "JoinSelectLeftKeys" => screen = "JoinSelectRightKeys")
        /\ (screen' = "JoinSelectType" => screen = "JoinSelectLeftKeys")
    BY <2>1 DEF BackFrom, JoinModes
  <2> QED BY <1>i, <1>t, <2>1, <2>2
          DEF join, JoinTypeOK, PicksAreListed, OtherTableAtHand, KeysAreColumns,
              QueueIsRestOfThisChain
<1>13. ASSUME JoinEnds PROVE JoinInv'
  <2>1. screen' = "Normal" /\ other' = Nothing
        /\ UNCHANGED <<items, picked, queue, left, right, chosen>>
    BY <1>13 DEF JoinEnds
  <2>2. JoinTypeOK' /\ QueueIsRestOfThisChain'
    BY <1>t, <2>1 DEF JoinTypeOK, JoinModes, QueueIsRestOfThisChain
  <2> QED BY <1>n, <2>1, <2>2
<1>14. ASSUME JoinGoesOn PROVE JoinInv'
  <2>1. /\ screen' = "JoinSelectType" /\ queue # <<>>
        /\ other' = Head(queue) /\ queue' = Tail(queue)
        /\ left' = <<>> /\ right' = <<>> /\ UNCHANGED <<items, picked, chosen>>
    BY <1>14 DEF JoinGoesOn
  <2>2. /\ Head(queue) \in Frames /\ Tail(queue) \in Seq(Frames)
        /\ Len(Tail(queue)) = Len(queue) - 1
        /\ Tail(queue) = SubSeq(chosen, Len(chosen) - Len(Tail(queue)) + 1, Len(chosen))
    BY <1>t, <2>1, RestGetsShorter DEF JoinTypeOK
  <2>3. Len(Tail(queue)) <= (IF Len(chosen) > 2 THEN Len(chosen) - 2 ELSE 0)
    BY <1>t, <2>2 DEF JoinTypeOK, QueueIsRestOfThisChain
  <2>4. QueueIsRestOfThisChain'
    BY <2>1, <2>2, <2>3 DEF QueueIsRestOfThisChain
  <2>5. JoinTypeOK'
    BY <1>t, <2>1, <2>2 DEF JoinTypeOK, JoinModes, BackFrom
  <2>6. OtherTableAtHand'
    BY <2>1, <2>2, NothingIsNoFrame DEF OtherTableAtHand
  <2> QED BY <1>i, <2>1, <2>4, <2>5, <2>6 DEF PicksAreListed, KeysAreColumns
<1>15. ASSUME ChainBreaks PROVE JoinInv'
  <2>1. screen' = "Normal" /\ other' = Nothing /\ queue' = <<>>
        /\ UNCHANGED <<items, picked, left, right, chosen>>
    BY <1>15 DEF ChainBreaks
  <2>2. JoinTypeOK'
    BY <1>t, <2>1 DEF JoinTypeOK, JoinModes
  <2>3. QueueIsRestOfThisChain'
    <3>1. chosen \in Seq(Frames) /\ Len(chosen) \in Nat
      BY <1>t DEF JoinTypeOK
    <3>2. SubSeq(chosen, Len(chosen) + 1, Len(chosen)) = <<>>
      BY <3>1, SubSeqEmpty
    <3> QED BY <2>1, <3>1, <3>2 DEF QueueIsRestOfThisChain
  <2> QED BY <1>n, <2>1, <2>2, <2>3
<1>16. ASSUME JoinRefused PROVE JoinInv'
  <2>1. UNCHANGED <<Depth, Top>> /\ UNCHANGED join /\ screen' \in {"Normal", screen}
    BY <1>16, TopStays DEF JoinRefused
  <2> QED BY <1>i, <1>t, <2>1
          DEF join, JoinTypeOK, JoinModes, PicksAreListed, OtherTableAtHand, KeysAreColumns,
              QueueIsRestOfThisChain
<1>17. ASSUME ReturnToSheetBelow \/ OpenTable PROVE JoinInv'
  <2>1. screen' = "Normal" /\ UNCHANGED <<screen, join>>
    BY <1>17 DEF ReturnToSheetBelow, OpenTable
  <2> QED BY <1>n, <1>t, <2>1 DEF join, JoinTypeOK, QueueIsRestOfThisChain
<1>18. CASE UNCHANGED joinVars
  BY <1>18, <1>i, <1>t
     DEF joinVars, vars, join, JoinTypeOK, PicksAreListed, OtherTableAtHand, KeysAreColumns,
         QueueIsRestOfThisChain, Top, Depth
<1> QED
  BY <1>1, <1>2, <1>3, <1>4, <1>5, <1>6, <1>7, <1>8, <1>9, <1>10, <1>11, <1>12, <1>13,
     <1>14, <1>15, <1>16, <1>17, <1>18 DEF JoinNext

LEMMA JoinSoundness == JoinSpec => []JoinInv
BY JoinInitInv, JoinInvNext, PTL DEF JoinSpec

(* However the wizard is walked - steps back, refused joins, links of a    *)
(* chain - the screens that ask for a kind of join or for keys always have *)
(* a table to join with (App::execute_join puts a refused one back).       *)
THEOREM NeverWithoutATable == JoinSpec => []OtherTableAtHand
BY JoinSoundness, PTL DEF JoinInv

(* The keys on screen are columns of the tables that will be joined, none  *)
(* twice, for any tables (the key screens of handle_join_action).          *)
THEOREM KeysCanMeet == JoinSpec => []KeysAreColumns
BY JoinSoundness, PTL DEF JoinInv

(* Whatever was opened, given up or broken off before, the queue holds the *)
(* last of the tables picked for this chain, in the order of the list.     *)
THEOREM ChainInOrder == JoinSpec => []QueueIsRestOfThisChain
BY JoinSoundness, PTL DEF JoinInv

(* Taking a sheet of the stack as the other table takes what that sheet    *)
(* shows, on disk or not, and disturbs no sheet (clone_sheet_dataframe).   *)
THEOREM PeeksAreExact == JoinSpec => PeekTakesWhatTheSheetShows
<1>1. ASSUME JoinInv, [JoinNext]_joinVars
      PROVE  [\A idx \in DOMAIN sheets :
                 SourceFromStack(idx) => other' = Contents[idx] /\ Contents' = Contents]_joinVars
  <2> SUFFICES ASSUME NEW idx \in DOMAIN sheets, SourceFromStack(idx)
               PROVE  other' = Contents[idx] /\ Contents' = Contents
    OBVIOUS
  <2>1. IInv /\ idx \in 1 .. Len(sheets) /\ idx <= Len(sheets) /\ Len(sheets) \in Nat
    BY <1>1 DEF JoinInv, IInv, TypeOK
  <2>2. CloneAt(idx) /\ other' = taken'
    BY <2>1 DEF SourceFromStack, CloneSheet, TakeOther, Depth
  <2>3. UNCHANGED <<sheets, swapped, files>> /\ taken' = Contents[idx]
    BY <2>1, <2>2, PeekUnchanged
  <2> QED BY <2>2, <2>3 DEF Contents
<1> QED BY <1>1, JoinSoundness, PTL DEF JoinSpec, PeekTakesWhatTheSheetShows

(* The wizard uses the sheets only through the operations of the stack, so *)
(* what FrameStack promises holds under it too.                            *)
THEOREM WizardKeepsTheStack == JoinSpec => ImplementsFrameStack
<1>1. JoinInv /\ [JoinNext]_joinVars => [Next]_vars
  BY JoinStackStep DEF joinVars
<1>2. JoinInit => Init
  BY DEF JoinInit
<1>3. JoinSpec => Spec
  BY <1>1, <1>2, JoinSoundness, PTL DEF JoinSpec, Spec
<1> QED BY <1>3, RefinesFrameStack
=============================================================================
