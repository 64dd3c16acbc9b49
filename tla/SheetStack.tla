----------------------------- MODULE SheetStack -----------------------------
(***************************************************************************)
(* The sheet stack (sheet.rs, SheetStack) with the disk swap of            *)
(* data/swap.rs: every sheet below the top has its table written to        *)
(* sheet_<index>.bin and replaced in memory by an empty placeholder.       *)
(*                                                                         *)
(* Positions are 1-based here and 0-based in the code.  A swap file that   *)
(* cannot be written or read panics (`expect`), which ends the program and *)
(* the temporary directory with it, so no step of the model fails.         *)
(***************************************************************************)
EXTENDS Integers, Sequences

CONSTANTS
    Frames,         \* the contents a table may have
    Placeholder,    \* DataFrame::empty(), what stays in memory of a swapped table
    Nothing,        \* the None of the clone operations
    MaxDepth        \* bound: how deep the user dives

ASSUME PlaceholderIsNoFrame == Placeholder \notin Frames
ASSUME NothingIsNoFrame == Nothing \notin Frames \cup {Placeholder}
ASSUME MaxDepthAssumption == MaxDepth \in Nat \ {0}

VARIABLES
    sheets,     \* the sheets' in-memory tables, the active one last
    swapped,    \* the positions whose table is recorded as swapped out
    files,      \* the swap directory: position |-> table
    taken       \* the table the last call handed to its caller

vars == <<sheets, swapped, files, taken>>

Depth == Len(sheets)
Top == sheets[Depth]

\* A step of its caller that leaves the sheets alone.
StackAsIs == UNCHANGED <<sheets, swapped, files>> /\ taken' = Nothing

TypeOK ==
    /\ sheets \in Seq(Frames \cup {Placeholder})
    /\ swapped \subseteq 1 .. Len(sheets)
    /\ files \in [swapped -> Frames]
    /\ taken \in Frames \cup {Nothing}

-----------------------------------------------------------------------------
(* The swap internals, on the three parts of the stack they work on.       *)

StoreWith(mem) == [sheets |-> mem, swapped |-> swapped, files |-> files]
Store == StoreWith(sheets)

\* Mutant: the table is replaced before it is written.
SwapOutTooLate(s, idx) ==
    IF idx \in s.swapped THEN s
    ELSE [ sheets  |-> [s.sheets EXCEPT ![idx] = Placeholder],
           swapped |-> s.swapped \cup {idx},
           files   |-> [i \in DOMAIN s.files \cup {idx} |->
                           IF i = idx THEN Placeholder ELSE s.files[i]] ]

\* SheetStack::swap_out: a position already on disk is left alone.
SwapOut(s, idx) ==
    IF idx \in s.swapped THEN s
    ELSE [ sheets  |-> [s.sheets EXCEPT ![idx] = Placeholder],
           swapped |-> s.swapped \cup {idx},
           files   |-> [i \in DOMAIN s.files \cup {idx} |->
                           IF i = idx THEN s.sheets[idx] ELSE s.files[i]] ]

\* Mutant: the position stays recorded as swapped out.
SwapInStaysRecorded(s, idx) ==
    IF idx \notin s.swapped THEN s
    ELSE [s EXCEPT !.sheets = [@ EXCEPT ![idx] = s.files[idx]]]

\* Mutant: the file is left behind.
SwapInLeavesFile(s, idx) ==
    IF idx \notin s.swapped THEN s
    ELSE [s EXCEPT !.sheets = [@ EXCEPT ![idx] = s.files[idx]],
                   !.swapped = @ \ {idx}]

\* SheetStack::swap_in: the file is read, put back in memory and removed.
SwapIn(s, idx) ==
    IF idx \notin s.swapped THEN s
    ELSE [ sheets  |-> [s.sheets EXCEPT ![idx] = s.files[idx]],
           swapped |-> s.swapped \ {idx},
           files   |-> [i \in DOMAIN s.files \ {idx} |-> s.files[i]] ]

Update(s) ==
    /\ sheets'  = s.sheets
    /\ swapped' = s.swapped
    /\ files'   = s.files

\* Mutant: the table is read before it is swapped in.
CloneTooEarly(idx) ==
    LET here == SwapIn(Store, idx) IN
    /\ taken' = sheets[idx]
    /\ Update(IF idx \in swapped THEN SwapOut(here, idx) ELSE here)

\* Read the table at idx, swapping it in and out again if it was on disk.
CloneAt(idx) ==
    LET here == SwapIn(Store, idx) IN
    /\ taken' = here.sheets[idx]
    /\ Update(IF idx \in swapped THEN SwapOut(here, idx) ELSE here)

-----------------------------------------------------------------------------

Init ==
    /\ \E f \in Frames : sheets = <<f>>
    /\ swapped = {}
    /\ files = <<>>
    /\ taken = Nothing

\* SheetStack::push
Push(f) ==
    /\ Len(sheets) < MaxDepth
    /\ LET below == SwapOut(Store, Len(sheets)) IN
       /\ sheets'  = Append(below.sheets, f)
       /\ swapped' = below.swapped
       /\ files'   = below.files
    /\ taken' = Nothing

\* SheetStack::pop; its assertion is the caller's can_pop check.
Pop ==
    /\ Len(sheets) > 1
    /\ LET newTop == Len(sheets) - 1 IN
           Update(SwapIn(StoreWith(SubSeq(sheets, 1, newTop)), newTop))
    /\ taken' = sheets[Len(sheets)]

\* SheetStack::active_mut: every edit goes through it.
Write(f) ==
    /\ sheets' = [sheets EXCEPT ![Len(sheets)] = f]
    /\ taken' = Nothing
    /\ UNCHANGED <<swapped, files>>

\* SheetStack::clone_sheet_dataframe
CloneSheet(idx) ==
    \/ /\ idx \in DOMAIN sheets
       /\ CloneAt(idx)
    \/ /\ idx > Len(sheets)
       /\ taken' = Nothing
       /\ UNCHANGED <<sheets, swapped, files>>

\* SheetStack::clone_parent_dataframe
CloneParent ==
    \/ /\ Len(sheets) >= 2
       /\ CloneAt(Len(sheets) - 1)
    \/ /\ Len(sheets) < 2
       /\ taken' = Nothing
       /\ UNCHANGED <<sheets, swapped, files>>

Next ==
    \/ \E f \in Frames : Push(f)
    \/ \E f \in Frames : Write(f)
    \/ Pop
    \/ \E idx \in 1 .. MaxDepth + 1 : CloneSheet(idx)
    \/ CloneParent

Spec == Init /\ [][Next]_vars

-----------------------------------------------------------------------------
(* Exactly the sheets below the top are on disk, their memory is really    *)
(* freed, and the swap directory holds nothing else: a leaked or reused    *)
(* sheet_<index>.bin would hand an old table to a new sheet.               *)
SwapDiscipline ==
    /\ Len(sheets) \in 1 .. MaxDepth
    /\ swapped = 1 .. Len(sheets) - 1
    /\ DOMAIN files = swapped
    /\ \A i \in DOMAIN sheets : sheets[i] = Placeholder <=> i \in swapped

(* What the caller sees of the stack: wherever its table is, it is there.  *)
Contents == [i \in DOMAIN sheets |-> IF i \in swapped THEN files[i] ELSE sheets[i]]

Abstract == INSTANCE FrameStack WITH stack <- Contents

(* The stack with its swap files behaves as a plain stack of tables: no    *)
(* dive, return, edit or peek at a lower sheet ever loses, mixes up or     *)
(* goes back to an older version of a table (SheetStack's contract).       *)
ImplementsFrameStack == Abstract!Spec
=============================================================================
