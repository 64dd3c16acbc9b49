----------------------------- MODULE FrameStack -----------------------------
(***************************************************************************)
(* What the sheet stack of tuitab promises its callers: a plain, never     *)
(* empty stack of tables.  Diving into a sheet pushes a table, leaving it  *)
(* pops one, editing replaces the top one, and a table anywhere in the     *)
(* stack can be read without disturbing any of them.                       *)
(*                                                                         *)
(* Nothing here knows that the tables below the top live in swap files;    *)
(* SheetStack.tla models that and is shown to implement this module.       *)
(***************************************************************************)
EXTENDS Integers, Sequences

CONSTANTS
    Frames,     \* the contents a table may have
    Nothing,    \* what a caller sees when there is no table to hand over
    MaxDepth    \* bound: how deep the user dives

VARIABLES
    stack,      \* the tables, the active one last
    taken       \* the table the last call handed to its caller

vars == <<stack, taken>>

TypeOK ==
    /\ stack \in Seq(Frames)
    /\ taken \in Frames \cup {Nothing}

Init ==
    /\ \E f \in Frames : stack = <<f>>
    /\ taken = Nothing

Push(f) ==
    /\ Len(stack) < MaxDepth
    /\ stack' = Append(stack, f)
    /\ taken' = Nothing

Pop ==
    /\ Len(stack) > 1
    /\ stack' = SubSeq(stack, 1, Len(stack) - 1)
    /\ taken' = stack[Len(stack)]

Write(f) ==
    /\ stack' = [stack EXCEPT ![Len(stack)] = f]
    /\ taken' = Nothing

\* Reading the table at a position; there may be none there.
Read(i) ==
    /\ taken' = IF i \in DOMAIN stack THEN stack[i] ELSE Nothing
    /\ UNCHANGED stack

Next ==
    \/ \E f \in Frames : Push(f) \/ Write(f)
    \/ Pop
    \/ \E i \in 0 .. MaxDepth + 1 : Read(i)

Spec == Init /\ [][Next]_vars
=============================================================================
