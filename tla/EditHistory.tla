---------------------------- MODULE EditHistory ----------------------------
(***************************************************************************)
(* What undo promises: a line of remembered states with a mark on the one  *)
(* shown.  Undo and redo only move the mark; a new edit adds a state after *)
(* the mark and forgets what was ahead of it; at most MaxUndo states are   *)
(* kept behind the mark, the oldest forgotten first.  The state shown may  *)
(* also be touched without an edit (marking rows, drawing the footer).     *)
(***************************************************************************)
EXTENDS Integers, Sequences

CONSTANT MaxUndo    \* how many states are kept behind the mark

VARIABLES
    timeline,   \* the remembered states, oldest first
    now         \* the position of the state shown

vars == <<timeline, now>>

Init == Len(timeline) = 1 /\ now = 1

\* The part of the line a new edit builds on.
Kept ==
    LET oldest == IF now > MaxUndo THEN now - MaxUndo + 1 ELSE 1
    IN  SubSeq(timeline, oldest, now)

Edit ==
    /\ now' = Len(Kept) + 1
    /\ Len(timeline') = now'
    /\ SubSeq(timeline', 1, now' - 1) = Kept

Touch ==
    /\ now' = now
    /\ \E shown \in {timeline'[now]} : timeline' = [timeline EXCEPT ![now] = shown]

Undo == now > 1 /\ now' = now - 1 /\ UNCHANGED timeline

Redo == now < Len(timeline) /\ now' = now + 1 /\ UNCHANGED timeline

\* An edit that is refused half way still forgets what an edit forgets.
Refused ==
    /\ timeline' = Kept
    /\ now' = Len(Kept)

Next == Edit \/ Touch \/ Undo \/ Redo \/ Refused

Spec == Init /\ [][Next]_vars
=============================================================================
