---------------------------- MODULE MC_JoinDialog ----------------------------
(* A directory with three tables, of one or two columns, each sharing a    *)
(* name with another; the third may also be the result of a join.          *)
EXTENDS JoinDialog, TLC

CONSTANTS orders, people, towns, folder

MCFrames == {orders, people, towns, folder}
MCColumns == (orders :> <<"id", "amount">>) @@ (people :> <<"town", "id">>)
             @@ (towns :> <<"town">>) @@ (folder :> <<"name">>)
MCOverviews == {folder}
MCBeside == [f \in MCFrames |->
    IF f = towns THEN <<>> ELSE <<orders, people, towns>>]
=============================================================================
