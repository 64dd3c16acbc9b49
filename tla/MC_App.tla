------------------------------- MODULE MC_App -------------------------------
(* Tables of one and two columns, an empty sheet, a listing and a document. *)
EXTENDS App, TLC

CONSTANTS blank, narrow, wide, listing, doc

MCFrames == {blank, narrow, wide, listing, doc}
MCWidth == (blank :> 0) @@ (wide :> 2) @@ [f \in {narrow, listing, doc} |-> 1]
MCListings == {listing}
MCDocs == {doc}
=============================================================================
