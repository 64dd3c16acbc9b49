---------------------------- MODULE MC_DocSheets ----------------------------
(* A list of two records, one nested and one without a key of the other,   *)
(* or a dictionary of a value and a list.                                  *)
EXTENDS DocSheets

MCKeys == {"a", "c"}
MCTexts == {"7"}
MCNumbers == {"7"}
MCBlanks == {""}
Str(v) == <<"str", v>>
MCRecords ==
    <<"list", <<<<"dict", <<<<"a", Str("x")>>, <<"b", <<"dict", <<<<"a", <<"int", "7">>>>>>>>>>>>>>,
                <<"dict", <<<<"b", Str("y")>>>>>>>>>>
MCConfig == <<"dict", <<<<"a", Str("x")>>, <<"b", <<"list", <<Str("y"), Str("x")>>>>>>>>>>
MCFiles == {MCRecords}
MCTyped == {<<"list", <<Str("y")>>>>}
MCNodes ==
    UNION {{n} \cup {Get(n, p) : p \in Places(n)} : n \in {MCRecords, MCConfig} \cup MCTyped}
MCTargets == {<<>>, <<Idx(2)>>, <<Idx(1), Key("b")>>}
\* How far the sheets are from those of a file just opened: what is open above the
\* first sheet, what was edited, queried or read again, and how the sheets are turned.
Effort ==
    LET sorted == {i \in DOMAIN sheets : sheets[i].marked}
        turned == {i \in DOMAIN sheets : /\ sheets[i].doc # 0
                                         /\ sheets[i].view.mode # AutoMode(Get(Root(sheets[i]), sheets[i].view.anchor))}
        open == UNION {{<<i, p>> : p \in sheets[i].view.expanded} : i \in DOMAIN sheets}
    IN  Len(sheets) - 1 + Revisions + Len(docs) - 1
        + Cardinality(sorted) + Cardinality(turned) + Cardinality(open)

CONSTANT MaxEffort
Bounded == Effort <= MaxEffort
=============================================================================
