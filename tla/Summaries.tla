------------------------------ MODULE Summaries ------------------------------
(***************************************************************************)
(* The tables computed from the rows on screen: frequency tables of one    *)
(* and of several columns, groups with their sums (data/dataframe.rs,      *)
(* data/group.rs), pivots, bars of a chart (ui/charts.rs) and transposed   *)
(* tables (data/transpose.rs).  Of the aggregators Sum stands for all.     *)
(* An operator that the code lets fail returns Refused.                    *)
(***************************************************************************)
EXTENDS Frames

Refused == [refused |-> TRUE]

SumName(name) == name \o <<":sum">>

\* The positions of the first row of each group, in the order they appear.
KeyOf(row, keys) == [n \in keys |-> row[n]]
\* Mutant: rows with a NULL among their keys make no group.
FirstOfFullGroups(rows, keys) ==
    {i \in DOMAIN rows :
        /\ Null \notin {rows[i][n] : n \in keys}
        /\ \A j \in 1 .. i - 1 : KeyOf(rows[j], keys) # KeyOf(rows[i], keys)}
FirstOfGroups(rows, keys) ==
    {i \in DOMAIN rows : \A j \in 1 .. i - 1 : KeyOf(rows[j], keys) # KeyOf(rows[i], keys)}
GroupOf(rows, keys, i) == {j \in DOMAIN rows : KeyOf(rows[j], keys) = KeyOf(rows[i], keys)}

SumOver(rows, S, name) ==
    SumOf([j \in DOMAIN rows |->
            IF j \in S /\ rows[j][name] # Null THEN rows[j][name] ELSE 0])

\* Columns marked with `+` outside these; all that sum() is compatible with.
Aggregated(f, except) ==
    {i \in DOMAIN f.columns \ except : f.columns[i].summed /\ Numeric(f, i)}
SumColumn(c) == Column(SumName(c.name), c.type)
SumColumns(f, aggs) == [k \in 1 .. Cardinality(aggs) |-> SumColumn(f.columns[Listed(aggs)[k]])]
\* The keys and the sums of the group of row i.
GroupLine(rows, keys, sums, i) ==
    [n \in keys \cup Range(Names(sums)) |->
        IF n \in keys THEN rows[i][n] ELSE SumOver(rows, GroupOf(rows, keys, i), Front(n))]
\* The same metadata without its aggregators.
Plain(c) == [c EXCEPT !.summed = FALSE]

\* In eighths of a block, rounded half up.
BuildBar(count, max) ==
    IF max = 0 THEN Empty
    ELSE [k \in 1 .. (count * 320 + max) \div (2 * max) |-> "|"]

\* What the two frequency tables share: the groups of `keys`, each with its count,
\* sums, share and bar, most frequent first.  with_column puts Pct and Bar in the
\* place of a column of that name, but their headers are appended all the same.
MoreFrequent(S, counts) ==
    {p \in S \X S :
        counts[p[1]] > counts[p[2]] \/ (counts[p[1]] = counts[p[2]] /\ p[1] < p[2])}
FrequencyLine(rows, keys, sums, counts, i) ==
    LET firsts == FirstOfGroups(rows, keys)
        counted == SumOf([j \in DOMAIN rows |-> IF j \in firsts THEN counts[j] ELSE 0])
        total == IF counted > 1 THEN counted ELSE 1
        most == Max({counts[j] : j \in firsts} \cup {0})
    IN  [n \in {Pct, Bar, Count} \cup keys \cup Range(Names(sums)) |->
            CASE n = Pct -> (counts[i] * 100) \div total
              [] n = Bar -> BuildBar(counts[i], most)
              [] n = Count -> counts[i]
              [] OTHER -> GroupLine(rows, keys, sums, i)[n]]
Ranking(f, keys, counts, headers, aggs) ==
    LET rows == Visible(f)
        names == NamesOf(f, keys)
        firsts == FirstOfGroups(rows, Range(names))
        ranked == InOrder(firsts, MoreFrequent(firsts, counts))
        sums == SumColumns(f, aggs)
        grouped == names \o <<Count>> \o Names(sums)
    IN  IF ~Distinct(grouped) THEN Refused
        ELSE FromParts(
                headers \o <<Column(Count, "number")>> \o sums
                        \o <<Column(Pct, "share"), Column(Bar, "text")>>,
                grouped \o Retain(<<Pct, Bar>>, {Pct, Bar} \ Range(grouped)),
                [k \in 1 .. Cardinality(firsts) |->
                    FrequencyLine(rows, Range(names), sums, counts, ranked[k])])

\* Rows counted one by one.
RowCounts(rows, keys) == [i \in DOMAIN rows |-> Cardinality(GroupOf(rows, keys, i))]
BuildFrequencyTable(f, col) ==
    Ranking(f, {col}, RowCounts(Visible(f), {f.columns[col].name}),
            <<Plain(f.columns[col])>>, Aggregated(f, {}))

\* Values counted, and only of the first of the columns: count() passes over NULL.
ValueCounts(rows, keys, first) ==
    [i \in DOMAIN rows |-> Cardinality({j \in GroupOf(rows, keys, i) : rows[j][first] # Null})]
PinnedKeys(f, cols) ==
    [k \in 1 .. Cardinality(cols) |-> [Plain(f.columns[Listed(cols)[k]]) EXCEPT !.pinned = TRUE]]
BuildMultiFrequencyTable(f, cols) ==
    LET names == NamesOf(f, cols)
    IN  Ranking(f, cols, ValueCounts(Visible(f), Range(names), names[1]),
                PinnedKeys(f, cols), Aggregated(f, cols))

\* Groups in the order they first appear, with exactly the sums asked for.
GroupBy(f, cols, aggs) ==
    LET rows == Visible(f)
        names == NamesOf(f, cols)
        firsts == FirstOfGroups(rows, Range(names))
        keys == [k \in DOMAIN names |-> f.columns[Listed(cols)[k]]]
        sums == SumColumns(f, aggs)
    IN  IF ~Distinct(names \o Names(sums)) THEN Refused
        ELSE FromParts(keys \o sums, names \o Names(sums),
                       [k \in 1 .. Cardinality(firsts) |->
                            GroupLine(rows, Range(names), sums, Listed(firsts)[k])])

-----------------------------------------------------------------------------
(* Pivots.  The rows are grouped with Polars' unstable group_by, so that   *)
(* the order of the groups, and with it that of the pivot's rows and       *)
(* columns, is any: `order` lists one row of each group.                   *)

PivotGroups(f, index, pivot) ==
    LET groups == FirstOfGroups(Visible(f), Range(NamesOf(f, index)) \cup {f.columns[pivot].name})
    IN  Bijection(1 .. Cardinality(groups), groups)

\* unique_stable
Unique(s) == LET firsts == {i \in DOMAIN s : \A j \in 1 .. i - 1 : s[j] # s[i]}
             IN  [k \in 1 .. Cardinality(firsts) |-> s[Listed(firsts)[k]]]

\* Polars names the columns.
PivotName(type, v) == IF v = Null THEN <<"null">> ELSE Cast(type, v)

\* The formula is sum(measure); a pair without rows has no value.
PivotCell(rows, keys, on, measure, line, v) ==
    LET S == {i \in DOMAIN rows : KeyOf(rows[i], keys) = line /\ rows[i][on] = v}
    IN  IF S = {} THEN Null ELSE SumOver(rows, S, measure)
CreatePivotTable(f, index, pivot, measure, order) ==
    LET rows == Visible(f)
        keys == NamesOf(f, index)
        on == f.columns[pivot]
        lines == Unique([k \in DOMAIN order |-> KeyOf(rows[order[k]], Range(keys))])
        values == Unique([k \in DOMAIN order |-> rows[order[k]][on.name]])
        names == [k \in DOMAIN values |-> PivotName(on.type, values[k])]
        type == f.columns[ColumnIndex(f, measure)].type
    IN  IF ~Distinct(keys \o names) THEN Refused
        ELSE FromParts(
                PinnedKeys(f, index) \o [k \in DOMAIN names |-> Column(names[k], type)],
                keys \o names,
                [r \in DOMAIN lines |->
                    [n \in Range(keys \o names) |->
                        IF n \in Range(keys) THEN lines[r][n]
                        ELSE PivotCell(rows, Range(keys), on.name, measure, lines[r],
                                       values[CHOOSE k \in DOMAIN names : names[k] = n])]])

-----------------------------------------------------------------------------
(* The bars over a column of texts: one for every text, as it is shown.    *)

Bars(f, i) == {TextAt(f, k, i) : k \in DOMAIN f.row_order}

-----------------------------------------------------------------------------
(* Transposition.                                                          *)

RowName(row) == <<"row">> \o Numeral(row - 1)

\* The headers become the column "column" and each row a column, all text; of a
\* table this made, the first column becomes the headers again.
Turned(f) ==
    LET n == Len(f.row_order)
        skipped == IF f.transposed THEN 1 ELSE 0
        labels == [i \in 1 .. Len(f.columns) - skipped |-> f.columns[i + skipped].name]
        headers == [k \in 1 .. n |-> IF f.transposed THEN TextAt(f, k, 1)
                                     ELSE RowName(f.row_order[k])]
        names == IF f.transposed THEN headers ELSE <<<<"column">>>> \o headers
        label == IF f.transposed THEN <<>>
                 ELSE <<[Column(<<"column">>, "text") EXCEPT !.pinned = TRUE]>>
        Line(i) ==
            [name \in Range(names) |->
                IF ~f.transposed /\ name = <<"column">> THEN labels[i]
                ELSE TextAt(f, CHOOSE k \in 1 .. n : headers[k] = name, i + skipped)]
    IN  IF n = 0 \/ ~Distinct(names) THEN Refused
        ELSE FromParts(label \o [k \in 1 .. n |-> Column(headers[k], "text")],
                       names, [i \in DOMAIN labels |-> Line(i)])

\* Mutant: the result is not marked as one.
TransposeTableUnmarked(f) == Turned(f)
TransposeTable(f) ==
    LET g == Turned(f)
    IN  IF g = Refused THEN Refused ELSE [g EXCEPT !.transposed = ~f.transposed]

\* One row stood on end.
TransposeRow(f, row) ==
    FromParts(<<Column(<<"Column">>, "text"), Column(<<"Value">>, "text")>>,
              <<<<"Column">>, <<"Value">>>>,
              [i \in DOMAIN f.columns |->
                  [n \in {<<"Column">>, <<"Value">>} |->
                      IF n = <<"Column">> THEN f.columns[i].name
                      ELSE Text(f.columns[i].type, GetPhysical(f, row, i))]])
=============================================================================
