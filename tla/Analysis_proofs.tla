--------------------------- MODULE Analysis_proofs ---------------------------
EXTENDS Analysis, Orders_proofs

-----------------------------------------------------------------------------
(* Texts and values.                                                       *)

LEMMA NumeralShape ==
  ASSUME NEW n \in Int
  PROVE  \E a \in Nat : /\ a = (IF n < 0 THEN -n ELSE n)
                        /\ Numeral(n) \in [1 .. 1 + a -> Words]
                        /\ Numeral(n)[1] = IF n < 0 THEN "-" ELSE "+"
<1> DEFINE a == IF n < 0 THEN -n ELSE n
<1>1. a \in Nat
  OBVIOUS
<1>2. Numeral(n) = [i \in 1 .. 1 + a |-> IF i > 1 THEN "1" ELSE IF n < 0 THEN "-" ELSE "+"]
  BY DEF Numeral
<1>3. 1 \in 1 .. 1 + a
  BY <1>1
<1> HIDE DEF a
<1> DEFINE first == IF n < 0 THEN "-" ELSE "+"
           word(i) == IF i > 1 THEN "1" ELSE first
<1>s. "1" \in Words /\ "-" \in Words /\ "+" \in Words
  BY WordsAssumption DEF OwnWords
<1>4. first \in Words /\ \A i \in 1 .. 1 + a : word(i) \in Words
  BY <1>s, Zenon
<1>5. Numeral(n) = [i \in 1 .. 1 + a |-> word(i)] /\ word(1) = first
  BY <1>2
<1> HIDE DEF word
<1>6. Numeral(n) \in [1 .. 1 + a -> Words] /\ Numeral(n)[1] = first
  BY <1>3, <1>4, <1>5
<1> QED BY <1>1, <1>6 DEF a

LEMMA NumeralIsText == ASSUME NEW n \in Int PROVE Numeral(n) \in Texts
<1>1. PICK a \in Nat : Numeral(n) \in [1 .. 1 + a -> Words]
  BY NumeralShape
<1>2. 1 + a \in Nat
  OBVIOUS
<1> DEFINE l == 1 + a
<1> HIDE DEF l
<1>3. l \in Nat /\ Numeral(n) \in [1 .. l -> Words]
  BY <1>1, <1>2 DEF l
<1> QED BY <1>3, SeqDef DEF Texts

\* No two numbers have one text.
LEMMA NumeralInjective ==
  ASSUME NEW m \in Int, NEW n \in Int, Numeral(m) = Numeral(n) PROVE m = n
<1>1. PICK a \in Nat : /\ a = (IF m < 0 THEN -m ELSE m)
                       /\ Numeral(m) \in [1 .. 1 + a -> Words]
                       /\ Numeral(m)[1] = IF m < 0 THEN "-" ELSE "+"
  BY NumeralShape
<1>2. PICK b \in Nat : /\ b = (IF n < 0 THEN -n ELSE n)
                       /\ Numeral(n) \in [1 .. 1 + b -> Words]
                       /\ Numeral(n)[1] = IF n < 0 THEN "-" ELSE "+"
  BY NumeralShape
<1>3. 1 .. 1 + a = 1 .. 1 + b
  BY <1>1, <1>2
<1>4. a = b
  BY <1>3
<1>5. m < 0 <=> n < 0
  BY <1>1, <1>2
<1> QED BY <1>1, <1>2, <1>4, <1>5

LEMMA TextIsText ==
  ASSUME NEW type \in Types, NEW v \in Values(type)
  PROVE  Text(type, v) \in Texts
<1>1. Empty \in Texts
  BY DEF Empty, Texts
<1> QED BY <1>1, NumeralIsText DEF Text, Values, Types

LEMMA WholeIsNumber ==
  ASSUME NEW type \in Types, NEW v \in Values(type), Whole(type, v)
  PROVE  v \in Int /\ type # "text" /\ Cast(type, v) = Append(Numeral(v), ".0")
BY DEF Whole, Values, Cast

LEMMA CastIsText ==
  ASSUME NEW type \in Types, NEW v \in Values(type)
  PROVE  Cast(type, v) \in Texts
<1>1. ".0" \in Words
  BY WordsAssumption DEF OwnWords
<1>2. CASE Whole(type, v)
  <2>1. Numeral(v) \in Seq(Words)
    BY <1>2, WholeIsNumber, NumeralIsText DEF Texts
  <2>2. Append(Numeral(v), ".0") \in Seq(Words)
    BY <1>1, <2>1
  <2> QED BY <1>2, <2>2, WholeIsNumber DEF Texts
<1>3. CASE ~Whole(type, v)
  BY <1>3, TextIsText DEF Cast
<1> QED BY <1>2, <1>3

-----------------------------------------------------------------------------
(* What a frame is.                                                        *)

Framed(c, d, r, o, g, s, t) ==
    [columns |-> c, df |-> d, rows |-> r, row_order |-> o, original_order |-> g,
     selected_rows |-> s, transposed |-> t]

\* The columns, the Polars frame and the cells.
TableOK(c, d, r) ==
    /\ c \in Seq(ColumnMeta) /\ d \in Seq(Texts)
    /\ IsList(r)
    /\ Distinct(d)
    /\ \A i \in DOMAIN r : DOMAIN r[i] = Range(d)
    /\ Names(c) = d => \A i \in DOMAIN r, k \in DOMAIN c : r[i][d[k]] \in Values(c[k].type)

\* The index lists.
ListsOK(r, o, g, s) ==
    /\ o \in Seq(Nat) /\ g \in Seq(Nat) /\ s \in SUBSET Nat
    /\ Range(o) \cup s \subseteq DOMAIN r
    /\ Range(o) = Range(g)
    /\ Distinct(o) /\ Distinct(g)

LEMMA FrameIsParts ==
  ASSUME NEW f, FrameOK(f)
  PROVE  /\ f = Framed(f.columns, f.df, f.rows, f.row_order, f.original_order,
                       f.selected_rows, f.transposed)
         /\ TableOK(f.columns, f.df, f.rows)
         /\ ListsOK(f.rows, f.row_order, f.original_order, f.selected_rows)
         /\ f.row_order # <<>> => f.columns # <<>>
         /\ f.transposed \in BOOLEAN
<1> USE DEF FrameOK
<1>1. f = Framed(f.columns, f.df, f.rows, f.row_order, f.original_order,
                 f.selected_rows, f.transposed)
  BY DEF Framed
<1>2. TableOK(f.columns, f.df, f.rows)
  BY DEF TableOK, InStep, GetPhysical
<1>3. ListsOK(f.rows, f.row_order, f.original_order, f.selected_rows)
  BY DEF ListsOK
<1> QED BY <1>1, <1>2, <1>3

LEMMA PartsAreFrame ==
  ASSUME NEW c, NEW d, NEW r, NEW o, NEW g, NEW s, NEW t \in BOOLEAN,
         TableOK(c, d, r), ListsOK(r, o, g, s), o # <<>> => c # <<>>
  PROVE  FrameOK(Framed(c, d, r, o, g, s, t))
<1> DEFINE f == Framed(c, d, r, o, g, s, t)
<1>1. /\ f.columns = c /\ f.df = d /\ f.rows = r /\ f.row_order = o
      /\ f.original_order = g /\ f.selected_rows = s /\ f.transposed = t
  BY DEF Framed
<1>2. f \in [ columns : Seq(ColumnMeta), df : Seq(Texts), rows : {f.rows},
              row_order : Seq(Nat), original_order : Seq(Nat),
              selected_rows : SUBSET Nat, transposed : BOOLEAN ]
  BY DEF Framed, TableOK, ListsOK
<1> HIDE DEF f
<1>3. FrameOK(f)
  BY <1>1, <1>2 DEF FrameOK, TableOK, ListsOK, InStep, GetPhysical
<1> QED BY <1>3 DEF f

\* Other index lists in the place of those of a frame.
Relisted(f, o, g, s) == [f EXCEPT !.row_order = o, !.original_order = g, !.selected_rows = s]

LEMMA ExceptLists ==
  ASSUME NEW f, FrameOK(f), NEW o, NEW g, NEW s
  PROVE  /\ [f EXCEPT !.row_order = o]
            = Framed(f.columns, f.df, f.rows, o, f.original_order, f.selected_rows, f.transposed)
         /\ [f EXCEPT !.selected_rows = s]
            = Framed(f.columns, f.df, f.rows, f.row_order, f.original_order, s, f.transposed)
         /\ [f EXCEPT !.row_order = o, !.original_order = g]
            = Framed(f.columns, f.df, f.rows, o, g, f.selected_rows, f.transposed)
<1>1. PICK c, d, r, a, b, e, t : f = Framed(c, d, r, a, b, e, t)
  BY FrameIsParts
<1>2. /\ f.columns = c /\ f.df = d /\ f.rows = r /\ f.row_order = a
      /\ f.original_order = b /\ f.selected_rows = e /\ f.transposed = t
  BY <1>1 DEF Framed
<1>3. [f EXCEPT !.row_order = o] = Framed(c, d, r, o, b, e, t)
  BY <1>1 DEF Framed
<1>4. [f EXCEPT !.selected_rows = s] = Framed(c, d, r, a, b, s, t)
  BY <1>1 DEF Framed
<1> DEFINE h == [f EXCEPT !.row_order = o]
           i == [f EXCEPT !.row_order = o, !.original_order = g]
<1>5. i = Framed(c, d, r, o, g, e, t)
  <2>1. i = [h EXCEPT !.original_order = g]
    OBVIOUS
  <2> HIDE DEF h, i
  <2>2. [h EXCEPT !.original_order = g] = Framed(c, d, r, o, g, e, t)
    <3>1. h = Framed(c, d, r, o, b, e, t)
      BY <1>3 DEF h
    <3> QED BY <3>1 DEF Framed
  <2> QED BY <2>1, <2>2
<1> QED BY <1>2, <1>3, <1>4, <1>5

LEMMA RelistedIs ==
  ASSUME NEW f, FrameOK(f), NEW o, NEW g, NEW s
  PROVE  Relisted(f, o, g, s) = Framed(f.columns, f.df, f.rows, o, g, s, f.transposed)
<1> DEFINE i == [f EXCEPT !.row_order = o, !.original_order = g]
<1>1. i = Framed(f.columns, f.df, f.rows, o, g, f.selected_rows, f.transposed)
  BY ExceptLists
<1>2. Relisted(f, o, g, s) = [i EXCEPT !.selected_rows = s]
  BY DEF Relisted
<1> HIDE DEF i
<1>3. [i EXCEPT !.selected_rows = s]
      = Framed(f.columns, f.df, f.rows, o, g, s, f.transposed)
  BY <1>1 DEF Framed
<1> QED BY <1>2, <1>3

LEMMA NamesType ==
  ASSUME NEW c \in Seq(ColumnMeta)
  PROVE  /\ Names(c) \in Seq(Texts) /\ Len(Names(c)) = Len(c) /\ DOMAIN Names(c) = DOMAIN c
         /\ \A i \in DOMAIN c : Names(c)[i] = c[i].name /\ c[i].name \in Texts
<1>1. DOMAIN c = 1 .. Len(c) /\ Len(c) \in Nat
  OBVIOUS
<1>2. \A i \in DOMAIN c : c[i].name \in Texts
  <2>1. \A m \in ColumnMeta : m.name \in Texts
    BY DEF ColumnMeta
  <2> QED BY <1>1, <2>1
<1>3. Names(c) = [i \in 1 .. Len(c) |-> c[i].name]
  BY <1>1 DEF Names
<1> QED BY <1>1, <1>2, <1>3

LEMMA SeqFacts ==
  ASSUME NEW T, NEW s \in Seq(T)
  PROVE  /\ DOMAIN s = 1 .. Len(s) /\ Len(s) \in Nat
         /\ Range(s) \subseteq T
         /\ \A i \in DOMAIN s : s[i] \in T /\ s[i] \in Range(s)
<1>1. DOMAIN s = 1 .. Len(s) /\ Len(s) \in Nat /\ \A i \in DOMAIN s : s[i] \in T
  OBVIOUS
<1>2. \A x : x \in Range(s) <=> \E i \in DOMAIN s : s[i] = x
  BY InRange
<1>3. Range(s) \subseteq T
  BY <1>1, <1>2
<1>4. \A i \in DOMAIN s : s[i] \in Range(s)
  BY <1>2
<1>5. \A i \in DOMAIN s : s[i] \in T /\ s[i] \in Range(s)
  BY <1>1, <1>4
<1>6. DOMAIN s = 1 .. Len(s) /\ Len(s) \in Nat
  BY <1>1
<1> QED BY <1>3, <1>5, <1>6

\* The rows on screen.
LEMMA VisibleShape ==
  ASSUME NEW f, FrameOK(f)
  PROVE  /\ DOMAIN f.row_order = 1 .. Len(f.row_order) /\ Len(f.row_order) \in Nat
         /\ \A k \in DOMAIN f.row_order : f.row_order[k] \in DOMAIN f.rows
         /\ DOMAIN Visible(f) = 1 .. Len(f.row_order)
         /\ \A k \in DOMAIN f.row_order : /\ Visible(f)[k] = f.rows[f.row_order[k]]
                                          /\ DOMAIN Visible(f)[k] = Range(f.df)
<1>1. /\ f.row_order \in Seq(Nat) /\ Range(f.row_order) \subseteq DOMAIN f.rows
      /\ \A i \in DOMAIN f.rows : DOMAIN f.rows[i] = Range(f.df)
  BY FrameIsParts DEF ListsOK, TableOK
<1>2. /\ DOMAIN f.row_order = 1 .. Len(f.row_order) /\ Len(f.row_order) \in Nat
      /\ \A k \in DOMAIN f.row_order : f.row_order[k] \in Range(f.row_order)
  <2> DEFINE o == f.row_order
  <2>1. o \in Seq(Nat)
    BY <1>1
  <2> HIDE DEF o
  <2>2. /\ DOMAIN o = 1 .. Len(o) /\ Len(o) \in Nat
        /\ \A k \in DOMAIN o : o[k] \in Range(o)
    BY <2>1, InRange
  <2> QED BY <2>2 DEF o
<1>3. \A k \in DOMAIN f.row_order : f.row_order[k] \in DOMAIN f.rows
  BY <1>1, <1>2, Zenon
<1> QED BY <1>1, <1>2, <1>3 DEF Visible

LEMMA RegularShape ==
  ASSUME NEW f, FrameOK(f), InStep(f)
  PROVE  /\ DOMAIN f.columns = 1 .. Len(f.columns) /\ Len(f.columns) \in Nat
         /\ DOMAIN f.df = DOMAIN f.columns /\ Len(f.df) = Len(f.columns)
         /\ f.columns \in Seq(ColumnMeta) /\ f.df \in Seq(Texts)
         /\ \A i \in DOMAIN f.columns :
               /\ f.df[i] = f.columns[i].name /\ f.columns[i].name \in Texts
               /\ f.columns[i].name \in Range(f.df)
               /\ f.columns[i] \in ColumnMeta /\ f.columns[i].type \in Types
         /\ \A i, j \in DOMAIN f.columns : f.columns[i].name = f.columns[j].name => i = j
         /\ \A x \in Range(f.df) : \E i \in DOMAIN f.columns : f.columns[i].name = x
<1>1. f.columns \in Seq(ColumnMeta) /\ f.df \in Seq(Texts) /\ Distinct(f.df)
  BY FrameIsParts DEF TableOK
<1>2. Names(f.columns) = f.df
  BY DEF InStep
<1>3. /\ f.df \in Seq(Texts) /\ Len(f.df) = Len(f.columns) /\ DOMAIN f.df = DOMAIN f.columns
      /\ \A i \in DOMAIN f.columns : f.df[i] = f.columns[i].name /\ f.columns[i].name \in Texts
  BY <1>1, <1>2, NamesType
<1>4. DOMAIN f.columns = 1 .. Len(f.columns) /\ Len(f.columns) \in Nat
      /\ \A i \in DOMAIN f.columns : f.columns[i] \in ColumnMeta
  BY <1>1, SeqFacts
<1>5. \A m \in ColumnMeta : m.type \in Types
  BY DEF ColumnMeta
<1>6. \A i, j \in DOMAIN f.columns : f.columns[i].name = f.columns[j].name => i = j
  BY <1>1, <1>3 DEF Distinct
<1>7. \A i \in DOMAIN f.columns : f.columns[i].name \in Range(f.df)
  BY <1>3, InRange
<1>8. \A x \in Range(f.df) : \E i \in DOMAIN f.columns : f.columns[i].name = x
  BY <1>3, InRange
<1> QED BY <1>1, <1>3, <1>4, <1>5, <1>6, <1>7, <1>8

LEMMA CellTypes ==
  ASSUME NEW f, FrameOK(f), InStep(f)
  PROVE  /\ \A r \in DOMAIN f.rows, i \in DOMAIN f.columns :
               f.rows[r][f.columns[i].name] \in Values(f.columns[i].type)
         /\ \A k \in DOMAIN f.row_order, i \in DOMAIN f.columns :
               /\ Visible(f)[k][f.columns[i].name] \in Values(f.columns[i].type)
               /\ GetVal(f, k, i) = Visible(f)[k][f.columns[i].name]
               /\ GetPhysical(f, f.row_order[k], i) = Visible(f)[k][f.columns[i].name]
<1>1. \A r \in DOMAIN f.rows, i \in DOMAIN f.columns : f.rows[r][f.df[i]] \in Values(f.columns[i].type)
  BY FrameIsParts DEF TableOK, InStep
<1>2. \A i \in DOMAIN f.columns : f.df[i] = f.columns[i].name
  BY RegularShape
<1>3. \A k \in DOMAIN f.row_order : f.row_order[k] \in DOMAIN f.rows
                                    /\ Visible(f)[k] = f.rows[f.row_order[k]]
  BY VisibleShape
<1> QED BY <1>1, <1>2, <1>3 DEF GetVal, GetPhysical

-----------------------------------------------------------------------------
(* A table made of parts, or with other index lists.                       *)

LEMMA MadeTable ==
  ASSUME NEW c, NEW d, NEW r, TableOK(c, d, r), r # <<>> => c # <<>>
  PROVE  /\ FrameOK(FromParts(c, d, r))
         /\ FromParts(c, d, r).columns = c /\ FromParts(c, d, r).df = d
         /\ FromParts(c, d, r).rows = r /\ ~FromParts(c, d, r).transposed
<1> DEFINE o == [i \in DOMAIN r |-> i]
<1>1. DOMAIN r = 1 .. Len(r) /\ Len(r) \in Nat
  BY DEF TableOK, IsList
<1>2. o \in Seq(Nat) /\ Distinct(o) /\ DOMAIN o = DOMAIN r /\ (r = <<>> => o = <<>>)
  BY <1>1 DEF Distinct
<1>3. Range(o) = DOMAIN r
  BY InRange DEF Range
<1> HIDE DEF o
<1>4. ListsOK(r, o, o, {})
  BY <1>2, <1>3 DEF ListsOK
<1>5. FromParts(c, d, r) = Framed(c, d, r, o, o, {}, FALSE)
  BY DEF FromParts, Framed, o
<1>6. FrameOK(Framed(c, d, r, o, o, {}, FALSE))
  BY <1>2, <1>4, PartsAreFrame
<1> QED BY <1>5, <1>6 DEF FromParts

LEMMA OtherLists ==
  ASSUME NEW f, FrameOK(f), NEW o, NEW g, NEW s, ListsOK(f.rows, o, g, s),
         o # <<>> => f.row_order # <<>>, NEW h,
         h = Framed(f.columns, f.df, f.rows, o, g, s, f.transposed)
  PROVE  FrameOK(h) /\ (InStep(f) => InStep(h))
<1>1. FrameOK(h)
  BY FrameIsParts, PartsAreFrame
<1>2. h.columns = f.columns /\ h.df = f.df
  BY DEF Framed
<1> QED BY <1>1, <1>2 DEF InStep

-----------------------------------------------------------------------------
(* Commands on rows.                                                       *)

LEMMA RunsBeforeIsOrder ==
  ASSUME NEW n \in Nat, NEW rows, DOMAIN rows = 1 .. n, NEW name, NEW desc \in BOOLEAN,
         \A k \in 1 .. n : rows[k][name] \in Int \cup {Null}
  PROVE  StrictTotalOrder(RunsBefore(rows, name, desc), 1 .. n)
<1> DEFINE R == RunsBefore(rows, name, desc)
           val == [k \in 1 .. n |-> rows[k][name]]
           before(i, j) == \/ KeyBefore(val[i], val[j], desc)
                           \/ ~KeyBefore(val[j], val[i], desc) /\ i < j
<1>1. \A i, j \in 1 .. n : <<i, j>> \in R <=> before(i, j)
  BY DEF RunsBefore
<1>2. val \in [1 .. n -> Int \cup {Null}]
  OBVIOUS
<1> HIDE DEF R, val
<1>3. \A i \in 1 .. n : ~before(i, i)
  BY <1>2, NullAssumption DEF KeyBefore
<1>4. \A i, j \in 1 .. n : i # j => before(i, j) \/ before(j, i)
  BY <1>2, NullAssumption DEF KeyBefore
<1>5. \A i, j, m \in 1 .. n : before(i, j) /\ before(j, m) => before(i, m)
  <2> TAKE i, j, m \in 1 .. n
  <2>1. val[i] \in Int \cup {Null} /\ val[j] \in Int \cup {Null} /\ val[m] \in Int \cup {Null}
    BY <1>2
  <2> QED BY <2>1, NullAssumption DEF KeyBefore
<1> QED BY <1>1, <1>3, <1>4, <1>5 DEF StrictTotalOrder, R

\* A column of numbers holds numbers.
LEMMA NumberColumn ==
  ASSUME NEW f, FrameOK(f), InStep(f), NEW i \in DOMAIN f.columns, Numeric(f, i)
  PROVE  \A k \in DOMAIN f.row_order : Visible(f)[k][f.columns[i].name] \in Int \cup {Null}
<1>1. Values(f.columns[i].type) = Int \cup {Null}
  BY DEF Values, Numeric
<1> QED BY <1>1, CellTypes

LEMMA SortedBijection ==
  ASSUME NEW f, FrameOK(f), InStep(f), NEW i \in DOMAIN f.columns, Numeric(f, i),
         NEW desc \in BOOLEAN
  PROVE  LET n == Len(f.row_order)
         IN  Sorted(Visible(f), f.columns[i].name, desc) \in Bijection(1 .. n, 1 .. n)
<1> DEFINE n == Len(f.row_order)
           R == RunsBefore(Visible(f), f.columns[i].name, desc)
<1>1. n \in Nat /\ DOMAIN Visible(f) = 1 .. n /\ DOMAIN f.row_order = 1 .. n
  BY VisibleShape
<1>2. \A k \in 1 .. n : Visible(f)[k][f.columns[i].name] \in Int \cup {Null}
  BY <1>1, NumberColumn
<1> HIDE DEF n
<1>3. StrictTotalOrder(R, 1 .. n)
  BY <1>1, <1>2, RunsBeforeIsOrder
<1>4. IsFiniteSet(1 .. n) /\ Cardinality(1 .. n) = n
  BY <1>1, FS_Interval
<1>5. Sorted(Visible(f), f.columns[i].name, desc) = InOrder(1 .. n, R)
  BY <1>1 DEF Sorted
<1> HIDE DEF R
<1>6. InOrder(1 .. n, R) \in Bijection(1 .. n, 1 .. n)
  BY <1>3, <1>4, InOrderBijection
<1> QED BY <1>5, <1>6 DEF n

LEMMA SortKeeps ==
  ASSUME NEW f, FrameOK(f), InStep(f), NEW i \in DOMAIN f.columns, Numeric(f, i),
         NEW desc \in BOOLEAN
  PROVE  FrameOK(SortByKey(f, i, desc)) /\ InStep(SortByKey(f, i, desc))
<1> DEFINE n == Len(f.row_order)
           p == Sorted(Visible(f), f.columns[i].name, desc)
           s == f.row_order
           o == [k \in DOMAIN s |-> s[p[k]]]
<1>1. p \in Bijection(1 .. n, 1 .. n)
  BY SortedBijection
<1>2. s \in Seq(Nat) /\ Distinct(s)
  BY FrameIsParts DEF ListsOK
<1>3. DOMAIN s = 1 .. n /\ n \in Nat
  BY <1>2
<1>4. DOMAIN p = 1 .. n
  BY <1>1 DEF Bijection, Injection
<1> HIDE DEF p
<1>5. SortByKey(f, i, desc) = [f EXCEPT !.row_order = o]
  BY <1>3, <1>4 DEF SortByKey, p
<1> HIDE DEF s, n
<1>6. o \in Seq(Nat) /\ Distinct(o) /\ Range(o) = Range(s)
  <2>1. DupFree(s) /\ p \in Bijection(1 .. Len(s), 1 .. Len(s))
    BY <1>1, <1>2 DEF DupFree, Distinct, n, s
  <2>2. o \in Seq(Nat) /\ DupFree(o) /\ Range(o) = Range(s)
    BY <1>2, <2>1, PermutedProperties
  <2> QED BY <2>2 DEF DupFree, Distinct
<1>7. DOMAIN o = DOMAIN s /\ (s = <<>> => o = <<>>)
  BY <1>2
<1> HIDE DEF o
<1>8. [f EXCEPT !.row_order = o]
      = Framed(f.columns, f.df, f.rows, o, f.original_order, f.selected_rows, f.transposed)
  BY ExceptLists
<1>9. ListsOK(f.rows, o, f.original_order, f.selected_rows)
  BY <1>6, FrameIsParts DEF ListsOK, s
<1> QED BY <1>5, <1>7, <1>8, <1>9, OtherLists DEF s

LEMMA EmptyRange ==
  ASSUME NEW T, NEW s \in Seq(T)
  PROVE  s # <<>> <=> Range(s) # {}
<1>1. DOMAIN s = 1 .. Len(s) /\ Len(s) \in Nat
  OBVIOUS
<1>2. ASSUME s # <<>> PROVE Range(s) # {}
  <2>1. 1 \in DOMAIN s
    BY <1>1, <1>2
  <2> QED BY <2>1, InRange
<1>3. ASSUME Range(s) # {} PROVE s # <<>>
  <2>1. \E i : i \in DOMAIN s
    BY <1>3, InRange
  <2> QED BY <2>1
<1> QED BY <1>2, <1>3

LEMMA ResetSortKeeps ==
  ASSUME NEW f, FrameOK(f)
  PROVE  FrameOK(ResetSortOrder(f)) /\ (InStep(f) => InStep(ResetSortOrder(f)))
<1> DEFINE g == f.original_order
<1>1. ListsOK(f.rows, f.row_order, g, f.selected_rows)
  BY FrameIsParts
<1>2. ListsOK(f.rows, g, g, f.selected_rows)
  BY <1>1 DEF ListsOK
<1>3. g # <<>> => f.row_order # <<>>
  BY <1>1, EmptyRange DEF ListsOK
<1>4. ResetSortOrder(f) = Framed(f.columns, f.df, f.rows, g, g, f.selected_rows, f.transposed)
  BY ExceptLists DEF ResetSortOrder
<1> HIDE DEF g
<1> QED BY <1>2, <1>3, <1>4, OtherLists

LEMMA MarkKeeps ==
  ASSUME NEW f, FrameOK(f), NEW s, s \subseteq DOMAIN f.rows
  PROVE  /\ FrameOK([f EXCEPT !.selected_rows = s])
         /\ InStep(f) => InStep([f EXCEPT !.selected_rows = s])
<1>1. ListsOK(f.rows, f.row_order, f.original_order, f.selected_rows)
  BY FrameIsParts
<1>4. DOMAIN f.rows = 1 .. Len(f.rows)
  <2>1. IsList(f.rows)
    BY FrameIsParts DEF TableOK
  <2> QED BY <2>1 DEF IsList
<1>2. ListsOK(f.rows, f.row_order, f.original_order, s)
  BY <1>1, <1>4 DEF ListsOK
<1>3. [f EXCEPT !.selected_rows = s]
      = Framed(f.columns, f.df, f.rows, f.row_order, f.original_order, s, f.transposed)
  BY ExceptLists
<1> QED BY <1>2, <1>3, OtherLists

LEMMA DeleteKeeps ==
  ASSUME NEW f, FrameOK(f)
  PROVE  FrameOK(DeleteSelectedRows(f)) /\ (InStep(f) => InStep(DeleteSelectedRows(f)))
<1> DEFINE kept == DOMAIN f.rows \ f.selected_rows
           s == f.row_order
           t == f.original_order
           o == Retain(s, kept)
           g == Retain(t, kept)
<1>1. ListsOK(f.rows, s, t, f.selected_rows)
  BY FrameIsParts
<1>2. DeleteSelectedRows(f) = Framed(f.columns, f.df, f.rows, o, g, {}, f.transposed)
  <2>1. DeleteSelectedRows(f)
        = [f EXCEPT !.row_order = o, !.original_order = g, !.selected_rows = {}]
    BY DEF DeleteSelectedRows
  <2> DEFINE none == {}
  <2> HIDE DEF o, g, none
  <2>2. Relisted(f, o, g, none) = Framed(f.columns, f.df, f.rows, o, g, none, f.transposed)
    BY RelistedIs
  <2> QED BY <2>1, <2>2 DEF none, Relisted
<1> HIDE DEF kept, s, t
<1>3. s \in Seq(Nat) /\ DupFree(s) /\ t \in Seq(Nat) /\ DupFree(t) /\ Range(s) = Range(t)
      /\ Range(s) \subseteq DOMAIN f.rows
  BY <1>1 DEF ListsOK, DupFree, Distinct
<1>4. o \in Seq(Nat) /\ DupFree(o) /\ Range(o) = Range(s) \cap kept
  BY <1>3, RetainProperties
<1>5. g \in Seq(Nat) /\ DupFree(g) /\ Range(g) = Range(t) \cap kept
  BY <1>3, RetainProperties
<1> HIDE DEF o, g
<1>6. ListsOK(f.rows, o, g, {})
  BY <1>3, <1>4, <1>5 DEF ListsOK, DupFree, Distinct
<1>7. o # <<>> => s # <<>>
  <2>1. (o # <<>> => Range(o) # {}) /\ (Range(s) # {} => s # <<>>)
    BY <1>3, <1>4, EmptyRange
  <2> QED BY <2>1, <1>4
<1> QED BY <1>2, <1>6, <1>7, OtherLists DEF s

\* Positions from first to last.
LEMMA ListedFacts ==
  ASSUME NEW n \in Nat, NEW S \in SUBSET (1 .. n)
  PROVE  /\ IsFiniteSet(S) /\ Cardinality(S) \in Nat
         /\ Listed(S) \in Bijection(1 .. Cardinality(S), S)
         /\ Listed(S) \in Seq(Nat) /\ Len(Listed(S)) = Cardinality(S)
         /\ DOMAIN Listed(S) = 1 .. Cardinality(S)
         /\ \A a \in 1 .. Cardinality(S) : Listed(S)[a] \in S
         /\ \A a, b \in 1 .. Cardinality(S) : Listed(S)[a] = Listed(S)[b] => a = b
         /\ \A t \in S : \E a \in 1 .. Cardinality(S) : Listed(S)[a] = t
         /\ \A a, b \in 1 .. Cardinality(S) : a < b => Listed(S)[a] < Listed(S)[b]
<1> DEFINE m == Cardinality(S)
           p == Listed(S)
<1>1. IsFiniteSet(S) /\ S \in SUBSET Int
  <2>1. IsFiniteSet(S)
    BY CountIsSum
  <2> QED BY <2>1
<1>2. m \in Nat
  BY <1>1, FS_CardinalityType
<1>3. StrictTotalOrder(Ascending(S), S)
  BY <1>1, AscendingIsOrder
<1>4. p \in Bijection(1 .. m, S)
  BY <1>1, <1>3, InOrderBijection DEF Listed
<1>5. \A a, b \in 1 .. m : a < b => <<p[a], p[b]>> \in Ascending(S)
  BY <1>1, <1>3, InOrderAscends DEF Listed
<1>6. DOMAIN p = 1 .. m
  BY DEF Listed, InOrder
<1> HIDE DEF m, p
<1>7. /\ \A a \in 1 .. m : p[a] \in S
      /\ \A a, b \in 1 .. m : p[a] = p[b] => a = b
      /\ \A t \in S : \E a \in 1 .. m : p[a] = t
  BY <1>4, ListingFacts
<1>8. \A a, b \in 1 .. m : a < b => p[a] < p[b]
  BY <1>5 DEF Ascending
<1>9. p \in [1 .. m -> Nat]
  <2>1. p = [a \in 1 .. m |-> p[a]]
    BY <1>4 DEF Bijection, Injection
  <2>2. \A a \in 1 .. m : p[a] \in Nat
    <3>1. \A x \in S : x \in Nat
      OBVIOUS
    <3> QED BY <1>7, <3>1
  <2> QED BY <2>1, <2>2
<1>10. p \in Seq(Nat) /\ Len(p) = m
  BY <1>2, <1>9
<1> QED BY <1>1, <1>2, <1>4, <1>6, <1>7, <1>8, <1>10 DEF m, p

\* A copy that shows some of the rows.
NarrowedOrder(f, shown) == [k \in 1 .. Cardinality(shown) |-> f.row_order[Listed(shown)[k]]]

LEMMA NarrowedLists ==
  ASSUME NEW f, FrameOK(f), NEW shown, shown \subseteq DOMAIN f.row_order
  PROVE  LET o == NarrowedOrder(f, shown)
         IN  /\ o \in Seq(Nat) /\ Distinct(o) /\ Range(o) \subseteq Range(f.row_order)
             /\ Len(o) = Cardinality(shown) /\ Cardinality(shown) \in Nat
             /\ o # <<>> => f.row_order # <<>>
<1> DEFINE s == f.row_order
           n == Len(s)
           m == Cardinality(shown)
           p == Listed(shown)
           o == NarrowedOrder(f, shown)
<1>1. s \in Seq(Nat) /\ Distinct(s) /\ n \in Nat /\ DOMAIN s = 1 .. n
  BY FrameIsParts DEF ListsOK
<1>2. o = [k \in 1 .. m |-> s[p[k]]]
  BY DEF NarrowedOrder
<1> HIDE DEF s, n, o
<1>3. /\ m \in Nat
      /\ \A a \in 1 .. m : p[a] \in 1 .. n
      /\ \A a, b \in 1 .. m : p[a] = p[b] => a = b
  BY <1>1, ListedFacts DEF s
<1> HIDE DEF m, p
<1>4. \A a \in 1 .. m : s[p[a]] \in Nat
  BY <1>1, <1>3
<1>5. o \in Seq(Nat) /\ Len(o) = m /\ DOMAIN o = 1 .. m
  BY <1>2, <1>3, <1>4
<1>6. Distinct(o)
  BY <1>1, <1>2, <1>3 DEF Distinct
<1>7. Range(o) \subseteq Range(s)
  <2> SUFFICES ASSUME NEW x \in Range(o) PROVE x \in Range(s)
    OBVIOUS
  <2>1. PICK a \in 1 .. m : o[a] = x
    BY <1>5, InRange
  <2>2. x = s[p[a]] /\ p[a] \in DOMAIN s
    BY <2>1, <1>1, <1>2, <1>3
  <2> QED BY <2>2, InRange
<1>8. o # <<>> => s # <<>>
  BY <1>1, <1>5, <1>7, EmptyRange
<1> QED BY <1>3, <1>5, <1>6, <1>7, <1>8 DEF o, m, s

LEMMA NarrowedKeeps ==
  ASSUME NEW f, FrameOK(f), NEW shown, shown \subseteq DOMAIN f.row_order
  PROVE  FrameOK(Narrowed(f, shown)) /\ (InStep(f) => InStep(Narrowed(f, shown)))
<1> DEFINE o == NarrowedOrder(f, shown)
<1>1. Narrowed(f, shown) = Framed(f.columns, f.df, f.rows, o, o, f.selected_rows, f.transposed)
  BY ExceptLists DEF Narrowed, NarrowedOrder
<1>2. o \in Seq(Nat) /\ Distinct(o) /\ Range(o) \subseteq Range(f.row_order)
      /\ (o # <<>> => f.row_order # <<>>)
  BY NarrowedLists
<1> HIDE DEF o
<1>3. ListsOK(f.rows, o, o, f.selected_rows)
  BY <1>2, FrameIsParts DEF ListsOK
<1> QED BY <1>1, <1>2, <1>3, OtherLists

-----------------------------------------------------------------------------
(* Commands on columns.                                                    *)

Retabled(f, c, d, r) == [f EXCEPT !.columns = c, !.df = d, !.rows = r]

LEMMA RetabledIs ==
  ASSUME NEW f, FrameOK(f), NEW c, NEW d, NEW r
  PROVE  Retabled(f, c, d, r)
         = Framed(c, d, r, f.row_order, f.original_order, f.selected_rows, f.transposed)
<1>1. PICK a, b, e, o, g, s, t : f = Framed(a, b, e, o, g, s, t)
  BY FrameIsParts
<1> DEFINE h == [f EXCEPT !.columns = c]
           i == [h EXCEPT !.df = d]
           j == [i EXCEPT !.rows = r]
<1>2. Retabled(f, c, d, r) = j
  BY DEF Retabled
<1>3. h = Framed(c, b, e, o, g, s, t)
  BY <1>1 DEF Framed
<1> HIDE DEF h
<1>4. i = Framed(c, d, e, o, g, s, t)
  BY <1>3 DEF Framed
<1> HIDE DEF i
<1>5. j = Framed(c, d, r, o, g, s, t)
  BY <1>4 DEF Framed
<1>6. f.row_order = o /\ f.original_order = g /\ f.selected_rows = s /\ f.transposed = t
  BY <1>1 DEF Framed
<1> HIDE DEF j
<1> QED BY <1>2, <1>5, <1>6

LEMMA RetabledKeeps ==
  ASSUME NEW f, FrameOK(f), NEW c, NEW d, NEW r, TableOK(c, d, r), DOMAIN r = DOMAIN f.rows,
         Names(c) = d, f.columns # <<>> => c # <<>>
  PROVE  FrameOK(Retabled(f, c, d, r)) /\ InStep(Retabled(f, c, d, r))
<1> DEFINE h == Framed(c, d, r, f.row_order, f.original_order, f.selected_rows, f.transposed)
<1>1. ListsOK(r, f.row_order, f.original_order, f.selected_rows)
  BY FrameIsParts DEF ListsOK
<1>2. FrameOK(h)
  BY <1>1, FrameIsParts, PartsAreFrame
<1>3. h.columns = c /\ h.df = d
  BY DEF Framed
<1>4. Retabled(f, c, d, r) = h
  BY RetabledIs
<1> QED BY <1>2, <1>3, <1>4 DEF InStep

LEMMA PinKeeps ==
  ASSUME NEW f, FrameOK(f), InStep(f), NEW i \in DOMAIN f.columns
  PROVE  FrameOK(TogglePinColumn(f, i)) /\ InStep(TogglePinColumn(f, i))
<1> DEFINE m == [f.columns[i] EXCEPT !.pinned = ~f.columns[i].pinned]
           c == [f.columns EXCEPT ![i] = m]
<1>1. PICK a, b, e, o, g, s, t : f = Framed(a, b, e, o, g, s, t)
  BY FrameIsParts
<1>2. f.columns = a /\ f.df = b /\ f.rows = e
  BY <1>1 DEF Framed
<1>3. TogglePinColumn(f, i) = [f EXCEPT !.columns = c]
  BY DEF TogglePinColumn
<1>4. f.columns \in Seq(ColumnMeta) /\ i \in 1 .. Len(f.columns) /\ f.columns[i] \in ColumnMeta
  BY RegularShape
<1>5. m \in ColumnMeta /\ m.name = f.columns[i].name /\ m.type = f.columns[i].type
  BY <1>4 DEF ColumnMeta
<1> HIDE DEF m
<1>6. c \in Seq(ColumnMeta) /\ DOMAIN c = DOMAIN f.columns /\ Len(c) = Len(f.columns)
      /\ \A k \in DOMAIN c : c[k].name = f.columns[k].name /\ c[k].type = f.columns[k].type
  BY <1>4, <1>5
<1> HIDE DEF c
<1>7. Names(c) = f.df
  BY <1>6 DEF Names, InStep
<1>8. TableOK(c, f.df, f.rows)
  BY <1>6, <1>7, FrameIsParts DEF TableOK, InStep
<1>9. FrameOK(Retabled(f, c, f.df, f.rows)) /\ InStep(Retabled(f, c, f.df, f.rows))
  BY <1>4, <1>6, <1>7, <1>8, RetabledKeeps
<1>10. [f EXCEPT !.columns = c] = Framed(c, b, e, o, g, s, t)
  BY <1>1 DEF Framed
<1>11. Retabled(f, c, f.df, f.rows) = Framed(c, b, e, o, g, s, t)
  BY <1>1, <1>2, RetabledIs DEF Framed
<1> QED BY <1>3, <1>9, <1>10, <1>11

\* Rows given one for each row.
LEMMA RowForRow ==
  ASSUME NEW f, FrameOK(f), NEW r, DOMAIN r = DOMAIN f.rows, r = [q \in DOMAIN r |-> r[q]]
  PROVE  IsList(r) /\ DOMAIN f.rows = 1 .. Len(f.rows) /\ Len(r) = Len(f.rows)
<1>1. DOMAIN f.rows = 1 .. Len(f.rows) /\ Len(f.rows) \in Nat
  BY FrameIsParts DEF TableOK, IsList
<1>2. Len(r) = Len(f.rows)
  BY <1>1, ListLength
<1> QED BY <1>1, <1>2 DEF IsList

LEMMA RenameKeeps ==
  ASSUME NEW f, FrameOK(f), InStep(f), NEW i \in DOMAIN f.columns, NEW new \in Texts
  PROVE  FrameOK(RenameColumn(f, i, new)) /\ InStep(RenameColumn(f, i, new))
<1> SUFFICES ASSUME new \notin Range(f.df)
             PROVE  FrameOK(RenameColumn(f, i, new)) /\ InStep(RenameColumn(f, i, new))
  BY DEF RenameColumn
<1> DEFINE old == f.columns[i].name
           m == [f.columns[i] EXCEPT !.name = new]
           c == [f.columns EXCEPT ![i] = m]
           d == [k \in DOMAIN f.df |-> IF f.df[k] = old THEN new ELSE f.df[k]]
           r == [q \in DOMAIN f.rows |-> RenamedRow(f.rows[q], old, new)]
<1>1. RenameColumn(f, i, new) = [f EXCEPT !.columns = c, !.df = d, !.rows = r]
  BY DEF RenameColumn
<1> HIDE DEF m, c, d, r
<1>2. RenameColumn(f, i, new) = Retabled(f, c, d, r)
  BY <1>1 DEF Retabled
<1>3. /\ f.columns \in Seq(ColumnMeta) /\ i \in 1 .. Len(f.columns) /\ f.columns[i] \in ColumnMeta
      /\ DOMAIN f.df = DOMAIN f.columns /\ DOMAIN f.columns = 1 .. Len(f.columns)
      /\ \A k \in DOMAIN f.columns : f.df[k] = f.columns[k].name /\ f.df[k] \in Texts
      /\ \A k \in DOMAIN f.columns : f.columns[k].name = old => k = i
      /\ \A k \in DOMAIN f.columns : f.df[k] # new
  BY RegularShape
<1>4. m \in ColumnMeta /\ m.name = new /\ m.type = f.columns[i].type
  BY <1>3 DEF m, ColumnMeta
<1>5. /\ c \in Seq(ColumnMeta) /\ DOMAIN c = DOMAIN f.columns /\ Len(c) = Len(f.columns)
      /\ \A k \in DOMAIN c : /\ c[k].name = IF k = i THEN new ELSE f.df[k]
                             /\ c[k].type = f.columns[k].type
  BY <1>3, <1>4 DEF c
<1>6. /\ DOMAIN d = DOMAIN f.columns /\ d = [k \in DOMAIN f.columns |-> d[k]]
      /\ \A k \in DOMAIN d : d[k] = IF k = i THEN new ELSE f.df[k]
  BY <1>3 DEF d
<1>7. Names(c) = d
  BY <1>5, <1>6 DEF Names
<1>8. d \in Seq(Texts)
  BY <1>5, <1>7, NamesType
<1>9. Distinct(d)
  <2>1. Distinct(f.df)
    BY FrameIsParts DEF TableOK
  <2> QED BY <2>1, <1>3, <1>6 DEF Distinct
<1>10. DOMAIN r = DOMAIN f.rows /\ r = [q \in DOMAIN r |-> r[q]]
       /\ \A q \in DOMAIN r : r[q] = RenamedRow(f.rows[q], old, new)
  BY DEF r
<1>11. \A q \in DOMAIN r : DOMAIN f.rows[q] = Range(f.df)
  BY <1>10, FrameIsParts DEF TableOK
<1>12. Range(d) = (Range(f.df) \ {old}) \cup {new}
  <2>1. ASSUME NEW x \in Range(d) PROVE x = new \/ (x \in Range(f.df) /\ x # old)
    <3>1. PICK k \in DOMAIN d : d[k] = x
      BY InRange
    <3>2. k # i => f.df[k] \in Range(f.df)
      BY <3>1, <1>3, <1>6, InRange
    <3> QED BY <3>1, <3>2, <1>3, <1>6
  <2>2. ASSUME NEW x \in Range(f.df), x # old PROVE x \in Range(d)
    <3>1. PICK k \in DOMAIN f.df : f.df[k] = x
      BY InRange
    <3>2. k \in DOMAIN d /\ d[k] = x
      BY <3>1, <2>2, <1>3, <1>6
    <3> QED BY <3>2, InRange
  <2>3. new \in Range(d)
    BY <1>3, <1>6, InRange
  <2> QED BY <2>1, <2>2, <2>3
<1>13. \A q \in DOMAIN r : /\ DOMAIN r[q] = Range(d)
                           /\ \A x \in Range(d) : r[q][x] = IF x = new THEN f.rows[q][old] ELSE f.rows[q][x]
  <2> TAKE q \in DOMAIN r
  <2>1. r[q] = [x \in Range(d) |-> IF x = new THEN f.rows[q][old] ELSE f.rows[q][x]]
    BY <1>10, <1>11, <1>12, Zenon DEF RenamedRow
  <2> QED BY <2>1, Zenon
<1>14. \A q \in DOMAIN f.rows, k \in DOMAIN f.columns :
          f.rows[q][f.columns[k].name] \in Values(f.columns[k].type)
  BY CellTypes
<1>15. \A q \in DOMAIN r, k \in DOMAIN c : r[q][d[k]] \in Values(c[k].type)
  <2> SUFFICES ASSUME NEW q \in DOMAIN r, NEW k \in DOMAIN c PROVE r[q][d[k]] \in Values(c[k].type)
    OBVIOUS
  <2>1. d[k] \in Range(d)
    BY <1>5, <1>6, InRange
  <2>2. r[q][d[k]] = IF d[k] = new THEN f.rows[q][old] ELSE f.rows[q][d[k]]
    BY <2>1, <1>13
  <2>3. r[q][d[k]] = f.rows[q][f.columns[k].name]
    BY <2>2, <1>3, <1>5, <1>6
  <2> QED BY <2>3, <1>5, <1>10, <1>14
<1>16. TableOK(c, d, r)
  BY <1>5, <1>8, <1>9, <1>10, <1>13, <1>15, RowForRow DEF TableOK
<1>17. c # <<>>
  BY <1>3, <1>5
<1> QED BY <1>2, <1>7, <1>10, <1>16, <1>17, RetabledKeeps

LEMMA RemovedShape ==
  ASSUME NEW T, NEW s \in Seq(T), NEW at \in 1 .. Len(s)
  PROVE  /\ Removed(s, at) \in Seq(T) /\ Len(Removed(s, at)) = Len(s) - 1
         /\ DOMAIN Removed(s, at) = 1 .. Len(s) - 1
         /\ \A k \in 1 .. Len(s) - 1 : Removed(s, at)[k] = s[IF k < at THEN k ELSE k + 1]
<1>1. Len(s) - 1 \in Nat /\ DOMAIN s = 1 .. Len(s) /\ \A k \in 1 .. Len(s) : s[k] \in T
  OBVIOUS
<1> QED BY <1>1 DEF Removed

LEMMA DropKeeps ==
  ASSUME NEW f, FrameOK(f), InStep(f), NEW i \in DOMAIN f.columns, Len(f.columns) > 1
  PROVE  FrameOK(DropColumn(f, i)) /\ InStep(DropColumn(f, i))
<1> DEFINE name == f.columns[i].name
           at == CHOOSE k \in DOMAIN f.df : f.df[k] = name
           n == Len(f.columns)
           from(k) == IF k < i THEN k ELSE k + 1
           c == Removed(f.columns, i)
           d == Removed(f.df, at)
           r == [q \in DOMAIN f.rows |-> [x \in DOMAIN f.rows[q] \ {name} |-> f.rows[q][x]]]
<1>1. DropColumn(f, i) = Retabled(f, c, d, r)
  BY DEF DropColumn, Retabled
<1>3. /\ f.columns \in Seq(ColumnMeta) /\ i \in 1 .. n /\ n \in Nat /\ f.df \in Seq(Texts)
      /\ DOMAIN f.df = DOMAIN f.columns /\ DOMAIN f.columns = 1 .. n /\ Len(f.df) = n
      /\ \A k \in DOMAIN f.columns : f.df[k] = f.columns[k].name
      /\ \A k, m \in DOMAIN f.columns : f.df[k] = f.df[m] => k = m
  BY RegularShape
<1>4. at = i
  BY <1>3
<1> HIDE DEF at, n, c, d, r
<1>5. /\ c \in Seq(ColumnMeta) /\ Len(c) = n - 1 /\ DOMAIN c = 1 .. n - 1
      /\ \A k \in 1 .. n - 1 : c[k] = f.columns[from(k)]
  BY <1>3, RemovedShape DEF c, n
<1>6. /\ d \in Seq(Texts) /\ Len(d) = n - 1 /\ DOMAIN d = 1 .. n - 1
      /\ \A k \in 1 .. n - 1 : d[k] = f.df[from(k)]
  <2> DEFINE s == f.df
  <2>1. d = Removed(s, i) /\ i \in 1 .. Len(s) /\ s \in Seq(Texts) /\ Len(s) = n
    BY <1>3, <1>4 DEF d
  <2> HIDE DEF s
  <2>2. /\ d \in Seq(Texts) /\ Len(d) = n - 1 /\ DOMAIN d = 1 .. n - 1
        /\ \A k \in 1 .. n - 1 : d[k] = s[from(k)]
    BY <2>1, RemovedShape
  <2> QED BY <2>2 DEF s
<1>f. \A k \in 1 .. n - 1 : from(k) \in 1 .. n /\ from(k) # i
  BY <1>3
<1>g. \A k, m \in 1 .. n - 1 : from(k) = from(m) => k = m
  BY <1>3
<1>h. \A k \in 1 .. n \ {i} : \E m \in 1 .. n - 1 : from(m) = k
  <2> TAKE k \in 1 .. n \ {i}
  <2>1. CASE k < i
    <3>1. k \in 1 .. n - 1 /\ from(k) = k
      BY <2>1, <1>3
    <3> QED BY <3>1
  <2>2. CASE k > i
    <3>1. k - 1 \in 1 .. n - 1 /\ from(k - 1) = k
      BY <2>2, <1>3
    <3> QED BY <3>1
  <2> QED BY <2>1, <2>2, <1>3
<1> HIDE DEF from
<1>7. Names(c) = d
  BY <1>3, <1>5, <1>6, <1>f DEF Names
<1>9. Distinct(d)
  <2>1. \A k, m \in 1 .. n - 1 : d[k] = d[m] => from(k) = from(m)
    BY <1>3, <1>6, <1>f
  <2> QED BY <2>1, <1>6, <1>g DEF Distinct
<1>10. DOMAIN r = DOMAIN f.rows /\ r = [q \in DOMAIN r |-> r[q]]
       /\ \A q \in DOMAIN r : r[q] = [x \in DOMAIN f.rows[q] \ {name} |-> f.rows[q][x]]
  BY DEF r
<1>11. \A q \in DOMAIN r : DOMAIN f.rows[q] = Range(f.df)
  BY <1>10, FrameIsParts DEF TableOK
<1>12. Range(d) = Range(f.df) \ {name}
  <2>1. \A x \in Range(d) : x \in Range(f.df) /\ x # name
    BY <1>3, <1>6, <1>f, InRange
  <2>2. \A x \in Range(f.df) \ {name} : x \in Range(d)
    BY <1>3, <1>6, <1>h, InRange
  <2> QED BY <2>1, <2>2
<1>13. \A q \in DOMAIN r : /\ DOMAIN r[q] = Range(d)
                           /\ \A x \in Range(d) : r[q][x] = f.rows[q][x]
  BY <1>10, <1>11, <1>12
<1>14. \A q \in DOMAIN f.rows, k \in DOMAIN f.columns :
          f.rows[q][f.columns[k].name] \in Values(f.columns[k].type)
  BY CellTypes
<1>15. \A q \in DOMAIN r, k \in DOMAIN c : r[q][d[k]] \in Values(c[k].type)
  <2> SUFFICES ASSUME NEW q \in DOMAIN r, NEW k \in DOMAIN c PROVE r[q][d[k]] \in Values(c[k].type)
    OBVIOUS
  <2>1. d[k] \in Range(d) /\ from(k) \in DOMAIN f.columns
    BY <1>3, <1>5, <1>6, <1>f, InRange
  <2>2. r[q][d[k]] = f.rows[q][d[k]] /\ d[k] = f.columns[from(k)].name /\ c[k] = f.columns[from(k)]
    BY <2>1, <1>3, <1>5, <1>6, <1>13
  <2> QED BY <2>1, <2>2, <1>10, <1>14
<1>16. TableOK(c, d, r)
  BY <1>5, <1>6, <1>9, <1>10, <1>13, <1>15, RowForRow DEF TableOK
<1>17. c # <<>>
  BY <1>5 DEF n
<1> QED BY <1>1, <1>7, <1>10, <1>16, <1>17, RetabledKeeps

LEMMA TwoRetabled ==
  ASSUME NEW f, FrameOK(f), NEW c, NEW d
  PROVE  [f EXCEPT !.columns = c, !.df = d] = Retabled(f, c, d, f.rows)
<1>1. PICK a, b, e, o, g, s, t : f = Framed(a, b, e, o, g, s, t)
  BY FrameIsParts
<1> DEFINE h == [f EXCEPT !.columns = c]
           i == [h EXCEPT !.df = d]
<1>2. [f EXCEPT !.columns = c, !.df = d] = i
  OBVIOUS
<1>3. h = Framed(c, b, e, o, g, s, t)
  BY <1>1 DEF Framed
<1> HIDE DEF h
<1>4. i = Framed(c, d, e, o, g, s, t)
  BY <1>3 DEF Framed
<1>5. /\ f.row_order = o /\ f.original_order = g /\ f.selected_rows = s /\ f.transposed = t
      /\ f.rows = e
  BY <1>1 DEF Framed
<1> HIDE DEF i
<1> QED BY <1>2, <1>4, <1>5, RetabledIs

LEMMA SwapKeeps ==
  ASSUME NEW f, FrameOK(f), InStep(f), NEW i \in DOMAIN f.columns, NEW j \in DOMAIN f.columns
  PROVE  FrameOK(SwapColumns(f, i, j)) /\ InStep(SwapColumns(f, i, j))
<1> DEFINE n == Len(f.columns)
           to(k) == IF k = i THEN j ELSE IF k = j THEN i ELSE k
           c == Swapped(f.columns, i, j)
           d == Names(c)
<1>1. SwapColumns(f, i, j) = Retabled(f, c, d, f.rows)
  <2>1. SwapColumns(f, i, j) = [f EXCEPT !.columns = c, !.df = d]
    BY DEF SwapColumns
  <2> HIDE DEF c, d
  <2> QED BY <2>1, TwoRetabled
<1>2. /\ f.columns \in Seq(ColumnMeta) /\ i \in 1 .. n /\ j \in 1 .. n /\ n \in Nat
      /\ DOMAIN f.df = DOMAIN f.columns /\ DOMAIN f.columns = 1 .. n
      /\ \A k \in 1 .. n : f.df[k] = f.columns[k].name
      /\ \A k, m \in 1 .. n : f.columns[k].name = f.columns[m].name => k = m
  BY RegularShape
<1>3. \A k \in 1 .. n : to(k) \in 1 .. n /\ to(to(k)) = k
  BY <1>2
<1>4. c \in Seq(ColumnMeta) /\ Len(c) = n /\ DOMAIN c = 1 .. n
      /\ \A k \in 1 .. n : c[k] = f.columns[to(k)]
  BY <1>2 DEF Swapped
<1> HIDE DEF c, n, to
<1>5. d \in Seq(Texts) /\ DOMAIN d = 1 .. n /\ \A k \in 1 .. n : d[k] = f.columns[to(k)].name
  BY <1>4, NamesType
<1> HIDE DEF d
<1>6. Distinct(d)
  <2>1. \A k, m \in 1 .. n : d[k] = d[m] => to(k) = to(m)
    BY <1>2, <1>3, <1>5
  <2>2. \A k, m \in 1 .. n : to(k) = to(m) => k = m
    BY <1>3
  <2> QED BY <2>1, <2>2, <1>5 DEF Distinct
<1>7. Range(d) = Range(f.df)
  <2>1. ASSUME NEW x \in Range(d) PROVE x \in Range(f.df)
    <3>1. PICK k \in 1 .. n : d[k] = x
      BY InRange, <1>5
    <3>2. to(k) \in DOMAIN f.df /\ f.df[to(k)] = x
      BY <3>1, <1>2, <1>3, <1>5
    <3> QED BY <3>2, InRange
  <2>2. ASSUME NEW x \in Range(f.df) PROVE x \in Range(d)
    <3>1. PICK k \in 1 .. n : f.df[k] = x
      BY InRange, <1>2
    <3>2. to(k) \in DOMAIN d /\ d[to(k)] = x
      BY <3>1, <1>2, <1>3, <1>5
    <3> QED BY <3>2, InRange
  <2> QED BY <2>1, <2>2
<1>8. \A q \in DOMAIN f.rows, k \in DOMAIN f.columns :
          f.rows[q][f.columns[k].name] \in Values(f.columns[k].type)
  BY CellTypes
<1>9. \A q \in DOMAIN f.rows, k \in DOMAIN c : f.rows[q][d[k]] \in Values(c[k].type)
  BY <1>2, <1>3, <1>4, <1>5, <1>8
<1>10. TableOK(c, d, f.rows)
  BY <1>4, <1>5, <1>6, <1>7, <1>9, FrameIsParts DEF TableOK
<1>11. c # <<>>
  BY <1>2, <1>4
<1> QED BY <1>1, <1>10, <1>11, RetabledKeeps DEF d

LEMMA InsertShape ==
  ASSUME NEW T, NEW s \in Seq(T), NEW e \in T, NEW at \in 1 .. Len(s) + 1
  PROVE  /\ Insert(s, at, e) \in Seq(T) /\ Len(Insert(s, at, e)) = Len(s) + 1
         /\ DOMAIN Insert(s, at, e) = 1 .. Len(s) + 1
         /\ Insert(s, at, e)[at] = e
         /\ \A k \in 1 .. Len(s) : Insert(s, at, e)[IF k < at THEN k ELSE k + 1] = s[k]
<1>1. Len(s) + 1 \in Nat /\ DOMAIN s = 1 .. Len(s) /\ \A k \in 1 .. Len(s) : s[k] \in T
  OBVIOUS
<1> QED BY <1>1 DEF Insert

LEMMA ColumnType ==
  ASSUME NEW name \in Texts, NEW type \in Types
  PROVE  Column(name, type) \in ColumnMeta /\ Column(name, type).name = name
         /\ Column(name, type).type = type
BY DEF Column, ColumnMeta


\* The headers of a table with one more column.
WidenedBy(f, at, name, type) == Insert(f.columns, at, Column(name, type))

LEMMA WidenedHeaders ==
  ASSUME NEW f, FrameOK(f), InStep(f), NEW at \in 1 .. Len(f.columns) + 1,
         NEW name \in Texts, name \notin Range(f.df), NEW type \in Types
  PROVE  /\ WidenedBy(f, at, name, type) \in Seq(ColumnMeta)
         /\ WidenedBy(f, at, name, type) # <<>>
         /\ Names(WidenedBy(f, at, name, type)) \in Seq(Texts)
         /\ Distinct(Names(WidenedBy(f, at, name, type)))
         /\ Names(WidenedBy(f, at, name, type)) = Insert(f.df, at, name)
         /\ Range(Names(WidenedBy(f, at, name, type))) = Range(f.df) \cup {name}
         /\ \A k \in DOMAIN WidenedBy(f, at, name, type) :
               \/ /\ Names(WidenedBy(f, at, name, type))[k] = name
                  /\ WidenedBy(f, at, name, type)[k].type = type
               \/ \E j \in DOMAIN f.columns :
                     /\ Names(WidenedBy(f, at, name, type))[k] = f.columns[j].name
                     /\ WidenedBy(f, at, name, type)[k] = f.columns[j]
<1> DEFINE m == Column(name, type)
           n == Len(f.columns)
           to(k) == IF k < at THEN k ELSE k + 1
           c == Insert(f.columns, at, m)
           d == Names(c)
<1>1. /\ f.columns \in Seq(ColumnMeta) /\ n \in Nat /\ f.df \in Seq(Texts)
      /\ DOMAIN f.df = DOMAIN f.columns /\ DOMAIN f.columns = 1 .. n
      /\ \A k \in 1 .. n : f.df[k] = f.columns[k].name
      /\ \A k, l \in 1 .. n : f.df[k] = f.df[l] => k = l
      /\ \A k \in 1 .. n : f.columns[k].name \in Range(f.df)
      /\ \A x \in Range(f.df) : \E k \in 1 .. n : f.columns[k].name = x
  <2>1. DOMAIN f.columns = 1 .. n /\ f.columns \in Seq(ColumnMeta) /\ n \in Nat
        /\ f.df \in Seq(Texts) /\ DOMAIN f.df = DOMAIN f.columns
    BY RegularShape
  <2>2. /\ \A k \in DOMAIN f.columns : f.df[k] = f.columns[k].name
        /\ \A k \in DOMAIN f.columns : f.columns[k].name \in Range(f.df)
        /\ \A k, l \in DOMAIN f.columns : f.columns[k].name = f.columns[l].name => k = l
    BY RegularShape
  <2>3. \A x \in Range(f.df) : \E k \in DOMAIN f.columns : f.columns[k].name = x
    BY RegularShape
  <2>4. \A k, l \in DOMAIN f.columns : f.df[k] = f.df[l] => k = l
    BY <2>2
  <2> HIDE DEF n
  <2> QED BY <2>1, <2>2, <2>3, <2>4, Zenon
<1>2. m \in ColumnMeta /\ m.name = name /\ m.type = type
  BY ColumnType
<1> HIDE DEF m
<1>3. /\ c \in Seq(ColumnMeta) /\ Len(c) = n + 1 /\ DOMAIN c = 1 .. n + 1 /\ c[at] = m
      /\ \A k \in 1 .. n : c[to(k)] = f.columns[k]
  BY <1>1, <1>2, InsertShape
<1>4. d \in Seq(Texts) /\ DOMAIN d = 1 .. n + 1 /\ \A k \in 1 .. n + 1 : d[k] = c[k].name
  BY <1>3, NamesType
<1>5. /\ \A k \in 1 .. n : to(k) \in 1 .. n + 1 /\ to(k) # at
      /\ \A k \in 1 .. n + 1 : k = at \/ \E l \in 1 .. n : to(l) = k
  <2>1. \A k \in 1 .. n : to(k) \in 1 .. n + 1 /\ to(k) # at
    BY <1>1
  <2>2. ASSUME NEW k \in 1 .. n + 1, k # at PROVE \E l \in 1 .. n : to(l) = k
    <3>1. CASE k < at
      <4>1. k \in 1 .. n /\ to(k) = k
        BY <3>1, <1>1
      <4> QED BY <4>1
    <3>2. CASE k > at
      <4>1. k - 1 \in 1 .. n /\ to(k - 1) = k
        BY <3>2, <1>1
      <4> QED BY <4>1
    <3> QED BY <2>2, <3>1, <3>2, <1>1
  <2> QED BY <2>1, <2>2
<1>6. d = Insert(f.df, at, name)
  <2>1. \A k \in 1 .. n + 1 : d[k] = (IF k < at THEN f.columns[k] ELSE IF k = at THEN m ELSE f.columns[k - 1]).name
    BY <1>1, <1>4 DEF Insert
  <2>2. \A k \in 1 .. n + 1 : d[k] = IF k < at THEN f.df[k] ELSE IF k = at THEN name ELSE f.df[k - 1]
    <3> TAKE k \in 1 .. n + 1
    <3> HIDE DEF d, n
    <3>1. CASE k < at
      <4>1. k \in 1 .. n
        BY <3>1, <1>1 DEF n
      <4> QED BY <4>1, <3>1, <2>1, <1>1
    <3>2. CASE k = at
      BY <3>2, <2>1, <1>1, <1>2
    <3>3. CASE k > at
      <4>1. k - 1 \in 1 .. n /\ ~(k < at) /\ k # at
        BY <3>3, <1>1 DEF n
      <4> QED BY <4>1, <2>1, <1>1
    <3> QED BY <3>1, <3>2, <3>3, <1>1
  <2>3. Len(f.df) = n
    BY RegularShape
  <2> HIDE DEF d, n
  <2> QED BY <2>2, <2>3, <1>4 DEF Insert
<1> HIDE DEF c, d, to, n
<1>7. \A k \in 1 .. n : d[to(k)] = f.columns[k].name /\ c[to(k)] = f.columns[k]
  BY <1>3, <1>4, <1>5
<1>8. d[at] = name /\ c[at] = m /\ at \in 1 .. n + 1
  BY <1>2, <1>3, <1>4 DEF n
<1>9. Distinct(d)
  <2> SUFFICES ASSUME NEW k \in 1 .. n + 1, NEW l \in 1 .. n + 1, d[k] = d[l] PROVE k = l
    BY <1>4 DEF Distinct
  <2>1. CASE k = at /\ l = at
    BY <2>1
  <2>2. CASE k # at /\ l # at
    <3>1. PICK i \in 1 .. n, j \in 1 .. n : to(i) = k /\ to(j) = l
      BY <2>2, <1>5
    <3>2. i = j
      BY <3>1, <1>7, <1>1
    <3> QED BY <3>1, <3>2
  <2>3. CASE k = at /\ l # at
    <3>1. PICK j \in 1 .. n : to(j) = l
      BY <2>3, <1>5
    <3> QED BY <3>1, <2>3, <1>1, <1>7, <1>8
  <2>4. CASE k # at /\ l = at
    <3>1. PICK j \in 1 .. n : to(j) = k
      BY <2>4, <1>5
    <3> QED BY <3>1, <2>4, <1>1, <1>7, <1>8
  <2> QED BY <2>1, <2>2, <2>3, <2>4
<1>10. Range(d) = Range(f.df) \cup {name}
  <2>1. ASSUME NEW x \in Range(d) PROVE x \in Range(f.df) \cup {name}
    <3>0. \E k \in DOMAIN d : d[k] = x
      BY InRange
    <3>1. PICK k \in 1 .. n + 1 : d[k] = x
      BY <3>0, <1>4
    <3>2. CASE k = at
      BY <3>1, <3>2, <1>8
    <3>3. CASE k # at
      <4>1. PICK j \in 1 .. n : to(j) = k
        BY <3>3, <1>5
      <4> QED BY <4>1, <3>1, <1>1, <1>7
    <3> QED BY <3>2, <3>3
  <2>2. ASSUME NEW x \in Range(f.df) PROVE x \in Range(d)
    <3>1. PICK k \in 1 .. n : f.columns[k].name = x
      BY <1>1
    <3>2. to(k) \in DOMAIN d /\ d[to(k)] = x
      BY <3>1, <1>4, <1>5, <1>7
    <3> QED BY <3>2, InRange
  <2>3. name \in Range(d)
    BY <1>4, <1>8, InRange
  <2> QED BY <2>1, <2>2, <2>3
<1>12. ASSUME NEW k \in 1 .. n + 1
       PROVE  \/ d[k] = name /\ c[k].type = type
              \/ \E j \in DOMAIN f.columns : d[k] = f.columns[j].name /\ c[k] = f.columns[j]
  <2>1. CASE k = at
    BY <2>1, <1>2, <1>8
  <2>2. CASE k # at
    <3>1. PICK j \in 1 .. n : to(j) = k
      BY <2>2, <1>5
    <3>2. d[k] = f.columns[j].name /\ c[k] = f.columns[j] /\ j \in DOMAIN f.columns
      BY <3>1, <1>1, <1>7
    <3> QED BY <3>2
  <2> QED BY <2>1, <2>2
<1>14. c # <<>>
  BY <1>1, <1>3
<1> QED BY <1>3, <1>4, <1>6, <1>9, <1>10, <1>12, <1>14 DEF d, c, m, WidenedBy

\* The rows e of that table, with the values v in the new column.
WidenedRows(f, r, e, v, name, type) ==
    /\ IsList(r)
    /\ \A q \in DOMAIN r : DOMAIN e[q] = Range(f.df)
    /\ \A q \in DOMAIN r, k \in DOMAIN f.columns :
          e[q][f.columns[k].name] \in Values(f.columns[k].type)
    /\ \A q \in DOMAIN r : v[q] \in Values(type)
    /\ \A q \in DOMAIN r : r[q] = Wider(e[q], name, v[q])

LEMMA WidenedTable ==
  ASSUME NEW f, FrameOK(f), InStep(f), NEW at \in 1 .. Len(f.columns) + 1,
         NEW name \in Texts, name \notin Range(f.df), NEW type \in Types,
         NEW r, NEW e, NEW v, WidenedRows(f, r, e, v, name, type)
  PROVE  TableOK(WidenedBy(f, at, name, type), Names(WidenedBy(f, at, name, type)), r)
<1> DEFINE c == WidenedBy(f, at, name, type)
           d == Names(c)
<1>1. /\ c \in Seq(ColumnMeta) /\ d \in Seq(Texts) /\ Distinct(d)
      /\ Range(d) = Range(f.df) \cup {name}
      /\ \A k \in DOMAIN c : \/ d[k] = name /\ c[k].type = type
                             \/ \E j \in DOMAIN f.columns :
                                   d[k] = f.columns[j].name /\ c[k] = f.columns[j]
  BY WidenedHeaders
<1>r. Range(d) = Range(f.df) \cup {name}
  BY <1>1
<1>2. \A j \in DOMAIN f.columns : f.columns[j].name \in Range(f.df)
  BY RegularShape
<1> HIDE DEF c, d
<1>3. ASSUME NEW q \in DOMAIN r
      PROVE  DOMAIN r[q] = Range(d) /\ \A k \in DOMAIN c : r[q][d[k]] \in Values(c[k].type)
  <2>1. name \notin DOMAIN e[q] /\ r[q] = Wider(e[q], name, v[q]) /\ DOMAIN e[q] = Range(f.df)
    BY DEF WidenedRows
  <2>a. \A k \in DOMAIN f.columns : e[q][f.columns[k].name] \in Values(f.columns[k].type)
    BY DEF WidenedRows
  <2>b. v[q] \in Values(type)
    BY DEF WidenedRows
  <2>2. DOMAIN r[q] = Range(d) /\ r[q][name] = v[q] /\ \A x \in Range(f.df) : r[q][x] = e[q][x]
    <3> DEFINE w == e[q]
               u == v[q]
               h == Wider(w, name, u)
    <3>1. name \notin DOMAIN w /\ r[q] = h /\ DOMAIN w = Range(f.df)
      BY <2>1
    <3> HIDE DEF w, u
    <3>2. DOMAIN h = DOMAIN w \cup {name} /\ h[name] = u /\ \A x \in DOMAIN w : h[x] = w[x]
      BY <3>1 DEF Wider
    <3> HIDE DEF h
    <3>3. DOMAIN h = Range(d) /\ h[name] = u /\ \A x \in Range(f.df) : h[x] = w[x]
      BY <3>1, <3>2, <1>r
    <3> QED BY <3>1, <3>3 DEF w, u
  <2>3. ASSUME NEW k \in DOMAIN c PROVE r[q][d[k]] \in Values(c[k].type)
    <3>1. CASE d[k] = name /\ c[k].type = type
      BY <3>1, <2>2, <2>b
    <3>2. CASE \E j \in DOMAIN f.columns : d[k] = f.columns[j].name /\ c[k] = f.columns[j]
      <4>1. PICK j \in DOMAIN f.columns : d[k] = f.columns[j].name /\ c[k] = f.columns[j]
        BY <3>2
      <4>2. r[q][d[k]] = e[q][f.columns[j].name]
        BY <4>1, <2>2, <1>2
      <4> QED BY <4>1, <4>2, <2>a
    <3> QED BY <3>1, <3>2, <1>1
  <2> QED BY <2>2, <2>3
<1> QED BY <1>1, <1>3 DEF TableOK, d, c, WidenedRows

LEMMA EmptyIsValue ==
  Empty \in Texts /\ Empty \in Values("text") /\ "text" \in Types /\ "number" \in Types
  /\ "float" \in Types /\ "share" \in Types
BY DEF Empty, Texts, Values, Types

LEMMA InsertKeeps ==
  ASSUME NEW f, FrameOK(f), InStep(f), NEW i \in DOMAIN f.columns, NEW name \in Texts
  PROVE  FrameOK(InsertEmptyColumn(f, i, name)) /\ InStep(InsertEmptyColumn(f, i, name))
<1> SUFFICES ASSUME ~HasColumn(f, name)
             PROVE  FrameOK(InsertEmptyColumn(f, i, name)) /\ InStep(InsertEmptyColumn(f, i, name))
  BY DEF InsertEmptyColumn
<1> DEFINE c == WidenedBy(f, i, name, "text")
           d == Insert(f.df, i, name)
           r == [q \in DOMAIN f.rows |-> Wider(f.rows[q], name, Empty)]
           v == [q \in DOMAIN f.rows |-> Empty]
<1>1. InsertEmptyColumn(f, i, name) = Retabled(f, c, d, r)
  BY DEF InsertEmptyColumn, Retabled, WidenedBy
<1>2. name \notin Range(f.df)
  BY RegularShape DEF HasColumn, Positions
<1>3. i \in 1 .. Len(f.columns) + 1
  BY RegularShape
<1>4. DOMAIN r = DOMAIN f.rows /\ r = [q \in DOMAIN r |-> r[q]]
       /\ \A q \in DOMAIN r : r[q] = Wider(f.rows[q], name, v[q])
  OBVIOUS
<1>5. IsList(r)
  <2> HIDE DEF r
  <2> QED BY <1>4, RowForRow
<1>6. /\ \A q \in DOMAIN r : DOMAIN f.rows[q] = Range(f.df)
      /\ \A q \in DOMAIN r, k \in DOMAIN f.columns :
            f.rows[q][f.columns[k].name] \in Values(f.columns[k].type)
      /\ \A q \in DOMAIN r : v[q] \in Values("text")
      /\ \A q \in DOMAIN r : r[q] = Wider(f.rows[q], name, v[q])
  BY <1>4, CellTypes, EmptyIsValue, FrameIsParts DEF TableOK
<1>9. WidenedRows(f, r, f.rows, v, name, "text")
  BY <1>5, <1>6 DEF WidenedRows
<1> HIDE DEF r, v
<1>7. TableOK(c, Names(c), r)
  BY <1>2, <1>3, <1>9, EmptyIsValue, WidenedTable
<1>8. c # <<>> /\ Names(c) = d
  BY <1>2, <1>3, EmptyIsValue, WidenedHeaders
<1> HIDE DEF c, d
<1> QED BY <1>1, <1>4, <1>7, <1>8, RetabledKeeps

-----------------------------------------------------------------------------
(* Transposition.                                                          *)

Skipped(f) == IF f.transposed THEN 1 ELSE 0
Labels(f) == [i \in 1 .. Len(f.columns) - Skipped(f) |-> f.columns[i + Skipped(f)].name]
RowNames(f) ==
    [k \in 1 .. Len(f.row_order) |->
        IF f.transposed THEN TextAt(f, k, 1) ELSE RowName(f.row_order[k])]
Corner == <<"column">>
TurnedNames(f) == IF f.transposed THEN RowNames(f) ELSE <<Corner>> \o RowNames(f)
TurnedColumns(f) ==
    (IF f.transposed THEN <<>> ELSE <<[Column(Corner, "text") EXCEPT !.pinned = TRUE]>>)
    \o [k \in 1 .. Len(f.row_order) |-> Column(RowNames(f)[k], "text")]
TurnedLine(f, i) ==
    [name \in Range(TurnedNames(f)) |->
        IF ~f.transposed /\ name = Corner THEN Labels(f)[i]
        ELSE TextAt(f, CHOOSE k \in 1 .. Len(f.row_order) : RowNames(f)[k] = name, i + Skipped(f))]
TurnedRows(f) == [i \in DOMAIN Labels(f) |-> TurnedLine(f, i)]

LEMMA TurnedParts ==
  ASSUME NEW f
  PROVE  Turned(f) = IF Len(f.row_order) = 0 \/ ~Distinct(TurnedNames(f)) THEN Refused
                     ELSE FromParts(TurnedColumns(f), TurnedNames(f), TurnedRows(f))
BY Zenon DEF Turned, TurnedColumns, TurnedNames, TurnedRows, TurnedLine, RowNames, Labels, Skipped,
      Corner

\* A table of texts.
LEMMA TextTable ==
  ASSUME NEW c \in Seq(ColumnMeta), NEW r, IsList(r),
         \A k \in DOMAIN c : c[k].type = "text",
         Distinct(Names(c)),
         \A i \in DOMAIN r : /\ DOMAIN r[i] = Range(Names(c))
                             /\ \A x \in Range(Names(c)) : r[i][x] \in Texts
  PROVE  TableOK(c, Names(c), r)
<1>1. Names(c) \in Seq(Texts) /\ DOMAIN Names(c) = DOMAIN c
  BY NamesType
<1>2. Values("text") = Texts \cup {Null}
  BY DEF Values
<1>3. \A k \in DOMAIN c : Names(c)[k] \in Range(Names(c))
  BY <1>1, InRange
<1>4. \A i \in DOMAIN r, k \in DOMAIN c : r[i][Names(c)[k]] \in Values(c[k].type)
  BY <1>2, <1>3
<1> QED BY <1>1, <1>4 DEF TableOK

LEMMA TextAtIsText ==
  ASSUME NEW f, FrameOK(f), InStep(f), NEW k \in DOMAIN f.row_order, NEW i \in DOMAIN f.columns
  PROVE  TextAt(f, k, i) \in Texts
<1>1. f.columns[i].type \in Types
  BY RegularShape
<1>2. GetVal(f, k, i) \in Values(f.columns[i].type)
  BY CellTypes
<1> QED BY <1>1, <1>2, TextIsText DEF TextAt

LEMMA RowNameIsText ==
  ASSUME NEW i \in Nat PROVE RowName(i) \in Texts
<1> DEFINE j == i - 1
           s == Numeral(j)
           row == "row"
<1>1. s \in Seq(Words)
  BY NumeralIsText DEF Texts
<1>2. row \in Words
  BY WordsAssumption DEF OwnWords
<1>3. RowName(i) = <<row>> \o s
  BY DEF RowName
<1> HIDE DEF s, row
<1> QED BY <1>1, <1>2, <1>3 DEF Texts

LEMMA TurnedShape ==
  ASSUME NEW f, FrameOK(f), InStep(f), Len(f.row_order) # 0
  PROVE  LET n == Len(f.row_order) IN
         /\ RowNames(f) \in Seq(Texts) /\ Len(RowNames(f)) = n
         /\ Skipped(f) \in 0 .. Len(f.columns)
         /\ DOMAIN Labels(f) = 1 .. Len(f.columns) - Skipped(f)
         /\ \A i \in DOMAIN Labels(f) : /\ i + Skipped(f) \in DOMAIN f.columns
                                        /\ Labels(f)[i] = f.columns[i + Skipped(f)].name
                                        /\ Labels(f)[i] \in Texts
         /\ TurnedColumns(f) \in Seq(ColumnMeta) /\ TurnedColumns(f) # <<>>
         /\ \A k \in DOMAIN TurnedColumns(f) : TurnedColumns(f)[k].type = "text"
         /\ Names(TurnedColumns(f)) = TurnedNames(f)
<1> DEFINE n == Len(f.row_order)
<1>1. n \in Nat /\ DOMAIN f.row_order = 1 .. n /\ n > 0
      /\ DOMAIN f.columns = 1 .. Len(f.columns) /\ Len(f.columns) \in Nat /\ f.columns # <<>>
      /\ f.columns \in Seq(ColumnMeta)
  BY VisibleShape, RegularShape, FrameIsParts
<1>2. Len(f.columns) > 0 /\ 1 \in DOMAIN f.columns
  BY <1>1
<1>3. Skipped(f) \in 0 .. Len(f.columns) /\ (Skipped(f) = 0 \/ Skipped(f) = 1)
  BY <1>1, <1>2 DEF Skipped
<1> HIDE DEF n
<1>4. DOMAIN Labels(f) = 1 .. Len(f.columns) - Skipped(f)
  BY DEF Labels
<1>5. \A i \in DOMAIN Labels(f) : i + Skipped(f) \in DOMAIN f.columns
  BY <1>1, <1>3, <1>4
<1>6. \A i \in DOMAIN Labels(f) : Labels(f)[i] = f.columns[i + Skipped(f)].name
                                  /\ Labels(f)[i] \in Texts
  BY <1>4, <1>5, RegularShape DEF Labels
<1>7. \A k \in 1 .. n : RowNames(f)[k] \in Texts
  <2> TAKE k \in 1 .. n
  <2>1. f.row_order[k] \in Nat
    BY <1>1, FrameIsParts DEF ListsOK
  <2>2. RowName(f.row_order[k]) \in Texts
    BY <2>1, RowNameIsText
  <2>3. TextAt(f, k, 1) \in Texts
    BY <1>1, <1>2, TextAtIsText
  <2> QED BY <2>2, <2>3 DEF RowNames, n
<1>8. RowNames(f) \in Seq(Texts) /\ Len(RowNames(f)) = n
  <2>1. RowNames(f) = [k \in 1 .. n |-> RowNames(f)[k]]
    BY DEF RowNames, n
  <2>2. RowNames(f) \in [1 .. n -> Texts]
    BY <2>1, <1>7
  <2> QED BY <2>2, <1>1
<1> DEFINE h == RowNames(f)
           t == [k \in 1 .. n |-> Column(h[k], "text")]
           l == [Column(Corner, "text") EXCEPT !.pinned = TRUE]
<1>9. Corner \in Texts
  BY WordsAssumption DEF Corner, Texts, OwnWords
<1>10. l \in ColumnMeta /\ l.name = Corner /\ l.type = "text"
  BY <1>9, EmptyIsValue DEF Column, ColumnMeta
<1> HIDE DEF h
<1>11. t \in Seq(ColumnMeta) /\ Len(t) = n
       /\ \A k \in 1 .. n : t[k].name = h[k] /\ t[k].type = "text"
  BY <1>1, <1>7, ColumnType, EmptyIsValue DEF h
<1>12. TurnedColumns(f) = IF f.transposed THEN <<>> \o t ELSE <<l>> \o t
  BY DEF TurnedColumns, h, n
<1> HIDE DEF t, l
<1>13. CASE f.transposed
  <2>1. TurnedColumns(f) = t /\ TurnedNames(f) = h
    BY <1>11, <1>12, <1>13 DEF TurnedNames, h
  <2>2. Names(t) = h
    BY <1>8, <1>11 DEF Names, h
  <2> QED BY <2>1, <2>2, <1>1, <1>3, <1>4, <1>5, <1>6, <1>8, <1>11 DEF n
<1>14. CASE ~f.transposed
  <2>1. TurnedColumns(f) = <<l>> \o t /\ TurnedNames(f) = <<Corner>> \o h
    BY <1>12, <1>14 DEF TurnedNames, h
  <2> DEFINE c == <<l>> \o t
  <2>2. /\ c \in Seq(ColumnMeta) /\ Len(c) = n + 1 /\ DOMAIN c = 1 .. n + 1
        /\ \A k \in 1 .. n + 1 : c[k] = IF k = 1 THEN l ELSE t[k - 1]
    BY <1>1, <1>10, <1>11
  <2>3. \A k \in 1 .. n + 1 : k # 1 => k - 1 \in 1 .. n
    BY <1>1
  <2>4. \A k \in 1 .. n + 1 : c[k].type = "text" /\ c[k].name = IF k = 1 THEN Corner ELSE h[k - 1]
    BY <2>2, <2>3, <1>10, <1>11
  <2>5. \A k \in 1 .. n + 1 : (<<Corner>> \o h)[k] = IF k = 1 THEN Corner ELSE h[k - 1]
    BY <1>1, <1>8 DEF h
  <2>6. <<Corner>> \o h \in Seq(Texts) /\ Len(<<Corner>> \o h) = n + 1
    BY <1>1, <1>8, <1>9 DEF h
  <2> HIDE DEF c
  <2> DEFINE d == <<Corner>> \o h
  <2> HIDE DEF d
  <2>7. Names(c) \in Seq(Texts) /\ Len(Names(c)) = n + 1
        /\ \A k \in 1 .. n + 1 : Names(c)[k] = d[k]
    <3>1. /\ Names(c) \in Seq(Texts) /\ Len(Names(c)) = Len(c)
          /\ \A k \in DOMAIN c : Names(c)[k] = c[k].name
      BY <2>2, NamesType
    <3>2. \A k \in 1 .. n + 1 : d[k] = IF k = 1 THEN Corner ELSE h[k - 1]
      BY <2>5 DEF d
    <3>3. \A k \in 1 .. n + 1 : Names(c)[k] = IF k = 1 THEN Corner ELSE h[k - 1]
      BY <2>2, <2>4, <3>1
    <3> QED BY <2>2, <3>1, <3>2, <3>3
  <2>8. Names(c) = d
    BY <2>6, <2>7 DEF d
  <2>9. c # <<>>
    BY <2>2, <1>1
  <2> QED BY <2>1, <2>2, <2>4, <2>8, <2>9, <1>3, <1>4, <1>5, <1>6, <1>8 DEF c, d, n
<1> QED BY <1>13, <1>14

LEMMA TurnedTable ==
  ASSUME NEW f, FrameOK(f), InStep(f), Turned(f) # Refused
  PROVE  /\ Len(f.row_order) # 0 /\ Distinct(TurnedNames(f))
         /\ Turned(f) = FromParts(TurnedColumns(f), TurnedNames(f), TurnedRows(f))
         /\ TableOK(TurnedColumns(f), TurnedNames(f), TurnedRows(f))
         /\ FrameOK(Turned(f)) /\ InStep(Turned(f))
<1> DEFINE n == Len(f.row_order)
           c == TurnedColumns(f)
           d == TurnedNames(f)
           r == TurnedRows(f)
<1>1. Len(f.row_order) # 0 /\ Distinct(d)
      /\ Turned(f) = FromParts(c, d, r)
  BY TurnedParts
<1>2. /\ RowNames(f) \in Seq(Texts) /\ Len(RowNames(f)) = n /\ n \in Nat
      /\ Skipped(f) \in 0 .. Len(f.columns) /\ Len(f.columns) \in Nat
      /\ DOMAIN f.row_order = 1 .. n
  BY <1>1, TurnedShape, VisibleShape, RegularShape
<1>3. /\ DOMAIN Labels(f) = 1 .. Len(f.columns) - Skipped(f)
      /\ \A i \in DOMAIN Labels(f) : i + Skipped(f) \in DOMAIN f.columns /\ Labels(f)[i] \in Texts
  BY <1>1, TurnedShape
<1>4. /\ c \in Seq(ColumnMeta) /\ c # <<>> /\ Names(c) = d
      /\ \A k \in DOMAIN c : c[k].type = "text"
  BY <1>1, TurnedShape
<1>5. \A i \in DOMAIN Labels(f) : \A x \in Range(d) : TurnedLine(f, i)[x] \in Texts
  <2> SUFFICES ASSUME NEW i \in DOMAIN Labels(f), NEW x \in Range(d)
               PROVE  TurnedLine(f, i)[x] \in Texts
    OBVIOUS
  <2> DEFINE at == CHOOSE k \in 1 .. n : RowNames(f)[k] = x
  <2>1. TurnedLine(f, i)[x] = IF ~f.transposed /\ x = Corner THEN Labels(f)[i]
                              ELSE TextAt(f, at, i + Skipped(f))
    BY DEF TurnedLine
  <2>2. CASE ~f.transposed /\ x = Corner
    BY <2>1, <2>2, <1>3
  <2>3. CASE ~(~f.transposed /\ x = Corner)
    <3>1. \E k \in 1 .. n : RowNames(f)[k] = x
      <4>1. CASE f.transposed
        BY <4>1, <1>2, InRange DEF TurnedNames
      <4>2. CASE ~f.transposed
        <5> DEFINE h == RowNames(f)
        <5> HIDE DEF h
        <5>1. d = <<Corner>> \o h /\ h \in Seq(Texts) /\ Len(h) = n
          BY <4>2, <1>2 DEF TurnedNames, h
        <5>2. PICK k \in DOMAIN d : d[k] = x
          BY InRange
        <5>3. k # 1 => k - 1 \in 1 .. n /\ h[k - 1] = x
          BY <5>1, <5>2, <1>2
        <5>4. k # 1
          BY <5>1, <5>2, <2>3, <4>2
        <5> QED BY <5>3, <5>4 DEF h
      <4> QED BY <4>1, <4>2
    <3>2. at \in 1 .. n
      BY <3>1
    <3> HIDE DEF at
    <3> QED BY <3>2, <2>1, <2>3, <1>2, <1>3, TextAtIsText
  <2> QED BY <2>2, <2>3
<1>6. DOMAIN r = DOMAIN Labels(f) /\ r = [i \in DOMAIN Labels(f) |-> r[i]]
      /\ \A i \in DOMAIN r : r[i] = TurnedLine(f, i) /\ DOMAIN r[i] = Range(d)
  BY DEF TurnedRows, TurnedLine
<1>7. IsList(r)
  <2> DEFINE l == Len(f.columns) - Skipped(f)
  <2>1. l \in Nat /\ DOMAIN r = 1 .. l
    BY <1>2, <1>3, <1>6
  <2> HIDE DEF l, r
  <2>2. Len(r) = l
    BY <2>1, ListLength
  <2> QED BY <2>1, <2>2, <1>3, <1>6 DEF IsList
<1> HIDE DEF c, d, r, n
<1>8. TableOK(c, d, r)
  <2>1. \A i \in DOMAIN r : DOMAIN r[i] = Range(Names(c)) /\ \A x \in Range(Names(c)) : r[i][x] \in Texts
    BY <1>4, <1>5, <1>6
  <2>2. Distinct(Names(c))
    BY <1>1, <1>4
  <2> QED BY <2>1, <2>2, <1>4, <1>7, TextTable
<1>9. FrameOK(Turned(f)) /\ Turned(f).columns = c /\ Turned(f).df = d
  BY <1>1, <1>4, <1>8, MadeTable
<1> QED BY <1>1, <1>4, <1>8, <1>9 DEF InStep, c, d, r

LEMMA TransposeKeeps ==
  ASSUME NEW f, FrameOK(f), InStep(f), TransposeTable(f) # Refused
  PROVE  FrameOK(TransposeTable(f)) /\ InStep(TransposeTable(f))
<1> DEFINE g == Turned(f)
           t == ~f.transposed
<1>1. g # Refused /\ TransposeTable(f) = [g EXCEPT !.transposed = t]
  BY DEF TransposeTable
<1>2. FrameOK(g) /\ InStep(g)
  BY <1>1, TurnedTable
<1>3. t \in BOOLEAN
  OBVIOUS
<1> HIDE DEF g, t
<1>4. [g EXCEPT !.transposed = t]
      = Framed(g.columns, g.df, g.rows, g.row_order, g.original_order, g.selected_rows, t)
  <2>1. PICK a, b, e, o, p, s, q : g = Framed(a, b, e, o, p, s, q)
    BY <1>2, FrameIsParts
  <2>2. g.columns = a /\ g.df = b /\ g.rows = e /\ g.row_order = o /\ g.original_order = p
        /\ g.selected_rows = s
    BY <2>1 DEF Framed
  <2>3. [g EXCEPT !.transposed = t] = Framed(a, b, e, o, p, s, t)
    BY <2>1 DEF Framed
  <2> QED BY <2>2, <2>3
<1> DEFINE h == Framed(g.columns, g.df, g.rows, g.row_order, g.original_order, g.selected_rows, t)
<1>5. FrameOK(h)
  BY <1>2, <1>3, FrameIsParts, PartsAreFrame
<1>6. h.columns = g.columns /\ h.df = g.df
  BY DEF Framed
<1> HIDE DEF h
<1>7. InStep(h)
  BY <1>2, <1>6 DEF InStep
<1> QED BY <1>1, <1>4, <1>5, <1>7 DEF h

LEMMA TransposedParts ==
  ASSUME NEW f, FrameOK(f), InStep(f), TransposeTable(f) # Refused
  PROVE  LET g == TransposeTable(f) IN
         /\ FrameOK(g) /\ InStep(g)
         /\ g.columns = TurnedColumns(f) /\ g.df = TurnedNames(f) /\ g.rows = TurnedRows(f)
         /\ g.row_order = [i \in DOMAIN TurnedRows(f) |-> i]
         /\ g.transposed = ~f.transposed
<1> DEFINE t == Turned(f)
           b == ~f.transposed
<1>1. t # Refused /\ TransposeTable(f) = [t EXCEPT !.transposed = b]
  BY DEF TransposeTable
<1>2. t = FromParts(TurnedColumns(f), TurnedNames(f), TurnedRows(f))
  BY <1>1, TurnedTable
<1> HIDE DEF b, t
<1> DEFINE c == TurnedColumns(f)
           d == TurnedNames(f)
           r == TurnedRows(f)
           o == [i \in DOMAIN r |-> i]
           none == {}
           no == FALSE
<1>3. t = Framed(c, d, r, o, o, none, no)
  BY <1>2 DEF FromParts, Framed
<1> HIDE DEF c, d, r, o, none, no
<1>4. [t EXCEPT !.transposed = b] = Framed(c, d, r, o, o, none, b)
  BY <1>3 DEF Framed
<1> DEFINE g == Framed(c, d, r, o, o, none, b)
<1>5. g.columns = c /\ g.df = d /\ g.rows = r /\ g.row_order = o /\ g.transposed = b
  BY DEF Framed
<1>6. TransposeTable(f) = g
  BY <1>1, <1>4
<1>7. FrameOK(TransposeTable(f)) /\ InStep(TransposeTable(f))
  BY TransposeKeeps
<1> HIDE DEF g
<1> QED BY <1>5, <1>6, <1>7 DEF c, d, r, o, b

\* Row numbers are headers no two of which are the same, nor that of the first column.
LEMMA RowNamesDiffer ==
  ASSUME NEW f, FrameOK(f), InStep(f), Len(f.row_order) # 0, ~f.transposed
  PROVE  Distinct(TurnedNames(f))
<1> DEFINE h == RowNames(f)
           n == Len(f.row_order)
<1>1. n \in Nat /\ DOMAIN f.row_order = 1 .. n /\ Distinct(f.row_order)
      /\ \A k \in 1 .. n : f.row_order[k] \in Nat
  BY VisibleShape, FrameIsParts DEF ListsOK
<1>2. h \in Seq(Texts) /\ Len(h) = n
  BY TurnedShape
<1>3. \A k \in 1 .. n : h[k] = RowName(f.row_order[k])
  BY DEF RowNames
<1>4. \A a \in Nat : /\ RowName(a) \in Seq(Words) /\ Len(RowName(a)) > 1
                     /\ \A b \in Nat : RowName(a) = RowName(b) => a = b
  <2> TAKE a \in Nat
  <2> DEFINE s == Numeral(a - 1)
             row == "row"
  <2>1. row \in Words
    BY WordsAssumption DEF OwnWords
  <2>2. a - 1 \in Int
    OBVIOUS
  <2>3. s \in Seq(Words) /\ Len(s) > 0
    <3>1. PICK m \in Nat : s \in [1 .. 1 + m -> Words]
      BY <2>2, NumeralShape
    <3> HIDE DEF s
    <3> QED BY <3>1
  <2>4. RowName(a) = <<row>> \o s
    BY DEF RowName
  <2>5. ASSUME NEW b \in Nat, RowName(a) = RowName(b) PROVE a = b
    <3> DEFINE u == Numeral(b - 1)
    <3>1. b - 1 \in Int
      OBVIOUS
    <3>2. u \in Seq(Words)
      BY <3>1, NumeralIsText DEF Texts
    <3>3. RowName(b) = <<row>> \o u
      BY DEF RowName
    <3> HIDE DEF s, u, row
    <3>4. <<row>> \o s = <<row>> \o u
      BY <2>4, <2>5, <3>3
    <3>5. Len(s) = Len(u) /\ \A k \in 1 .. Len(s) : s[k] = (<<row>> \o s)[k + 1]
                                                   /\ u[k] = (<<row>> \o u)[k + 1]
      BY <2>1, <2>3, <3>2, <3>4
    <3>6. s = u
      BY <2>3, <3>2, <3>4, <3>5
    <3> QED BY <2>2, <3>1, <3>6, NumeralInjective DEF s, u
  <2> HIDE DEF s, row
  <2>6. RowName(a) \in Seq(Words) /\ Len(RowName(a)) > 1
    BY <2>1, <2>3, <2>4
  <2> QED BY <2>5, <2>6
<1> HIDE DEF h
<1>5. \A k \in 1 .. n : h[k] # Corner
  <2> TAKE k \in 1 .. n
  <2> SUFFICES ASSUME h[k] = Corner PROVE FALSE
    OBVIOUS
  <2>1. Len(h[k]) > 1
    BY <1>1, <1>3, <1>4
  <2>2. Len(h[k]) = 1
    BY DEF Corner
  <2> QED BY <2>1, <2>2
<1>6. \A i, j \in 1 .. n : h[i] = h[j] => i = j
  <2> TAKE i, j \in 1 .. n
  <2> HAVE h[i] = h[j]
  <2>1. f.row_order[i] = f.row_order[j]
    BY <1>1, <1>3, <1>4
  <2> QED BY <2>1, <1>1 DEF Distinct
<1> HIDE DEF n
<1> DEFINE d == <<Corner>> \o h
<1>7. DOMAIN d = 1 .. n + 1 /\ \A k \in 1 .. n + 1 : d[k] = IF k = 1 THEN Corner ELSE h[k - 1]
  BY <1>1, <1>2
<1>8. TurnedNames(f) = d
  BY DEF TurnedNames, h
<1> HIDE DEF d
<1>9. \A k \in 1 .. n + 1 : k # 1 => k - 1 \in 1 .. n
  BY <1>1
<1>10. \A i, j \in DOMAIN d : d[i] = d[j] => i = j
  <2> TAKE i, j \in DOMAIN d
  <2> HAVE d[i] = d[j]
  <2>1. CASE i = 1 \/ j = 1
    BY <2>1, <1>5, <1>7, <1>9
  <2>2. CASE i # 1 /\ j # 1
    <3>1. i - 1 = j - 1
      BY <2>2, <1>6, <1>7, <1>9
    <3> QED BY <3>1, <1>7, <1>1
  <2> QED BY <2>1, <2>2
<1> QED BY <1>8, <1>10 DEF Distinct
\* The cells of a table stood on end: first its headers, then row by row what they show.
LEMMA TurnedCells ==
  ASSUME NEW f, FrameOK(f), InStep(f), f.row_order # <<>>, ~f.transposed
  PROVE  LET g == TransposeTable(f) IN
         /\ g # Refused /\ FrameOK(g) /\ InStep(g) /\ g.transposed
         /\ Len(g.row_order) = Len(f.columns) /\ Len(g.columns) = Len(f.row_order) + 1
         /\ \A i \in DOMAIN f.columns : TextAt(g, i, 1) = f.columns[i].name
         /\ \A k \in DOMAIN f.row_order, i \in DOMAIN f.columns :
               TextAt(g, i, k + 1) = TextAt(f, k, i)
<1> DEFINE n == Len(f.row_order)
           m == Len(f.columns)
           g == TransposeTable(f)
           h == RowNames(f)
<1>1. /\ n \in Nat /\ DOMAIN f.row_order = 1 .. n /\ m \in Nat /\ DOMAIN f.columns = 1 .. m
      /\ n # 0
  BY VisibleShape, RegularShape, FrameIsParts
<1>2. Distinct(TurnedNames(f))
  BY <1>1, RowNamesDiffer
<1>3. g # Refused
  <2> DEFINE t == Turned(f)
             b == ~f.transposed
  <2>1. t = FromParts(TurnedColumns(f), TurnedNames(f), TurnedRows(f))
    BY <1>1, <1>2, TurnedParts
  <2>2. TransposeTable(f) = IF t = Refused THEN Refused ELSE [t EXCEPT !.transposed = b]
    BY DEF TransposeTable
  <2>3. "columns" \in DOMAIN t
    BY <2>1 DEF FromParts
  <2>4. DOMAIN Refused = {"refused"}
    BY DEF Refused
  <2> HIDE DEF t, b
  <2>5. DOMAIN [t EXCEPT !.transposed = b] = DOMAIN t
    OBVIOUS
  <2>6. "columns" \notin DOMAIN Refused
    BY <2>4
  <2>7. t # Refused /\ [t EXCEPT !.transposed = b] # Refused
    BY <2>3, <2>5, <2>6
  <2> QED BY <2>2, <2>7
<1>4. /\ FrameOK(g) /\ InStep(g) /\ g.transposed
      /\ g.columns = TurnedColumns(f) /\ g.df = TurnedNames(f) /\ g.rows = TurnedRows(f)
      /\ g.row_order = [i \in DOMAIN TurnedRows(f) |-> i]
  BY <1>3, TransposedParts
<1>5. /\ h \in Seq(Texts) /\ Len(h) = n /\ DOMAIN Labels(f) = 1 .. m
      /\ \A i \in 1 .. m : Labels(f)[i] = f.columns[i].name /\ f.columns[i].name \in Texts
      /\ \A k \in DOMAIN TurnedColumns(f) : TurnedColumns(f)[k].type = "text"
      /\ TurnedColumns(f) \in Seq(ColumnMeta)
      /\ Names(TurnedColumns(f)) = TurnedNames(f)
  <2>1. Skipped(f) = 0 /\ m - 0 = m
    BY <1>1 DEF Skipped
  <2>2. DOMAIN Labels(f) = 1 .. m - Skipped(f)
    BY <1>1, TurnedShape
  <2>3. DOMAIN Labels(f) = 1 .. m
    BY <2>1, <2>2
  <2>4. \A i \in 1 .. m : i + Skipped(f) = i
    BY <2>1
  <2> QED BY <2>3, <2>4, <1>1, TurnedShape
<1> HIDE DEF g, h, n, m
<1> DEFINE d == <<Corner>> \o h
<1>6. /\ TurnedNames(f) = d /\ Len(d) = n + 1
      /\ \A k \in 1 .. n + 1 : d[k] = IF k = 1 THEN Corner ELSE h[k - 1]
      /\ DOMAIN d = 1 .. n + 1
  BY <1>1, <1>5 DEF TurnedNames, h
<1> HIDE DEF d
<1>7. DOMAIN TurnedRows(f) = 1 .. m /\ \A i \in 1 .. m : TurnedRows(f)[i] = TurnedLine(f, i)
  BY <1>5 DEF TurnedRows
<1>8. /\ DOMAIN g.row_order = 1 .. m /\ Len(g.row_order) = m
      /\ \A i \in 1 .. m : g.row_order[i] = i
  <2>1. g.row_order = [i \in 1 .. m |-> i]
    BY <1>4, <1>7
  <2> QED BY <2>1, <1>1
<1>9. DOMAIN g.columns = 1 .. n + 1 /\ Len(g.columns) = n + 1
  <2>1. Len(Names(TurnedColumns(f))) = Len(TurnedColumns(f))
    BY <1>5, NamesType
  <2>2. Len(TurnedColumns(f)) = n + 1
    BY <2>1, <1>5, <1>6
  <2> QED BY <2>2, <1>4, <1>5
<1>10. ASSUME NEW i \in 1 .. m, NEW k \in 1 .. n + 1
       PROVE  TextAt(g, i, k) = Text("text", TurnedLine(f, i)[d[k]])
  <2>3. k \in DOMAIN TurnedColumns(f)
    BY <1>4, <1>9
  <2>4. TurnedColumns(f)[k].type = "text"
    BY <2>3, <1>5
  <2>5. g.columns[k] = TurnedColumns(f)[k] /\ g.df[k] = d[k]
    BY <1>4, <1>6
  <2>1. g.columns[k].type = "text" /\ g.df[k] = d[k] /\ g.row_order[i] = i
    BY <2>4, <2>5, <1>8
  <2>2. g.rows[i] = TurnedLine(f, i)
    BY <1>4, <1>7
  <2> QED BY <2>1, <2>2 DEF TextAt, GetVal, GetPhysical
<1>11. \A x \in Texts : Text("text", x) = x
  BY NullAssumption DEF Text
<1>12. \A k \in 1 .. n + 1 : d[k] \in Range(TurnedNames(f))
  BY <1>6, InRange
<1>13. ASSUME NEW i \in 1 .. m PROVE TextAt(g, i, 1) = f.columns[i].name
  <2>1. 1 \in 1 .. n + 1 /\ d[1] = Corner
    BY <1>1, <1>6
  <2>2. TurnedLine(f, i)[Corner] = Labels(f)[i]
    <3>1. Corner \in Range(TurnedNames(f))
      BY <2>1, <1>12
    <3> QED BY <3>1 DEF TurnedLine
  <2> QED BY <2>1, <2>2, <1>5, <1>10, <1>11
<1>14. ASSUME NEW k \in 1 .. n, NEW i \in 1 .. m
       PROVE  TextAt(g, i, k + 1) = TextAt(f, k, i)
  <2>1. k + 1 \in 1 .. n + 1 /\ d[k + 1] = h[k]
    BY <1>1, <1>6
  <2>2. h[k] # Corner
    <3> SUFFICES ASSUME h[k] = Corner PROVE FALSE
      OBVIOUS
    <3>1. 1 \in DOMAIN d /\ k + 1 \in DOMAIN d /\ d[1] = d[k + 1]
      BY <2>1, <1>1, <1>6
    <3>2. 1 = k + 1
      BY <3>1, <1>2, <1>6 DEF Distinct
    <3> QED BY <3>2, <1>1
  <2> DEFINE at == CHOOSE j \in 1 .. n : h[j] = h[k]
  <2>3. at \in 1 .. n /\ h[at] = h[k]
    OBVIOUS
  <2>4. TurnedLine(f, i)[h[k]] = TextAt(f, at, i + Skipped(f))
    <3>1. h[k] \in Range(TurnedNames(f))
      BY <2>1, <1>12
    <3> QED BY <3>1, <2>2 DEF TurnedLine, h, n
  <2> HIDE DEF at
  <2>5. at = k
    <3>1. at + 1 \in DOMAIN d /\ k + 1 \in DOMAIN d /\ d[at + 1] = d[k + 1]
      BY <2>1, <2>3, <1>1, <1>6
    <3>2. at + 1 = k + 1
      BY <3>1, <1>2, <1>6 DEF Distinct
    <3> QED BY <3>2, <2>3, <1>1
  <2>6. i + Skipped(f) = i
    BY <1>1 DEF Skipped
  <2>7. TextAt(f, k, i) \in Texts
    BY <1>1, TextAtIsText DEF n, m
  <2> QED BY <2>1, <2>4, <2>5, <2>6, <2>7, <1>10, <1>11
<1> QED BY <1>1, <1>3, <1>4, <1>8, <1>9, <1>13, <1>14 DEF g, n, m
\* Turned again, its first column is the headers, and the others are the rows.
LEMMA TurnedBack ==
  ASSUME NEW g, FrameOK(g), InStep(g), g.row_order # <<>>, g.transposed,
         \A j, k \in DOMAIN g.row_order : TextAt(g, j, 1) = TextAt(g, k, 1) => j = k
  PROVE  LET t == TransposeTable(g) IN
         /\ ~t.transposed
         /\ Len(t.row_order) = Len(g.columns) - 1 /\ DOMAIN t.row_order = 1 .. Len(g.columns) - 1
         /\ DOMAIN t.columns = DOMAIN g.row_order
         /\ \A k \in DOMAIN g.row_order : Names(t.columns)[k] = TextAt(g, k, 1)
         /\ DOMAIN Names(t.columns) = DOMAIN g.row_order
         /\ \A k \in DOMAIN g.row_order, i \in 1 .. Len(g.columns) - 1 :
               TextAt(t, i, k) = TextAt(g, k, i + 1)
<1> DEFINE n == Len(g.row_order)
           m == Len(g.columns)
           t == TransposeTable(g)
           h == RowNames(g)
<1>1. /\ n \in Nat /\ DOMAIN g.row_order = 1 .. n /\ m \in Nat /\ DOMAIN g.columns = 1 .. m
      /\ n # 0 /\ m # 0
  BY VisibleShape, RegularShape, FrameIsParts
<1>2. /\ h \in Seq(Texts) /\ Len(h) = n /\ DOMAIN Labels(g) = 1 .. m - Skipped(g)
      /\ \A k \in DOMAIN TurnedColumns(g) : TurnedColumns(g)[k].type = "text"
      /\ TurnedColumns(g) \in Seq(ColumnMeta)
      /\ Names(TurnedColumns(g)) = TurnedNames(g)
  BY <1>1, TurnedShape
<1>3. Skipped(g) = 1 /\ TurnedNames(g) = h /\ \A k \in 1 .. n : h[k] = TextAt(g, k, 1)
  BY DEF Skipped, TurnedNames, RowNames
<1>4. DOMAIN h = 1 .. n
  BY <1>1, <1>2
<1>5. Distinct(TurnedNames(g))
  BY <1>1, <1>3, <1>4 DEF Distinct
<1>6. t # Refused
  <2> DEFINE u == Turned(g)
             b == ~g.transposed
  <2>1. u = FromParts(TurnedColumns(g), TurnedNames(g), TurnedRows(g))
    BY <1>1, <1>5, TurnedParts
  <2>2. TransposeTable(g) = IF u = Refused THEN Refused ELSE [u EXCEPT !.transposed = b]
    BY DEF TransposeTable
  <2>3. "columns" \in DOMAIN u
    BY <2>1 DEF FromParts
  <2>4. DOMAIN Refused = {"refused"}
    BY DEF Refused
  <2> HIDE DEF u, b
  <2>5. DOMAIN [u EXCEPT !.transposed = b] = DOMAIN u
    OBVIOUS
  <2>6. "columns" \notin DOMAIN Refused
    BY <2>4
  <2>7. u # Refused /\ [u EXCEPT !.transposed = b] # Refused
    BY <2>3, <2>5, <2>6
  <2> QED BY <2>2, <2>7
<1>7. /\ FrameOK(t) /\ InStep(t) /\ ~t.transposed
      /\ t.columns = TurnedColumns(g) /\ t.df = TurnedNames(g) /\ t.rows = TurnedRows(g)
      /\ t.row_order = [i \in DOMAIN TurnedRows(g) |-> i]
  BY <1>6, TransposedParts
<1> HIDE DEF t, h, n, m
<1>8. /\ DOMAIN TurnedRows(g) = 1 .. m - 1
      /\ \A i \in 1 .. m - 1 : TurnedRows(g)[i] = TurnedLine(g, i)
  <2>1. DOMAIN Labels(g) = 1 .. m - 1
    BY <1>2, <1>3
  <2> QED BY <2>1 DEF TurnedRows
<1>9. /\ DOMAIN t.row_order = 1 .. m - 1 /\ Len(t.row_order) = m - 1
      /\ \A i \in 1 .. m - 1 : t.row_order[i] = i
  <2>1. t.row_order = [i \in 1 .. m - 1 |-> i]
    BY <1>7, <1>8
  <2> QED BY <2>1, <1>1
<1>10. /\ DOMAIN TurnedColumns(g) = 1 .. n /\ DOMAIN Names(TurnedColumns(g)) = 1 .. n
       /\ \A k \in 1 .. n : Names(TurnedColumns(g))[k] = TextAt(g, k, 1)
  <2>1. DOMAIN Names(TurnedColumns(g)) = DOMAIN TurnedColumns(g)
    BY <1>2, NamesType
  <2> QED BY <2>1, <1>2, <1>3, <1>4
<1>11. ASSUME NEW k \in 1 .. n, NEW i \in 1 .. m - 1
       PROVE  TextAt(t, i, k) = TextAt(g, k, i + 1)
  <2> DEFINE at == CHOOSE j \in 1 .. n : h[j] = h[k]
  <2>1. at \in 1 .. n /\ h[at] = h[k]
    OBVIOUS
  <2>2. TurnedLine(g, i)[h[k]] = TextAt(g, at, i + 1)
    <3>1. h[k] \in Range(TurnedNames(g))
      BY <1>3, <1>4, InRange
    <3> QED BY <3>1, <1>3 DEF TurnedLine, h, n
  <2> HIDE DEF at
  <2>3. at = k
    BY <2>1, <1>3, <1>4, <1>5 DEF Distinct
  <2>4. t.columns[k].type = "text"
    BY <1>2, <1>7, <1>10
  <2>5. t.df[k] = h[k] /\ t.row_order[i] = i /\ t.rows[i] = TurnedLine(g, i)
    BY <1>3, <1>7, <1>8, <1>9
  <2>6. TextAt(t, i, k) = Text("text", TurnedLine(g, i)[h[k]])
    BY <2>4, <2>5 DEF TextAt, GetVal, GetPhysical
  <2>7. TextAt(g, k, i + 1) \in Texts
    <3>1. i + 1 \in 1 .. m
      BY <1>1
    <3> QED BY <3>1, <1>1, TextAtIsText DEF n, m
  <2>8. \A x \in Texts : Text("text", x) = x
    BY NullAssumption DEF Text
  <2> QED BY <2>2, <2>3, <2>6, <2>7, <2>8
<1>12. DOMAIN t.columns = 1 .. n /\ DOMAIN Names(t.columns) = 1 .. n
       /\ \A k \in 1 .. n : Names(t.columns)[k] = TextAt(g, k, 1)
  BY <1>7, <1>10
<1> QED BY <1>1, <1>7, <1>9, <1>11, <1>12 DEF t, n, m

LEMMA TwiceTurned ==
  ASSUME NEW f, FrameOK(f), InStep(f), f.row_order # <<>>, ~f.transposed
  PROVE  LET twice == TransposeTable(TransposeTable(f)) IN
         /\ Names(twice.columns) = Names(f.columns)
         /\ Shown(twice) = Shown(f)
         /\ ~twice.transposed
<1> DEFINE g == TransposeTable(f)
           t == TransposeTable(g)
           n == Len(f.row_order)
           m == Len(f.columns)
<1>1. /\ n \in Nat /\ DOMAIN f.row_order = 1 .. n /\ m \in Nat /\ DOMAIN f.columns = 1 .. m
      /\ n # 0 /\ m # 0
  BY VisibleShape, RegularShape, FrameIsParts
<1>2. /\ FrameOK(g) /\ InStep(g) /\ g.transposed
      /\ Len(g.row_order) = m /\ Len(g.columns) = n + 1
      /\ \A i \in 1 .. m : TextAt(g, i, 1) = f.columns[i].name
      /\ \A k \in 1 .. n, i \in 1 .. m : TextAt(g, i, k + 1) = TextAt(f, k, i)
  BY <1>1, TurnedCells
<1>3. \A i, j \in 1 .. m : f.columns[i].name = f.columns[j].name => i = j
  BY <1>1, RegularShape
<1> HIDE DEF g, n, m
<1>4. DOMAIN g.row_order = 1 .. m /\ g.row_order # <<>>
  BY <1>1, <1>2, VisibleShape
<1>5. \A j, k \in DOMAIN g.row_order : TextAt(g, j, 1) = TextAt(g, k, 1) => j = k
  BY <1>2, <1>3, <1>4
<1>6. (n + 1) - 1 = n
  BY <1>1
<1>7. /\ ~t.transposed /\ Len(t.row_order) = Len(g.columns) - 1
      /\ DOMAIN t.row_order = 1 .. Len(g.columns) - 1
      /\ DOMAIN t.columns = DOMAIN g.row_order
      /\ \A k \in DOMAIN g.row_order : Names(t.columns)[k] = TextAt(g, k, 1)
      /\ DOMAIN Names(t.columns) = DOMAIN g.row_order
      /\ \A k \in DOMAIN g.row_order, i \in 1 .. Len(g.columns) - 1 :
            TextAt(t, i, k) = TextAt(g, k, i + 1)
  BY <1>2, <1>4, <1>5, TurnedBack
<1> HIDE DEF t
<1>8. /\ DOMAIN t.row_order = 1 .. n /\ DOMAIN t.columns = 1 .. m
      /\ DOMAIN Names(t.columns) = 1 .. m
      /\ \A i \in 1 .. m : Names(t.columns)[i] = f.columns[i].name
      /\ \A k \in 1 .. n, i \in 1 .. m : TextAt(t, k, i) = TextAt(f, k, i)
  BY <1>2, <1>4, <1>6, <1>7
<1>9. Names(t.columns) = [i \in 1 .. m |-> f.columns[i].name]
  <2>1. Names(t.columns) = [i \in DOMAIN t.columns |-> t.columns[i].name]
    BY DEF Names
  <2>2. \A i \in 1 .. m : t.columns[i].name = Names(t.columns)[i]
    BY <1>8 DEF Names
  <2>3. \A i \in 1 .. m : t.columns[i].name = f.columns[i].name
    BY <2>2, <1>8
  <2>4. [i \in 1 .. m |-> t.columns[i].name] = [i \in 1 .. m |-> f.columns[i].name]
    BY <2>3
  <2> QED BY <2>1, <2>4, <1>8
<1>10. Names(f.columns) = [i \in 1 .. m |-> f.columns[i].name]
  BY <1>1 DEF Names
<1>11. Shown(t) = [k \in 1 .. n |-> [i \in 1 .. m |-> TextAt(t, k, i)]]
       /\ Shown(f) = [k \in 1 .. n |-> [i \in 1 .. m |-> TextAt(f, k, i)]]
  BY <1>1, <1>8 DEF Shown
<1>12. \A k \in 1 .. n : [i \in 1 .. m |-> TextAt(t, k, i)] = [i \in 1 .. m |-> TextAt(f, k, i)]
  BY <1>8
<1>13. Shown(t) = Shown(f)
  BY <1>11, <1>12
<1> QED BY <1>7, <1>9, <1>10, <1>13 DEF t, g

-----------------------------------------------------------------------------
(* Columns side by side, and the sums over groups of rows.                 *)

LEMMA NamesJoined ==
  ASSUME NEW a \in Seq(ColumnMeta), NEW b \in Seq(ColumnMeta)
  PROVE  Names(a \o b) = Names(a) \o Names(b)
<1> DEFINE c == a \o b
           d == Names(a) \o Names(b)
<1>1. /\ Names(a) \in Seq(Texts) /\ Len(Names(a)) = Len(a)
      /\ \A k \in DOMAIN a : Names(a)[k] = a[k].name
  BY NamesType
<1>2. /\ Names(b) \in Seq(Texts) /\ Len(Names(b)) = Len(b)
      /\ \A k \in DOMAIN b : Names(b)[k] = b[k].name
  BY NamesType
<1>3. c \in Seq(ColumnMeta) /\ Len(c) = Len(a) + Len(b)
      /\ \A k \in 1 .. Len(c) : c[k] = IF k <= Len(a) THEN a[k] ELSE b[k - Len(a)]
  OBVIOUS
<1>4. d \in Seq(Texts) /\ Len(d) = Len(a) + Len(b)
      /\ \A k \in 1 .. Len(d) : d[k] = IF k <= Len(a) THEN Names(a)[k] ELSE Names(b)[k - Len(a)]
  <2> DEFINE x == Names(a)
             y == Names(b)
  <2>1. x \in Seq(Texts) /\ y \in Seq(Texts) /\ Len(x) = Len(a) /\ Len(y) = Len(b)
    BY <1>1, <1>2
  <2> HIDE DEF x, y
  <2>2. x \o y \in Seq(Texts) /\ Len(x \o y) = Len(a) + Len(b)
        /\ \A k \in 1 .. Len(x \o y) : (x \o y)[k] = IF k <= Len(a) THEN x[k] ELSE y[k - Len(a)]
    BY <2>1
  <2> QED BY <2>2 DEF x, y
<1> HIDE DEF c, d
<1>5. /\ Names(c) \in Seq(Texts) /\ Len(Names(c)) = Len(c)
      /\ \A k \in DOMAIN c : Names(c)[k] = c[k].name
  BY <1>3, NamesType
<1>6. \A k \in 1 .. Len(d) : Names(c)[k] = d[k]
  <2> TAKE k \in 1 .. Len(d)
  <2>1. CASE k <= Len(a)
    <3>1. k \in DOMAIN a /\ k \in DOMAIN c
      BY <2>1, <1>3, <1>4
    <3> QED BY <3>1, <2>1, <1>1, <1>3, <1>4, <1>5
  <2>2. CASE ~(k <= Len(a))
    <3>1. k - Len(a) \in DOMAIN b /\ k \in DOMAIN c
      BY <2>2, <1>3, <1>4
    <3> QED BY <3>1, <2>2, <1>2, <1>3, <1>4, <1>5
  <2> QED BY <2>1, <2>2
<1>7. Names(c) = d
  BY <1>3, <1>4, <1>5, <1>6
<1> QED BY <1>7 DEF c, d

LEMMA RangeJoined ==
  ASSUME NEW T, NEW a \in Seq(T), NEW b \in Seq(T)
  PROVE  /\ Range(a \o b) = Range(a) \cup Range(b)
         /\ \A k \in DOMAIN a : k \in DOMAIN (a \o b) /\ (a \o b)[k] = a[k]
         /\ \A k \in DOMAIN b : Len(a) + k \in DOMAIN (a \o b) /\ (a \o b)[Len(a) + k] = b[k]
<1> DEFINE s == a \o b
<1>1. /\ s \in Seq(T) /\ Len(s) = Len(a) + Len(b) /\ DOMAIN s = 1 .. Len(a) + Len(b)
      /\ \A k \in 1 .. Len(a) : s[k] = a[k]
      /\ \A k \in Len(a) + 1 .. Len(a) + Len(b) : s[k] = b[k - Len(a)]
      /\ DOMAIN a = 1 .. Len(a) /\ DOMAIN b = 1 .. Len(b) /\ Len(a) \in Nat /\ Len(b) \in Nat
  OBVIOUS
<1> HIDE DEF s
<1>2. \A k \in DOMAIN a : k \in DOMAIN s /\ s[k] = a[k]
  BY <1>1
<1>3. \A k \in DOMAIN b : Len(a) + k \in DOMAIN s /\ s[Len(a) + k] = b[k]
  <2> TAKE k \in DOMAIN b
  <2>1. Len(a) + k \in Len(a) + 1 .. Len(a) + Len(b) /\ Len(a) + k - Len(a) = k
    BY <1>1
  <2>2. Len(a) + k \in DOMAIN s
    BY <2>1, <1>1
  <2> QED BY <2>1, <2>2, <1>1
<1>4. \A x \in Range(a) \cup Range(b) : x \in Range(s)
  BY <1>2, <1>3, InRange
<1>5. ASSUME NEW x \in Range(s) PROVE x \in Range(a) \cup Range(b)
  <2>1. PICK k \in DOMAIN s : s[k] = x
    BY InRange
  <2>2. CASE k <= Len(a)
    <3>1. k \in DOMAIN a /\ a[k] = x
      BY <2>1, <2>2, <1>1
    <3> QED BY <3>1, InRange
  <2>3. CASE ~(k <= Len(a))
    <3>1. k - Len(a) \in DOMAIN b /\ b[k - Len(a)] = x
      BY <2>1, <2>3, <1>1
    <3> QED BY <3>1, InRange
  <2> QED BY <2>2, <2>3
<1> QED BY <1>2, <1>3, <1>4, <1>5 DEF s

LEMMA NamesOfShape ==
  ASSUME NEW f, FrameOK(f), InStep(f), NEW S \in SUBSET DOMAIN f.columns
  PROVE  /\ NamesOf(f, S) \in Seq(Texts) /\ DOMAIN NamesOf(f, S) = 1 .. Cardinality(S)
         /\ Cardinality(S) \in Nat /\ Len(NamesOf(f, S)) = Cardinality(S)
         /\ \A k \in 1 .. Cardinality(S) : /\ Listed(S)[k] \in S /\ Listed(S)[k] \in DOMAIN f.columns
                                           /\ NamesOf(f, S)[k] = f.columns[Listed(S)[k]].name
         /\ Distinct(NamesOf(f, S))
         /\ \A i \in S : f.columns[i].name \in Range(NamesOf(f, S))
         /\ \A x \in Range(NamesOf(f, S)) : \E i \in S : x = f.columns[i].name
         /\ Range(NamesOf(f, S)) \subseteq Range(f.df)
<1> DEFINE m == Cardinality(S)
           p == Listed(S)
           s == NamesOf(f, S)
<1>1. DOMAIN f.columns = 1 .. Len(f.columns) /\ Len(f.columns) \in Nat
  BY RegularShape
<1>2. /\ \A i \in DOMAIN f.columns : f.columns[i].name \in Texts /\ f.columns[i].name \in Range(f.df)
      /\ \A i, j \in DOMAIN f.columns : f.columns[i].name = f.columns[j].name => i = j
  BY RegularShape
<1>3. /\ m \in Nat
      /\ \A a \in 1 .. m : p[a] \in S
      /\ \A a, b \in 1 .. m : p[a] = p[b] => a = b
      /\ \A t \in S : \E a \in 1 .. m : p[a] = t
  BY <1>1, ListedFacts
<1>4. s = [k \in 1 .. m |-> f.columns[p[k]].name]
  BY DEF NamesOf
<1> HIDE DEF m, p, s
<1>5. \A a \in 1 .. m : p[a] \in DOMAIN f.columns
  BY <1>3
<1>6. s \in Seq(Texts) /\ DOMAIN s = 1 .. m /\ Len(s) = m
      /\ \A k \in 1 .. m : s[k] = f.columns[p[k]].name
  <2>1. \A k \in 1 .. m : f.columns[p[k]].name \in Texts
    BY <1>2, <1>5
  <2> QED BY <2>1, <1>3, <1>4
<1>7. Distinct(s)
  BY <1>2, <1>3, <1>5, <1>6 DEF Distinct
<1>8. \A i \in S : f.columns[i].name \in Range(s)
  <2> TAKE i \in S
  <2>1. PICK a \in 1 .. m : p[a] = i
    BY <1>3
  <2>2. a \in DOMAIN s /\ s[a] = f.columns[i].name
    BY <2>1, <1>6
  <2> QED BY <2>2, InRange
<1>9. \A x \in Range(s) : \E i \in S : x = f.columns[i].name
  <2> TAKE x \in Range(s)
  <2>1. PICK a \in DOMAIN s : s[a] = x
    BY InRange
  <2>2. p[a] \in S /\ x = f.columns[p[a]].name
    BY <2>1, <1>3, <1>6
  <2> QED BY <2>2
<1>10. Range(s) \subseteq Range(f.df)
  BY <1>2, <1>9
<1> QED BY <1>3, <1>5, <1>6, <1>7, <1>8, <1>9, <1>10 DEF m, p, s

LEMMA SumNameFacts ==
  ASSUME NEW x \in Texts
  PROVE  /\ SumName(x) \in Texts /\ Front(SumName(x)) = x
         /\ SumName(x) \notin {Count, Pct, Bar}
<1> DEFINE w == ":sum"
           y == x \o <<w>>
           n == Len(x)
<1>1. w \in Words /\ w # "Count" /\ w # "Pct" /\ w # "Bar"
  BY WordsAssumption DEF OwnWords
<1>2. x \in Seq(Words) /\ n \in Nat
  BY DEF Texts
<1>3. SumName(x) = y
  BY DEF SumName
<1> HIDE DEF w, n
<1>4. y \in Seq(Words) /\ Len(y) = n + 1 /\ y[n + 1] = w /\ \A k \in 1 .. n : y[k] = x[k]
  BY <1>1, <1>2 DEF n
<1> HIDE DEF y
<1>5. Front(y) = x
  <2>1. Front(y) = SubSeq(y, 1, n)
    BY <1>2, <1>4 DEF Front
  <2>2. SubSeq(y, 1, n) \in Seq(Words) /\ Len(SubSeq(y, 1, n)) = n
        /\ \A k \in 1 .. n : SubSeq(y, 1, n)[k] = y[k]
    BY <1>2, <1>4
  <2> QED BY <2>1, <2>2, <1>2, <1>4 DEF n
<1>6. ASSUME NEW v, v # w, y = <<v>> PROVE FALSE
  <2>1. Len(y) = 1 /\ y[1] = v
    BY <1>6
  <2>a. Len(y) = n + 1 /\ n \in Nat
    BY <1>2, <1>4
  <2>2. n = 0
    BY <2>1, <2>a
  <2> QED BY <2>1, <2>2, <1>4, <1>6
<1> QED BY <1>1, <1>3, <1>4, <1>5, <1>6 DEF Texts, Count, Pct, Bar

LEMMA SumNameInjective ==
  ASSUME NEW x \in Texts, NEW y \in Texts, SumName(x) = SumName(y)
  PROVE  x = y
BY SumNameFacts

LEMMA SumColumnsShape ==
  ASSUME NEW f, FrameOK(f), InStep(f), NEW S \in SUBSET DOMAIN f.columns,
         \A i \in S : Numeric(f, i)
  PROVE  /\ SumColumns(f, S) \in Seq(ColumnMeta) /\ DOMAIN SumColumns(f, S) = 1 .. Cardinality(S)
         /\ Len(SumColumns(f, S)) = Cardinality(S) /\ Cardinality(S) \in Nat
         /\ \A k \in 1 .. Cardinality(S) :
               \E i \in S : /\ SumColumns(f, S)[k].name = SumName(f.columns[i].name)
                            /\ SumColumns(f, S)[k].type = f.columns[i].type
                            /\ f.columns[i].type # "text"
         /\ \A i \in S : SumName(f.columns[i].name) \in Range(Names(SumColumns(f, S)))
         /\ \A x \in Range(Names(SumColumns(f, S))) : \E i \in S : x = SumName(f.columns[i].name)
<1> DEFINE m == Cardinality(S)
           p == Listed(S)
           s == SumColumns(f, S)
<1>1. DOMAIN f.columns = 1 .. Len(f.columns) /\ Len(f.columns) \in Nat
  BY RegularShape
<1>2. \A i \in DOMAIN f.columns : f.columns[i].name \in Texts /\ f.columns[i].type \in Types
  BY RegularShape
<1>3. /\ m \in Nat
      /\ \A a \in 1 .. m : p[a] \in S
      /\ \A t \in S : \E a \in 1 .. m : p[a] = t
  BY <1>1, ListedFacts
<1>4. s = [k \in 1 .. m |-> Column(SumName(f.columns[p[k]].name), f.columns[p[k]].type)]
  BY DEF SumColumns, SumColumn
<1> HIDE DEF m, p, s
<1>5. \A k \in 1 .. m : /\ s[k] \in ColumnMeta
                        /\ s[k].name = SumName(f.columns[p[k]].name)
                        /\ s[k].type = f.columns[p[k]].type
  <2> TAKE k \in 1 .. m
  <2>1. f.columns[p[k]].name \in Texts /\ f.columns[p[k]].type \in Types
    BY <1>2, <1>3
  <2>2. SumName(f.columns[p[k]].name) \in Texts
    BY <2>1, SumNameFacts
  <2> QED BY <2>1, <2>2, <1>4, ColumnType
<1>6. s \in Seq(ColumnMeta) /\ DOMAIN s = 1 .. m /\ Len(s) = m
  BY <1>3, <1>4, <1>5
<1>7. DOMAIN Names(s) = 1 .. m /\ \A k \in 1 .. m : Names(s)[k] = SumName(f.columns[p[k]].name)
  BY <1>5, <1>6, NamesType
<1>8. \A i \in S : SumName(f.columns[i].name) \in Range(Names(s))
  <2> TAKE i \in S
  <2>1. PICK a \in 1 .. m : p[a] = i
    BY <1>3
  <2>2. a \in DOMAIN Names(s) /\ Names(s)[a] = SumName(f.columns[i].name)
    BY <2>1, <1>7
  <2> QED BY <2>2, InRange
<1>9. \A x \in Range(Names(s)) : \E i \in S : x = SumName(f.columns[i].name)
  <2> TAKE x \in Range(Names(s))
  <2>1. PICK a \in DOMAIN Names(s) : Names(s)[a] = x
    BY InRange
  <2>2. p[a] \in S /\ x = SumName(f.columns[p[a]].name)
    BY <2>1, <1>3, <1>7
  <2> QED BY <2>2
<1>10. \A k \in 1 .. m : \E i \in S : /\ s[k].name = SumName(f.columns[i].name)
                                      /\ s[k].type = f.columns[i].type
                                      /\ f.columns[i].type # "text"
  BY <1>3, <1>5 DEF Numeric
<1> QED BY <1>3, <1>6, <1>8, <1>9, <1>10 DEF m, p, s

\* What is added up: the values of some rows, NULLs as nothing.
Addends(rows, S, name) ==
    [j \in DOMAIN rows |-> IF j \in S /\ rows[j][name] # Null THEN rows[j][name] ELSE 0]

LEMMA AddendsType ==
  ASSUME NEW n \in Nat, NEW rows, DOMAIN rows = 1 .. n, NEW name,
         \A k \in 1 .. n : rows[k][name] \in Int \cup {Null}, NEW S
  PROVE  /\ Addends(rows, S, name) \in [1 .. n -> Int]
         /\ SumOver(rows, S, name) = SumOf(Addends(rows, S, name))
         /\ SumOver(rows, S, name) \in Int
<1>1. Addends(rows, S, name) \in [1 .. n -> Int]
  BY DEF Addends
<1>2. SumOver(rows, S, name) = SumOf(Addends(rows, S, name))
  BY DEF SumOver, Addends
<1> QED BY <1>1, <1>2, SumType

LEMMA SumOverType ==
  ASSUME NEW f, FrameOK(f), InStep(f), NEW i \in DOMAIN f.columns, Numeric(f, i), NEW S
  PROVE  SumOver(Visible(f), S, f.columns[i].name) \in Int
<1> DEFINE n == Len(f.row_order)
           rows == Visible(f)
           name == f.columns[i].name
<1>1. n \in Nat /\ DOMAIN rows = 1 .. n /\ DOMAIN f.row_order = 1 .. n
  BY VisibleShape
<1>2. \A k \in 1 .. n : rows[k][name] \in Int \cup {Null}
  BY <1>1, NumberColumn
<1> HIDE DEF n, rows, name
<1>3. SumOver(rows, S, name) \in Int
  BY <1>1, <1>2, AddendsType
<1> QED BY <1>3 DEF rows, name

\* A line of a table grouped by the columns cols, with the sums of aggs.
LineOf(f, cols, aggs, i) ==
    GroupLine(Visible(f), Range(NamesOf(f, cols)), SumColumns(f, aggs), i)

LEMMA GroupCells ==
  ASSUME NEW f, FrameOK(f), InStep(f), NEW cols \in SUBSET DOMAIN f.columns,
         NEW aggs \in SUBSET DOMAIN f.columns, \A j \in aggs : Numeric(f, j),
         NEW i \in DOMAIN f.row_order
  PROVE  /\ DOMAIN LineOf(f, cols, aggs, i)
            = Range(NamesOf(f, cols)) \cup Range(Names(SumColumns(f, aggs)))
         /\ \A j \in cols :
               LineOf(f, cols, aggs, i)[f.columns[j].name] = Visible(f)[i][f.columns[j].name]
         /\ \A j \in aggs : SumName(f.columns[j].name) \notin Range(NamesOf(f, cols)) =>
               /\ LineOf(f, cols, aggs, i)[SumName(f.columns[j].name)]
                  = SumOver(Visible(f), GroupOf(Visible(f), Range(NamesOf(f, cols)), i),
                            f.columns[j].name)
               /\ LineOf(f, cols, aggs, i)[SumName(f.columns[j].name)] \in Int
<1> DEFINE keys == Range(NamesOf(f, cols))
           sums == SumColumns(f, aggs)
           rows == Visible(f)
           names == Range(Names(sums))
           line == LineOf(f, cols, aggs, i)
<1>1. \A j \in cols : f.columns[j].name \in keys
  BY NamesOfShape
<1>2. \A j \in aggs : SumName(f.columns[j].name) \in names
  BY SumColumnsShape
<1>3. \A j \in aggs : Front(SumName(f.columns[j].name)) = f.columns[j].name
  <2>1. \A j \in aggs : f.columns[j].name \in Texts
    BY RegularShape
  <2> QED BY <2>1, SumNameFacts
<1>4. \A j \in aggs : SumOver(rows, GroupOf(rows, keys, i), f.columns[j].name) \in Int
  BY SumOverType
<1>5. line = [n \in keys \cup names |->
                IF n \in keys THEN rows[i][n] ELSE SumOver(rows, GroupOf(rows, keys, i), Front(n))]
  BY DEF GroupLine, LineOf
<1> HIDE DEF keys, rows, names, line, sums
<1>6. DOMAIN line = keys \cup names
  BY <1>5
<1>7. \A j \in cols : line[f.columns[j].name] = rows[i][f.columns[j].name]
  BY <1>1, <1>5
<1>8. \A j \in aggs : SumName(f.columns[j].name) \notin keys =>
        line[SumName(f.columns[j].name)] = SumOver(rows, GroupOf(rows, keys, i), f.columns[j].name)
  BY <1>2, <1>3, <1>5
<1> QED BY <1>4, <1>6, <1>7, <1>8 DEF keys, rows, names, line, sums

\* One row of each group, in the order the groups appear.
LEMMA FirstsFacts ==
  ASSUME NEW f, FrameOK(f), NEW keys
  PROVE  LET firsts == FirstOfGroups(Visible(f), keys)
             m == Cardinality(firsts)
         IN  /\ firsts \in SUBSET (1 .. Len(f.row_order)) /\ firsts \subseteq DOMAIN f.row_order
             /\ IsFiniteSet(firsts) /\ m \in Nat
             /\ \A k \in 1 .. m : Listed(firsts)[k] \in firsts
<1>1. DOMAIN Visible(f) = 1 .. Len(f.row_order) /\ Len(f.row_order) \in Nat
      /\ DOMAIN f.row_order = 1 .. Len(f.row_order)
  BY VisibleShape
<1>2. FirstOfGroups(Visible(f), keys) \in SUBSET (1 .. Len(f.row_order))
  BY <1>1 DEF FirstOfGroups
<1> QED BY <1>1, <1>2, ListedFacts

LEMMA ListFromTo ==
  ASSUME NEW m \in Nat, NEW r, DOMAIN r = 1 .. m, r = [k \in 1 .. m |-> r[k]]
  PROVE  IsList(r) /\ Len(r) = m
<1>1. Len(r) = m
  BY ListLength
<1> QED BY <1>1 DEF IsList

LEMMA GroupByKeeps ==
  ASSUME NEW f, FrameOK(f), InStep(f), NEW cols \in SUBSET DOMAIN f.columns, cols # {},
         NEW aggs \in SUBSET DOMAIN f.columns, \A j \in aggs : Numeric(f, j),
         GroupBy(f, cols, aggs) # Refused
  PROVE  FrameOK(GroupBy(f, cols, aggs)) /\ InStep(GroupBy(f, cols, aggs))
<1> DEFINE rows == Visible(f)
           names == NamesOf(f, cols)
           firsts == FirstOfGroups(rows, Range(names))
           m == Cardinality(firsts)
           l == Cardinality(cols)
           keys == [k \in 1 .. l |-> f.columns[Listed(cols)[k]]]
           sums == SumColumns(f, aggs)
           a == Cardinality(aggs)
           c == keys \o sums
           d == names \o Names(sums)
           r == [k \in 1 .. m |-> GroupLine(rows, Range(names), sums, Listed(firsts)[k])]
<1>1. DOMAIN names = 1 .. l
  BY NamesOfShape
<1>2. Distinct(d) /\ GroupBy(f, cols, aggs) = FromParts(c, d, r)
  BY <1>1 DEF GroupBy
<1>3. /\ names \in Seq(Texts) /\ Len(names) = l /\ l \in Nat
      /\ \A k \in 1 .. l : /\ Listed(cols)[k] \in cols /\ Listed(cols)[k] \in DOMAIN f.columns
                           /\ names[k] = f.columns[Listed(cols)[k]].name
      /\ \A j \in cols : f.columns[j].name \in Range(names)
      /\ \A x \in Range(names) : \E j \in cols : x = f.columns[j].name
  BY NamesOfShape
<1>4. \A j \in DOMAIN f.columns : f.columns[j] \in ColumnMeta /\ f.columns[j].type \in Types
  BY RegularShape
<1>5. /\ sums \in Seq(ColumnMeta) /\ DOMAIN sums = 1 .. a /\ a \in Nat /\ Len(sums) = a
      /\ \A k \in 1 .. a :
            \E i \in aggs : /\ sums[k].name = SumName(f.columns[i].name)
                            /\ sums[k].type = f.columns[i].type
                            /\ f.columns[i].type # "text"
      /\ \A x \in Range(Names(sums)) : \E i \in aggs : x = SumName(f.columns[i].name)
  BY SumColumnsShape
<1>6. m \in Nat /\ \A k \in 1 .. m : Listed(firsts)[k] \in DOMAIN f.row_order
  BY FirstsFacts
<1> HIDE DEF rows, names, firsts, m, l, sums, a
<1>7. keys \in Seq(ColumnMeta) /\ Len(keys) = l /\ DOMAIN keys = 1 .. l
      /\ \A k \in 1 .. l : keys[k] = f.columns[Listed(cols)[k]]
  BY <1>3, <1>4
<1> HIDE DEF keys
<1>8. Names(keys) = names
  BY <1>1, <1>3, <1>7 DEF Names
<1>9. c \in Seq(ColumnMeta) /\ Names(c) = d /\ DOMAIN c = 1 .. l + a
      /\ \A k \in 1 .. l + a : c[k] = IF k <= l THEN keys[k] ELSE sums[k - l]
  <2>1. Names(c) = d
    BY <1>5, <1>7, <1>8, NamesJoined
  <2>2. keys \in Seq(ColumnMeta) /\ sums \in Seq(ColumnMeta) /\ Len(keys) = l /\ Len(sums) = a
        /\ l \in Nat /\ a \in Nat
    BY <1>3, <1>5, <1>7
  <2>3. c \in Seq(ColumnMeta) /\ DOMAIN c = 1 .. l + a
        /\ \A k \in 1 .. l + a : c[k] = IF k <= l THEN keys[k] ELSE sums[k - l]
    BY <2>2
  <2> HIDE DEF c, d
  <2> QED BY <2>1, <2>3
<1>10. d \in Seq(Texts) /\ \A k \in DOMAIN c : d[k] = c[k].name
  BY <1>9, NamesType
<1>11. Range(d) = Range(names) \cup Range(Names(sums))
  <2> DEFINE t == Names(sums)
  <2>1. t \in Seq(Texts)
    BY <1>5, NamesType
  <2> HIDE DEF t
  <2>2. Range(names \o t) = Range(names) \cup Range(t)
    BY <2>1, <1>3, RangeJoined
  <2> QED BY <2>2 DEF t
<1>12. DOMAIN r = 1 .. m /\ r = [k \in 1 .. m |-> r[k]]
       /\ \A q \in 1 .. m : r[q] = GroupLine(rows, Range(names), sums, Listed(firsts)[q])
  OBVIOUS
<1>13. IsList(r)
  <2> HIDE DEF r
  <2> QED BY <1>6, <1>12, ListFromTo
<1> HIDE DEF r, c, d
<1>14. ASSUME NEW q \in 1 .. m
       PROVE  DOMAIN r[q] = Range(d) /\ \A k \in DOMAIN c : r[q][d[k]] \in Values(c[k].type)
  <2> DEFINE i == Listed(firsts)[q]
             line == r[q]
  <2>1. i \in DOMAIN f.row_order
    BY <1>6
  <2>2. /\ DOMAIN line = Range(names) \cup Range(Names(sums))
        /\ \A j \in cols : line[f.columns[j].name] = rows[i][f.columns[j].name]
        /\ \A j \in aggs : SumName(f.columns[j].name) \notin Range(names) =>
               line[SumName(f.columns[j].name)] \in Int
    <3>1. line = LineOf(f, cols, aggs, i)
      BY <1>12 DEF rows, sums, names, LineOf
    <3> HIDE DEF line, i
    <3> QED BY <3>1, <2>1, GroupCells DEF rows, sums, names
  <2> HIDE DEF line, i
  <2>3. \A j \in DOMAIN f.columns : rows[i][f.columns[j].name] \in Values(f.columns[j].type)
    BY <2>1, CellTypes DEF rows
  <2>4. ASSUME NEW k \in DOMAIN c PROVE line[d[k]] \in Values(c[k].type)
    <3>1. CASE k <= l
      <4> DEFINE j == Listed(cols)[k]
      <4>1. k \in 1 .. l /\ c[k] = keys[k]
        BY <3>1, <1>9
      <4>2. j \in cols /\ j \in DOMAIN f.columns /\ c[k] = f.columns[j]
        BY <4>1, <1>3, <1>7
      <4> HIDE DEF j
      <4>3. d[k] = f.columns[j].name
        BY <4>2, <1>10
      <4> QED BY <4>2, <4>3, <2>2, <2>3
    <3>2. CASE ~(k <= l)
      <4>1. k - l \in 1 .. a /\ c[k] = sums[k - l]
        BY <3>2, <1>3, <1>5, <1>9
      <4>2. PICK j \in aggs : /\ c[k].name = SumName(f.columns[j].name)
                              /\ c[k].type = f.columns[j].type
                              /\ f.columns[j].type # "text"
        BY <4>1, <1>5
      <4>3. d[k] = SumName(f.columns[j].name)
        BY <4>2, <1>10
      <4>4. d[k] \notin Range(names)
        <5> SUFFICES ASSUME d[k] \in Range(names) PROVE FALSE
          OBVIOUS
        <5>1. PICK o \in DOMAIN names : names[o] = d[k]
          BY InRange
        <5>2. o \in 1 .. l /\ o \in DOMAIN c /\ d[o] = names[o]
          <6>1. o \in 1 .. l
            BY <5>1, <1>1
          <6>2. o \in DOMAIN c /\ c[o] = keys[o]
            BY <6>1, <1>3, <1>5, <1>9
          <6>3. d[o] = keys[o].name /\ names[o] = keys[o].name
            BY <6>1, <6>2, <1>3, <1>7, <1>10
          <6> QED BY <6>1, <6>2, <6>3
        <5>3. DOMAIN d = DOMAIN c
          BY <1>9, NamesType
        <5>4. o = k
          BY <5>1, <5>2, <5>3, <1>2 DEF Distinct
        <5> QED BY <5>2, <5>4, <3>2
      <4>5. line[d[k]] \in Int
        BY <4>3, <4>4, <2>2
      <4> QED BY <4>2, <4>5 DEF Values
    <3> QED BY <3>1, <3>2
  <2> QED BY <2>2, <2>4, <1>11 DEF line
<1>15. TableOK(c, d, r)
  BY <1>2, <1>9, <1>10, <1>12, <1>13, <1>14 DEF TableOK
<1>16. c # <<>>
  <2>1. l # 0
    <3>1. PICK j \in cols : TRUE
      OBVIOUS
    <3>2. f.columns[j].name \in Range(names)
      BY <1>3
    <3>3. DOMAIN names # {}
      BY <3>2, InRange
    <3> QED BY <3>3, <1>1
  <2>2. 1 \in DOMAIN c
    BY <2>1, <1>3, <1>5, <1>9
  <2> QED BY <2>2
<1>17. FrameOK(FromParts(c, d, r)) /\ FromParts(c, d, r).columns = c /\ FromParts(c, d, r).df = d
  BY <1>15, <1>16, MadeTable
<1> QED BY <1>2, <1>9, <1>17 DEF InStep

-----------------------------------------------------------------------------
(* Frequency tables.                                                       *)

LEMMA DistinctJoined ==
  ASSUME NEW T, NEW a \in Seq(T), NEW b \in Seq(T)
  PROVE  Distinct(a \o b) <=> Distinct(a) /\ Distinct(b) /\ Range(a) \cap Range(b) = {}
<1> DEFINE s == a \o b
<1>1. /\ s \in Seq(T) /\ Len(s) = Len(a) + Len(b) /\ DOMAIN s = 1 .. Len(a) + Len(b)
      /\ \A k \in 1 .. Len(a) : s[k] = a[k]
      /\ \A k \in Len(a) + 1 .. Len(a) + Len(b) : s[k] = b[k - Len(a)]
      /\ DOMAIN a = 1 .. Len(a) /\ DOMAIN b = 1 .. Len(b) /\ Len(a) \in Nat /\ Len(b) \in Nat
  OBVIOUS
<1>2. /\ \A k \in DOMAIN a : k \in DOMAIN s /\ s[k] = a[k]
      /\ \A k \in DOMAIN b : Len(a) + k \in DOMAIN s /\ s[Len(a) + k] = b[k]
  BY RangeJoined
<1> HIDE DEF s
<1>3. ASSUME Distinct(s) PROVE Distinct(a) /\ Distinct(b) /\ Range(a) \cap Range(b) = {}
  <2>1. Distinct(a)
    BY <1>2, <1>3 DEF Distinct
  <2>2. Distinct(b)
    <3> SUFFICES ASSUME NEW i \in DOMAIN b, NEW j \in DOMAIN b, b[i] = b[j] PROVE i = j
      BY DEF Distinct
    <3>1. Len(a) + i = Len(a) + j
      BY <1>2, <1>3 DEF Distinct
    <3> QED BY <3>1, <1>1
  <2>3. ASSUME NEW x \in Range(a), x \in Range(b) PROVE FALSE
    <3>1. PICK i \in DOMAIN a : a[i] = x
      BY InRange
    <3>2. PICK j \in DOMAIN b : b[j] = x
      BY <2>3, InRange
    <3>3. i = Len(a) + j
      BY <3>1, <3>2, <1>2, <1>3 DEF Distinct
    <3> QED BY <3>3, <1>1
  <2> QED BY <2>1, <2>2, <2>3
<1>4. ASSUME Distinct(a), Distinct(b), Range(a) \cap Range(b) = {} PROVE Distinct(s)
  <2> SUFFICES ASSUME NEW i \in DOMAIN s, NEW j \in DOMAIN s, s[i] = s[j] PROVE i = j
    BY DEF Distinct
  <2>1. \A k \in DOMAIN s : \/ k \in DOMAIN a /\ s[k] = a[k] /\ s[k] \in Range(a)
                            \/ k - Len(a) \in DOMAIN b /\ s[k] = b[k - Len(a)] /\ s[k] \in Range(b)
    <3> TAKE k \in DOMAIN s
    <3>1. CASE k <= Len(a)
      <4>1. k \in DOMAIN a /\ s[k] = a[k]
        BY <3>1, <1>1
      <4> QED BY <4>1, InRange
    <3>2. CASE ~(k <= Len(a))
      <4>1. k - Len(a) \in DOMAIN b /\ s[k] = b[k - Len(a)]
        BY <3>2, <1>1
      <4> QED BY <4>1, InRange
    <3> QED BY <3>1, <3>2
  <2>2. CASE i \in DOMAIN a /\ s[i] = a[i] /\ s[i] \in Range(a)
    <3>1. j \in DOMAIN a /\ s[j] = a[j]
      BY <2>1, <2>2, <1>4
    <3> QED BY <3>1, <2>2, <1>4 DEF Distinct
  <2>3. CASE i - Len(a) \in DOMAIN b /\ s[i] = b[i - Len(a)] /\ s[i] \in Range(b)
    <3>1. j - Len(a) \in DOMAIN b /\ s[j] = b[j - Len(a)]
      BY <2>1, <2>3, <1>4
    <3>2. i - Len(a) = j - Len(a)
      BY <3>1, <2>3, <1>4 DEF Distinct
    <3> QED BY <3>2, <1>1
  <2> QED BY <2>1, <2>2, <2>3
<1> QED BY <1>3, <1>4 DEF s

\* Retaining everything.
LEMMA RetainAll ==
  ASSUME NEW T, NEW s \in Seq(T), NEW keep, Range(s) \subseteq keep
  PROVE  Retain(s, keep) = s
<1> DEFINE n == Len(s)
           K == {i \in DOMAIN s : s[i] \in keep}
           R == Ascending(1 .. n)
<1>1. n \in Nat /\ DOMAIN s = 1 .. n
  OBVIOUS
<1>2. K = 1 .. n
  BY <1>1, InRange
<1>3. Cardinality(1 .. n) = n
  BY <1>1, FS_Interval
<1> HIDE DEF n, K
<1>4. \A i \in 1 .. n : Rank(1 .. n, R, i) = i - 1
  <2> TAKE i \in 1 .. n
  <2>1. {j \in 1 .. n : <<j, i>> \in R} = 1 .. (i - 1)
    BY <1>1 DEF Ascending
  <2>2. Cardinality(1 .. (i - 1)) = i - 1
    <3>1. i - 1 \in Nat
      BY <1>1
    <3> QED BY <3>1, FS_Interval
  <2> QED BY <2>1, <2>2 DEF Rank
<1>5. \A k \in 1 .. n : InOrder(1 .. n, R)[k] = k
  <2> TAKE k \in 1 .. n
  <2>1. InOrder(1 .. n, R)[k] = CHOOSE i \in 1 .. n : Rank(1 .. n, R, i) = k - 1
    BY <1>3 DEF InOrder
  <2>2. \A i \in 1 .. n : Rank(1 .. n, R, i) = k - 1 <=> i = k
    BY <1>1, <1>4
  <2> HIDE DEF R
  <2> QED BY <2>1, <2>2
<1>6. Retain(s, keep) = [k \in 1 .. n |-> s[InOrder(1 .. n, R)[k]]]
  BY <1>2, <1>3 DEF Retain, K
<1>7. s = [k \in 1 .. n |-> s[k]]
  BY <1>1
<1> HIDE DEF R
<1> QED BY <1>5, <1>6, <1>7

LEMMA SubsetCount ==
  ASSUME NEW n \in Nat, NEW K \in SUBSET (1 .. n)
  PROVE  IsFiniteSet(K) /\ Cardinality(K) \in 0 .. n
<1>1. IsFiniteSet(1 .. n) /\ Cardinality(1 .. n) = n
  BY FS_Interval
<1>2. IsFiniteSet(K) /\ Cardinality(K) <= Cardinality(1 .. n)
  BY <1>1, FS_Subset
<1> QED BY <1>1, <1>2, FS_CardinalityType

\* A set of bounded numbers has a greatest.
LEMMA Greatest ==
  ASSUME NEW n \in Nat, NEW S \in SUBSET (0 .. n), S # {}
  PROVE  Max(S) \in S /\ \A y \in S : Max(S) >= y
<1> DEFINE D == {n - x : x \in S}
<1>1. D \in SUBSET Nat
  OBVIOUS
<1>2. PICK x \in S : TRUE
  OBVIOUS
<1>3. n - x \in D
  OBVIOUS
<1>4. PICK d \in D : \A e \in D : d <= e
  BY <1>1, <1>3, LeastNatural
<1>5. PICK y \in S : d = n - y
  BY <1>4
<1>6. \A z \in S : y >= z
  <2> TAKE z \in S
  <2>1. n - z \in D
    OBVIOUS
  <2>2. n - y <= n - z
    BY <2>1, <1>4, <1>5
  <2> QED BY <2>2
<1> QED BY <1>6 DEF Max

LEMMA BarIsText ==
  ASSUME NEW count \in Nat, NEW max \in Nat
  PROVE  BuildBar(count, max) \in Texts
<1>1. CASE max = 0
  BY <1>1, EmptyIsValue DEF BuildBar
<1>2. CASE max # 0
  <2> DEFINE b == 2 * max
             a == count * 320 + max
             l == a \div b
             s == [k \in 1 .. l |-> "|"]
  <2>1. b \in Nat /\ b > 0 /\ a \in Nat
    BY <1>2
  <2>2. l \in Nat
    <3> HIDE DEF a, b
    <3> QED BY <2>1
  <2>3. BuildBar(count, max) = s
    BY <1>2 DEF BuildBar
  <2>4. "|" \in Words
    BY WordsAssumption DEF OwnWords
  <2> HIDE DEF l
  <2>5. s \in Seq(Words)
    BY <2>2, <2>4
  <2> QED BY <2>3, <2>5 DEF Texts
<1> QED BY <1>1, <1>2

Counts(f) == [DOMAIN f.row_order -> 0 .. Len(f.row_order)]
Firsts(f, cols) == FirstOfGroups(Visible(f), Range(NamesOf(f, cols)))
RankedOrder(f, cols, counts) == InOrder(Firsts(f, cols), MoreFrequent(Firsts(f, cols), counts))
RankedLine(f, cols, counts, aggs, i) ==
    FrequencyLine(Visible(f), Range(NamesOf(f, cols)), SumColumns(f, aggs), counts, i)
RankedRows(f, cols, counts, aggs) ==
    [k \in 1 .. Cardinality(Firsts(f, cols)) |->
        RankedLine(f, cols, counts, aggs, RankedOrder(f, cols, counts)[k])]
Grouped(f, cols, aggs) == NamesOf(f, cols) \o <<Count>> \o Names(SumColumns(f, aggs))
SharesLeft(f, cols, aggs) == Retain(<<Pct, Bar>>, {Pct, Bar} \ Range(Grouped(f, cols, aggs)))
RankedColumns(f, headers, aggs) ==
    headers \o <<Column(Count, "number")>> \o SumColumns(f, aggs)
            \o <<Column(Pct, "share"), Column(Bar, "text")>>

LEMMA RankingParts ==
  ASSUME NEW f, NEW cols, NEW counts, NEW headers, NEW aggs
  PROVE  Ranking(f, cols, counts, headers, aggs)
         = IF ~Distinct(Grouped(f, cols, aggs)) THEN Refused
           ELSE FromParts(RankedColumns(f, headers, aggs),
                          Grouped(f, cols, aggs) \o SharesLeft(f, cols, aggs),
                          RankedRows(f, cols, counts, aggs))
BY Zenon DEF Ranking, RankedColumns, Grouped, SharesLeft, RankedRows, RankedLine, RankedOrder, Firsts

\* What a line of a frequency table holds: a share, a bar and the group's count,
\* and under every other name what the plain grouping of those rows holds there.
RankedLineOK(f, cols, counts, aggs, i) ==
  /\ DOMAIN RankedLine(f, cols, counts, aggs, i)
     = {Pct, Bar, Count} \cup Range(NamesOf(f, cols)) \cup Range(Names(SumColumns(f, aggs)))
  /\ RankedLine(f, cols, counts, aggs, i)[Pct] \in Int
  /\ RankedLine(f, cols, counts, aggs, i)[Bar] \in Texts
  /\ RankedLine(f, cols, counts, aggs, i)[Count] = counts[i]
  /\ \A x \in Range(NamesOf(f, cols)) \cup Range(Names(SumColumns(f, aggs))) :
        x \notin {Pct, Bar, Count} =>
           RankedLine(f, cols, counts, aggs, i)[x] = LineOf(f, cols, aggs, i)[x]

LEMMA FrequencyCells ==
  ASSUME NEW f, FrameOK(f), NEW cols, NEW aggs, NEW counts \in Counts(f),
         NEW i \in DOMAIN f.row_order
  PROVE  RankedLineOK(f, cols, counts, aggs, i)
<1> DEFINE keys == Range(NamesOf(f, cols))
           names == Range(Names(SumColumns(f, aggs)))
           rows == Visible(f)
           n == Len(f.row_order)
           firsts == Firsts(f, cols)
           v == [j \in DOMAIN rows |-> IF j \in firsts THEN counts[j] ELSE 0]
           counted == SumOf(v)
           total == IF counted > 1 THEN counted ELSE 1
           most == Max({counts[j] : j \in firsts} \cup {0})
           pct == (counts[i] * 100) \div total
           bar == BuildBar(counts[i], most)
           line == RankedLine(f, cols, counts, aggs, i)
           other == LineOf(f, cols, aggs, i)
<1>1. line = [x \in {Pct, Bar, Count} \cup keys \cup names |->
                CASE x = Pct -> pct [] x = Bar -> bar [] x = Count -> counts[i]
                  [] OTHER -> other[x]]
  BY DEF RankedLine, FrequencyLine, LineOf, Firsts
<1>2. Pct # Bar /\ Pct # Count /\ Bar # Count
  BY DEF Pct, Bar, Count
<1>3. n \in Nat /\ DOMAIN rows = 1 .. n /\ DOMAIN f.row_order = 1 .. n
  BY VisibleShape
<1>4. firsts \in SUBSET (1 .. n)
  BY FirstsFacts DEF Firsts
<1>5. counts \in [1 .. n -> 0 .. n] /\ i \in 1 .. n
  BY <1>3 DEF Counts
<1>6. counted \in Int
  <2>1. v \in [1 .. n -> Int]
    BY <1>3, <1>5
  <2> HIDE DEF v
  <2> QED BY <2>1, <1>3, SumType
<1>7. pct \in Int
  <2>1. total \in Nat /\ total > 0 /\ counts[i] * 100 \in Nat
    BY <1>3, <1>5, <1>6
  <2> HIDE DEF total
  <2> QED BY <2>1
<1>8. bar \in Texts
  <2> DEFINE S == {counts[j] : j \in firsts} \cup {0}
  <2>1. S \in SUBSET (0 .. n) /\ S # {}
    BY <1>3, <1>4, <1>5
  <2> HIDE DEF S
  <2>2. Max(S) \in 0 .. n
    BY <2>1, <1>3, Greatest
  <2>3. Max(S) \in Nat /\ counts[i] \in Nat
    BY <2>2, <1>3, <1>5
  <2> QED BY <2>3, BarIsText DEF S
<1> HIDE DEF keys, names, pct, bar, line, other
<1>9. /\ DOMAIN line = {Pct, Bar, Count} \cup keys \cup names
      /\ line[Pct] = pct /\ line[Bar] = bar /\ line[Count] = counts[i]
  BY <1>1, <1>2
<1>10. \A x \in keys \cup names : x \notin {Pct, Bar, Count} => line[x] = other[x]
  BY <1>1
<1> QED BY <1>7, <1>8, <1>9, <1>10 DEF keys, names, line, other, RankedLineOK

LEMMA MoreFrequentIsOrder ==
  ASSUME NEW n \in Nat, NEW S \in SUBSET (1 .. n), NEW counts \in [1 .. n -> Nat]
  PROVE  StrictTotalOrder(MoreFrequent(S, counts), S)
<1> DEFINE R == MoreFrequent(S, counts)
           before(a, b) == counts[a] > counts[b] \/ (counts[a] = counts[b] /\ a < b)
<1>1. \A a, b \in S : <<a, b>> \in R <=> before(a, b)
  BY DEF MoreFrequent
<1>2. \A a \in S : a \in Nat /\ counts[a] \in Nat
  OBVIOUS
<1> HIDE DEF R
<1>3. \A a \in S : ~before(a, a)
  BY <1>2
<1>4. \A a, b \in S : a # b => before(a, b) \/ before(b, a)
  BY <1>2
<1>5. \A a, b, c \in S : before(a, b) /\ before(b, c) => before(a, c)
  BY <1>2
<1> QED BY <1>1, <1>3, <1>4, <1>5 DEF StrictTotalOrder, R

LEMMA RankedOrderFacts ==
  ASSUME NEW f, FrameOK(f), NEW cols, NEW counts \in Counts(f)
  PROVE  LET m == Cardinality(Firsts(f, cols))
             p == RankedOrder(f, cols, counts)
         IN  /\ m \in Nat
             /\ \A a \in 1 .. m : p[a] \in Firsts(f, cols) /\ p[a] \in DOMAIN f.row_order
             /\ \A a, b \in 1 .. m : p[a] = p[b] => a = b
             /\ \A t \in Firsts(f, cols) : \E a \in 1 .. m : p[a] = t
<1> DEFINE n == Len(f.row_order)
           S == Firsts(f, cols)
           m == Cardinality(S)
           p == RankedOrder(f, cols, counts)
<1>1. n \in Nat /\ DOMAIN f.row_order = 1 .. n
  BY VisibleShape
<1>2. S \in SUBSET (1 .. n) /\ IsFiniteSet(S) /\ m \in Nat
  BY FirstsFacts DEF Firsts
<1>3. counts \in [1 .. n -> Nat]
  BY <1>1 DEF Counts
<1>4. p = InOrder(S, MoreFrequent(S, counts))
  BY DEF RankedOrder
<1> HIDE DEF S, p, n
<1>5. p \in Bijection(1 .. m, S)
  BY <1>1, <1>2, <1>3, <1>4, MoreFrequentIsOrder, InOrderBijection
<1> HIDE DEF m
<1>6. /\ \A a \in 1 .. m : p[a] \in S
      /\ \A a, b \in 1 .. m : p[a] = p[b] => a = b
      /\ \A t \in S : \E a \in 1 .. m : p[a] = t
  BY <1>5, ListingFacts
<1> QED BY <1>1, <1>2, <1>6 DEF m, S, p

\* The headers are the names of the columns that are grouped by, with their types.
KeyHeaders(f, cols, headers) ==
    /\ headers \in Seq(ColumnMeta)
    /\ Names(headers) = NamesOf(f, cols)
    /\ \A k \in DOMAIN headers : headers[k].type = f.columns[Listed(cols)[k]].type

LEMMA OneAndTwo ==
  ASSUME NEW T, NEW x \in T, NEW y \in T
  PROVE  /\ <<x>> \in Seq(T) /\ Len(<<x>>) = 1 /\ Range(<<x>>) = {x} /\ Distinct(<<x>>)
         /\ <<x, y>> \in Seq(T) /\ Len(<<x, y>>) = 2 /\ Range(<<x, y>>) = {x, y}
         /\ x # y => Distinct(<<x, y>>)
<1>1. <<x>> \in Seq(T) /\ Len(<<x>>) = 1 /\ DOMAIN <<x>> = {1} /\ <<x>>[1] = x
  OBVIOUS
<1>2. <<x, y>> \in Seq(T) /\ Len(<<x, y>>) = 2 /\ DOMAIN <<x, y>> = {1, 2}
      /\ <<x, y>>[1] = x /\ <<x, y>>[2] = y
  OBVIOUS
<1>3. Range(<<x>>) = {x}
  <2> DEFINE s == <<x>>
  <2>1. DOMAIN s = {1} /\ s[1] = x
    BY <1>1
  <2> HIDE DEF s
  <2>2. \A z : z \in Range(s) <=> z = x
    BY <2>1, InRange
  <2> QED BY <2>2 DEF s
<1>4. Range(<<x, y>>) = {x, y}
  <2> DEFINE s == <<x, y>>
  <2>1. DOMAIN s = {1, 2} /\ s[1] = x /\ s[2] = y
    BY <1>2
  <2> HIDE DEF s
  <2>2. \A z : z \in Range(s) <=> z = x \/ z = y
    BY <2>1, InRange
  <2> QED BY <2>2 DEF s
<1> QED BY <1>1, <1>2, <1>3, <1>4 DEF Distinct

LEMMA GroupedShape ==
  ASSUME NEW f, FrameOK(f), InStep(f), NEW cols \in SUBSET DOMAIN f.columns,
         NEW aggs \in SUBSET DOMAIN f.columns, \A j \in aggs : Numeric(f, j)
  PROVE  LET names == NamesOf(f, cols)
             sums == Names(SumColumns(f, aggs))
         IN  /\ Grouped(f, cols, aggs) \in Seq(Texts)
             /\ Range(Grouped(f, cols, aggs)) = Range(names) \cup {Count} \cup Range(sums)
             /\ Pct \notin Range(sums) /\ Bar \notin Range(sums) /\ Count \notin Range(sums)
             /\ Distinct(Grouped(f, cols, aggs)) =>
                   Count \notin Range(names) /\ Range(names) \cap Range(sums) = {}
             /\ SharesLeft(f, cols, aggs) \in Seq(Texts) /\ Distinct(SharesLeft(f, cols, aggs))
             /\ Range(SharesLeft(f, cols, aggs)) = {Pct, Bar} \ Range(Grouped(f, cols, aggs))
             /\ (Pct \notin Range(names) /\ Bar \notin Range(names))
                => SharesLeft(f, cols, aggs) = <<Pct, Bar>>
<1> DEFINE a == NamesOf(f, cols)
           b == Names(SumColumns(f, aggs))
           one == <<Count>>
           two == <<Pct, Bar>>
           g == Grouped(f, cols, aggs)
           left == SharesLeft(f, cols, aggs)
<1>1. a \in Seq(Texts)
  BY NamesOfShape
<1>2. b \in Seq(Texts) /\ \A x \in Range(b) : \E i \in aggs : x = SumName(f.columns[i].name)
  <2>1. SumColumns(f, aggs) \in Seq(ColumnMeta)
    BY SumColumnsShape
  <2>2. \A x \in Range(b) : \E i \in aggs : x = SumName(f.columns[i].name)
    BY SumColumnsShape
  <2> QED BY <2>1, <2>2, NamesType
<1>3. Pct \in Texts /\ Bar \in Texts /\ Count \in Texts /\ Pct # Bar /\ Pct # Count /\ Bar # Count
  BY WordsAssumption DEF Texts, Pct, Bar, Count, OwnWords
<1>4. \A i \in aggs : SumName(f.columns[i].name) \notin {Count, Pct, Bar}
  BY RegularShape, SumNameFacts
<1>5. one \in Seq(Texts) /\ Range(one) = {Count} /\ two \in Seq(Texts) /\ Range(two) = {Pct, Bar}
      /\ Distinct(two)
  BY <1>3, OneAndTwo
<1>6. g = (a \o one) \o b /\ left = Retain(two, {Pct, Bar} \ Range(g))
  BY DEF Grouped, SharesLeft
<1> HIDE DEF a, b, one, two, g, left
<1>7. a \o one \in Seq(Texts) /\ g \in Seq(Texts)
  BY <1>1, <1>2, <1>5, <1>6
<1>8. Range(g) = Range(a) \cup {Count} \cup Range(b)
  <2>1. Range(a \o one) = Range(a) \cup Range(one)
    BY <1>1, <1>5, RangeJoined
  <2> DEFINE ao == a \o one
  <2>2. ao \in Seq(Texts) /\ b \in Seq(Texts) /\ g = ao \o b
    BY <1>2, <1>6, <1>7
  <2> HIDE DEF ao
  <2>3. Range(g) = Range(ao) \cup Range(b)
    BY <2>2, RangeJoined
  <2> QED BY <2>1, <2>3, <1>5 DEF ao
<1>9. Pct \notin Range(b) /\ Bar \notin Range(b) /\ Count \notin Range(b)
  BY <1>2, <1>4
<1>10. Distinct(g) => Count \notin Range(a) /\ Range(a) \cap Range(b) = {}
  <2>1. Distinct(g) => Distinct(a \o one) /\ Range(a \o one) \cap Range(b) = {}
    BY <1>2, <1>6, <1>7, DistinctJoined
  <2>2. Distinct(a \o one) => Range(a) \cap Range(one) = {}
    BY <1>1, <1>5, DistinctJoined
  <2>3. Range(a \o one) = Range(a) \cup Range(one)
    BY <1>1, <1>5, RangeJoined
  <2> QED BY <2>1, <2>2, <2>3, <1>5
<1>11. left \in Seq(Texts) /\ Distinct(left) /\ Range(left) = {Pct, Bar} \ Range(g)
  <2> DEFINE keep == {Pct, Bar} \ Range(g)
  <2>0. keep \subseteq {Pct, Bar}
    OBVIOUS
  <2>1. left = Retain(two, keep) /\ DupFree(two)
    BY <1>5, <1>6 DEF DupFree, Distinct
  <2> HIDE DEF keep
  <2>2. left \in Seq(Texts) /\ DupFree(left) /\ Range(left) = Range(two) \cap keep
    BY <2>1, <1>5, RetainProperties
  <2> QED BY <2>0, <2>2, <1>5 DEF DupFree, Distinct, keep
<1>12. ASSUME Pct \notin Range(a), Bar \notin Range(a) PROVE left = two
  <2> DEFINE keep == {Pct, Bar} \ Range(g)
  <2>1. left = Retain(two, keep)
    BY <1>6
  <2>2. Range(two) \subseteq keep
    BY <1>3, <1>5, <1>8, <1>9, <1>12
  <2> HIDE DEF keep
  <2> QED BY <2>1, <2>2, <1>5, RetainAll
<1> QED BY <1>7, <1>8, <1>9, <1>10, <1>11, <1>12 DEF a, b, g, left, two

LEMMA ColumnsJoined ==
  ASSUME NEW a \in Seq(ColumnMeta), NEW b \in Seq(ColumnMeta), NEW c, c = a \o b
  PROVE  /\ c \in Seq(ColumnMeta) /\ Range(c) = Range(a) \cup Range(b)
         /\ Names(c) = Names(a) \o Names(b)
<1>1. a \o b \in Seq(ColumnMeta)
  OBVIOUS
<1>2. Range(a \o b) = Range(a) \cup Range(b)
  BY RangeJoined
<1>3. Names(a \o b) = Names(a) \o Names(b)
  BY NamesJoined
<1> QED BY <1>1, <1>2, <1>3

LEMMA FewColumns ==
  ASSUME NEW x \in ColumnMeta, NEW y \in ColumnMeta
  PROVE  /\ <<x>> \in Seq(ColumnMeta) /\ Range(<<x>>) = {x} /\ Names(<<x>>) = <<x.name>>
         /\ <<x, y>> \in Seq(ColumnMeta) /\ Range(<<x, y>>) = {x, y}
         /\ Names(<<x, y>>) = <<x.name, y.name>> /\ <<x, y>> # <<>> /\ Len(<<x, y>>) = 2
<1>1. <<x>> \in Seq(ColumnMeta) /\ Range(<<x>>) = {x}
  BY OneAndTwo
<1>2. <<x, y>> \in Seq(ColumnMeta) /\ Range(<<x, y>>) = {x, y} /\ Len(<<x, y>>) = 2
  BY OneAndTwo
<1>3. Names(<<x>>) = <<x.name>>
  BY DEF Names
<1>4. Names(<<x, y>>) = <<x.name, y.name>>
  BY DEF Names
<1>5. <<x, y>> # <<>>
  OBVIOUS
<1> QED BY <1>1, <1>2, <1>3, <1>4, <1>5

LEMMA RankedColumnsShape ==
  ASSUME NEW f, FrameOK(f), InStep(f), NEW cols \in SUBSET DOMAIN f.columns,
         NEW aggs \in SUBSET DOMAIN f.columns, \A j \in aggs : Numeric(f, j),
         NEW headers, KeyHeaders(f, cols, headers)
  PROVE  LET c == RankedColumns(f, headers, aggs)
         IN  /\ c \in Seq(ColumnMeta) /\ c # <<>>
             /\ Names(c) = Grouped(f, cols, aggs) \o <<Pct, Bar>>
             /\ \A k \in DOMAIN c :
                   \/ \E j \in cols : c[k].name = f.columns[j].name /\ c[k].type = f.columns[j].type
                   \/ c[k].name = Count /\ c[k].type = "number"
                   \/ \E j \in aggs : /\ c[k].name = SumName(f.columns[j].name)
                                      /\ c[k].type = f.columns[j].type
                                      /\ f.columns[j].type # "text"
                   \/ c[k].name = Pct /\ c[k].type = "share"
                   \/ c[k].name = Bar /\ c[k].type = "text"
<1> DEFINE names == NamesOf(f, cols)
           sums == SumColumns(f, aggs)
           count == Column(Count, "number")
           pct == Column(Pct, "share")
           bar == Column(Bar, "text")
           one == <<count>>
           two == <<pct, bar>>
           c == RankedColumns(f, headers, aggs)
<1>1. Pct \in Texts /\ Bar \in Texts /\ Count \in Texts
  BY WordsAssumption DEF Texts, Pct, Bar, Count, OwnWords
<1>2. /\ count \in ColumnMeta /\ count.name = Count /\ count.type = "number"
      /\ pct \in ColumnMeta /\ pct.name = Pct /\ pct.type = "share"
      /\ bar \in ColumnMeta /\ bar.name = Bar /\ bar.type = "text"
  BY <1>1, ColumnType, EmptyIsValue
<1>3. c = ((headers \o one) \o sums) \o two
  BY DEF RankedColumns
<1> HIDE DEF count, pct, bar
<1>4. /\ one \in Seq(ColumnMeta) /\ Range(one) = {count} /\ Names(one) = <<Count>>
      /\ two \in Seq(ColumnMeta) /\ Range(two) = {pct, bar} /\ Names(two) = <<Pct, Bar>>
      /\ two # <<>> /\ Len(two) = 2
  <2>1. one \in Seq(ColumnMeta) /\ Range(one) = {count} /\ Names(one) = <<count.name>>
    BY <1>2, FewColumns
  <2>2. two \in Seq(ColumnMeta) /\ Range(two) = {pct, bar} /\ Names(two) = <<pct.name, bar.name>>
        /\ two # <<>> /\ Len(two) = 2
    BY <1>2, FewColumns
  <2> QED BY <2>1, <2>2, <1>2
<1>5. sums \in Seq(ColumnMeta) /\ headers \in Seq(ColumnMeta) /\ Names(headers) = names
  BY SumColumnsShape DEF KeyHeaders
<1>6. \A m \in Range(headers) : \E j \in cols : m.name = f.columns[j].name /\ m.type = f.columns[j].type
  <2> TAKE m \in Range(headers)
  <2>1. PICK k \in DOMAIN headers : headers[k] = m
    BY InRange
  <2>2. k \in DOMAIN names /\ names[k] = m.name /\ m.type = f.columns[Listed(cols)[k]].type
    <3>1. DOMAIN Names(headers) = DOMAIN headers /\ Names(headers)[k] = headers[k].name
      BY <1>5, NamesType
    <3> QED BY <2>1, <3>1, <1>5 DEF KeyHeaders
  <2>3. Listed(cols)[k] \in cols /\ names[k] = f.columns[Listed(cols)[k]].name
    BY <2>2, NamesOfShape
  <2> QED BY <2>2, <2>3
<1>7. \A m \in Range(sums) : \E j \in aggs : /\ m.name = SumName(f.columns[j].name)
                                             /\ m.type = f.columns[j].type
                                             /\ f.columns[j].type # "text"
  <2> TAKE m \in Range(sums)
  <2>1. PICK k \in DOMAIN sums : sums[k] = m
    BY InRange
  <2> QED BY <2>1, SumColumnsShape
<1> DEFINE ho == headers \o one
           hs == ho \o sums
<1> HIDE DEF one, two, sums, names, c
<1>8. ho \in Seq(ColumnMeta) /\ Range(ho) = Range(headers) \cup {count}
      /\ Names(ho) = names \o <<Count>>
  <2>1. ho = headers \o one
    OBVIOUS
  <2> HIDE DEF ho
  <2>2. ho \in Seq(ColumnMeta) /\ Range(ho) = Range(headers) \cup Range(one)
        /\ Names(ho) = Names(headers) \o Names(one)
    BY <2>1, <1>4, <1>5, ColumnsJoined
  <2> QED BY <2>2, <1>4, <1>5
<1> HIDE DEF ho
<1>9. hs \in Seq(ColumnMeta) /\ Range(hs) = Range(ho) \cup Range(sums)
      /\ Names(hs) = (names \o <<Count>>) \o Names(sums)
  <2>1. hs = ho \o sums
    OBVIOUS
  <2> HIDE DEF hs
  <2>2. hs \in Seq(ColumnMeta) /\ Range(hs) = Range(ho) \cup Range(sums)
        /\ Names(hs) = Names(ho) \o Names(sums)
    BY <2>1, <1>5, <1>8, ColumnsJoined
  <2> QED BY <2>2, <1>8
<1>10. Names(hs) = Grouped(f, cols, aggs)
  BY <1>9 DEF Grouped, names, sums
<1>11. c = hs \o two
  BY <1>3 DEF ho
<1> HIDE DEF hs
<1>12. c \in Seq(ColumnMeta) /\ Range(c) = Range(hs) \cup {pct, bar}
       /\ Names(c) = Grouped(f, cols, aggs) \o <<Pct, Bar>>
  <2>1. c \in Seq(ColumnMeta) /\ Range(c) = Range(hs) \cup Range(two)
        /\ Names(c) = Names(hs) \o Names(two)
    BY <1>4, <1>9, <1>11, ColumnsJoined
  <2> QED BY <2>1, <1>4, <1>10
<1>13. c # <<>>
  BY <1>4, <1>9, <1>11
<1>14. \A k \in DOMAIN c : c[k] \in Range(headers) \cup {count} \cup Range(sums) \cup {pct, bar}
  BY <1>8, <1>9, <1>12, InRange
<1>15. ASSUME NEW k \in DOMAIN c
       PROVE  \/ \E j \in cols : c[k].name = f.columns[j].name /\ c[k].type = f.columns[j].type
              \/ c[k].name = Count /\ c[k].type = "number"
              \/ \E j \in aggs : /\ c[k].name = SumName(f.columns[j].name)
                                 /\ c[k].type = f.columns[j].type
                                 /\ f.columns[j].type # "text"
              \/ c[k].name = Pct /\ c[k].type = "share"
              \/ c[k].name = Bar /\ c[k].type = "text"
  <2> DEFINE m == c[k]
  <2>1. m \in Range(headers) \cup {count} \cup Range(sums) \cup {pct, bar}
    BY <1>14
  <2> HIDE DEF m
  <2>2. CASE m \in Range(headers)
    BY <2>2, <1>6 DEF m
  <2>3. CASE m \in Range(sums)
    BY <2>3, <1>7 DEF m
  <2>4. CASE m = count \/ m = pct \/ m = bar
    BY <2>4, <1>2 DEF m
  <2> QED BY <2>1, <2>2, <2>3, <2>4
<1> QED BY <1>12, <1>13, <1>15 DEF c

LEMMA RankingTable ==
  ASSUME NEW f, FrameOK(f), InStep(f), NEW cols \in SUBSET DOMAIN f.columns,
         NEW aggs \in SUBSET DOMAIN f.columns, \A j \in aggs : Numeric(f, j),
         NEW counts \in Counts(f), NEW headers, KeyHeaders(f, cols, headers),
         Distinct(Grouped(f, cols, aggs))
  PROVE  TableOK(RankedColumns(f, headers, aggs),
                 Grouped(f, cols, aggs) \o SharesLeft(f, cols, aggs),
                 RankedRows(f, cols, counts, aggs))
<1> DEFINE c == RankedColumns(f, headers, aggs)
           g == Grouped(f, cols, aggs)
           left == SharesLeft(f, cols, aggs)
           d == g \o left
           r == RankedRows(f, cols, counts, aggs)
           keys == Range(NamesOf(f, cols))
           names == Range(Names(SumColumns(f, aggs)))
           m == Cardinality(Firsts(f, cols))
           p == RankedOrder(f, cols, counts)
<1>1. /\ c \in Seq(ColumnMeta) /\ Names(c) = g \o <<Pct, Bar>>
      /\ \A k \in DOMAIN c :
            \/ \E j \in cols : c[k].name = f.columns[j].name /\ c[k].type = f.columns[j].type
            \/ c[k].name = Count /\ c[k].type = "number"
            \/ \E j \in aggs : /\ c[k].name = SumName(f.columns[j].name)
                               /\ c[k].type = f.columns[j].type
                               /\ f.columns[j].type # "text"
            \/ c[k].name = Pct /\ c[k].type = "share"
            \/ c[k].name = Bar /\ c[k].type = "text"
  BY RankedColumnsShape, Zenon
<1>2. /\ g \in Seq(Texts) /\ Range(g) = keys \cup {Count} \cup names
      /\ Pct \notin names /\ Bar \notin names /\ Count \notin names
      /\ Count \notin keys /\ keys \cap names = {}
      /\ left \in Seq(Texts) /\ Distinct(left) /\ Range(left) = {Pct, Bar} \ Range(g)
  BY GroupedShape
<1>3. m \in Nat /\ \A a \in 1 .. m : p[a] \in DOMAIN f.row_order
  BY RankedOrderFacts
<1>4. r = [k \in 1 .. m |-> RankedLine(f, cols, counts, aggs, p[k])]
  BY DEF RankedRows
<1>5. \A i \in DOMAIN f.row_order :
         /\ DOMAIN RankedLine(f, cols, counts, aggs, i) = {Pct, Bar, Count} \cup keys \cup names
         /\ RankedLine(f, cols, counts, aggs, i)[Pct] \in Int
         /\ RankedLine(f, cols, counts, aggs, i)[Bar] \in Texts
         /\ RankedLine(f, cols, counts, aggs, i)[Count] = counts[i]
         /\ \A x \in keys \cup names : x \notin {Pct, Bar, Count} =>
               RankedLine(f, cols, counts, aggs, i)[x] = LineOf(f, cols, aggs, i)[x]
  <2> TAKE i \in DOMAIN f.row_order
  <2>1. RankedLineOK(f, cols, counts, aggs, i)
    BY FrequencyCells
  <2> QED BY <2>1 DEF RankedLineOK
<1>6. \A i \in DOMAIN f.row_order :
         /\ \A j \in cols : LineOf(f, cols, aggs, i)[f.columns[j].name] = Visible(f)[i][f.columns[j].name]
         /\ \A j \in aggs : SumName(f.columns[j].name) \notin keys =>
               LineOf(f, cols, aggs, i)[SumName(f.columns[j].name)] \in Int
  BY GroupCells
<1>7. /\ \A j \in cols : f.columns[j].name \in keys
      /\ \A j \in aggs : SumName(f.columns[j].name) \in names
  BY NamesOfShape, SumColumnsShape
<1>8. \A i \in DOMAIN f.row_order, j \in DOMAIN f.columns :
         Visible(f)[i][f.columns[j].name] \in Values(f.columns[j].type)
  BY CellTypes
<1>9. \A i \in DOMAIN f.row_order : counts[i] \in Int
  <2>1. DOMAIN f.row_order = 1 .. Len(f.row_order) /\ Len(f.row_order) \in Nat
    BY VisibleShape
  <2> QED BY <2>1 DEF Counts
<1> HIDE DEF c, g, left, r, keys, names, m, p
<1>10. d \in Seq(Texts) /\ Distinct(d) /\ Range(d) = {Pct, Bar, Count} \cup keys \cup names
  <2>1. d \in Seq(Texts)
    BY <1>2
  <2>2. Distinct(d)
    <3>1. Range(g) \cap Range(left) = {} /\ Distinct(g)
      BY <1>2 DEF g
    <3> QED BY <3>1, <1>2, DistinctJoined
  <2>3. Range(d) = Range(g) \cup Range(left)
    BY <1>2, RangeJoined
  <2> HIDE DEF d
  <2> QED BY <2>1, <2>2, <2>3, <1>2
<1> HIDE DEF d
<1>11. DOMAIN r = 1 .. m /\ r = [k \in 1 .. m |-> r[k]]
       /\ \A k \in 1 .. m : r[k] = RankedLine(f, cols, counts, aggs, p[k])
  BY <1>4
<1>12. IsList(r)
  BY <1>3, <1>11, ListFromTo
<1>13. \A q \in DOMAIN r : DOMAIN r[q] = Range(d)
  BY <1>3, <1>5, <1>10, <1>11
<1>14. ASSUME Names(c) = d
       PROVE  \A q \in DOMAIN r, k \in DOMAIN c : r[q][d[k]] \in Values(c[k].type)
  <2>1. Pct \notin keys /\ Bar \notin keys
    <3>1. <<Pct, Bar>> \in Seq(Texts) /\ Range(<<Pct, Bar>>) = {Pct, Bar}
      <4>1. Pct \in Texts /\ Bar \in Texts
        BY WordsAssumption DEF Texts, Pct, Bar, OwnWords
      <4> QED BY <4>1, OneAndTwo
    <3>2. Distinct(g \o <<Pct, Bar>>)
      BY <1>1, <1>10, <1>14
    <3>3. Range(g) \cap Range(<<Pct, Bar>>) = {}
      BY <1>2, <3>1, <3>2, DistinctJoined
    <3> QED BY <3>1, <3>3, <1>2
  <2>2. \A k \in DOMAIN c : d[k] = c[k].name
    BY <1>1, <1>14, NamesType
  <2> SUFFICES ASSUME NEW q \in 1 .. m, NEW k \in DOMAIN c
               PROVE  r[q][d[k]] \in Values(c[k].type)
    BY <1>11
  <2> DEFINE i == p[q]
             line == r[q]
             other == LineOf(f, cols, aggs, i)
  <2>3. i \in DOMAIN f.row_order /\ line = RankedLine(f, cols, counts, aggs, i)
    BY <1>3, <1>11
  <2> HIDE DEF i, line, other
  <2>4. /\ line[Pct] \in Int /\ line[Bar] \in Texts /\ line[Count] = counts[i]
        /\ \A x \in keys \cup names : x \notin {Pct, Bar, Count} => line[x] = other[x]
    BY <2>3, <1>5 DEF other
  <2>5. /\ \A j \in cols : other[f.columns[j].name] = Visible(f)[i][f.columns[j].name]
        /\ \A j \in aggs : SumName(f.columns[j].name) \notin keys =>
               other[SumName(f.columns[j].name)] \in Int
    BY <2>3, <1>6 DEF other
  <2>6. CASE \E j \in cols : c[k].name = f.columns[j].name /\ c[k].type = f.columns[j].type
    <3>1. PICK j \in cols : c[k].name = f.columns[j].name /\ c[k].type = f.columns[j].type
      BY <2>6
    <3>2. f.columns[j].name \in keys /\ f.columns[j].name \notin {Pct, Bar, Count}
      BY <1>2, <1>7, <2>1
    <3>3. line[d[k]] = Visible(f)[i][f.columns[j].name]
      BY <3>1, <3>2, <2>2, <2>4, <2>5
    <3> QED BY <3>1, <3>3, <2>3, <1>8 DEF line
  <2>7. CASE c[k].name = Count /\ c[k].type = "number"
    BY <2>7, <2>2, <2>3, <2>4, <1>9 DEF Values, line
  <2>8. CASE \E j \in aggs : /\ c[k].name = SumName(f.columns[j].name)
                             /\ c[k].type = f.columns[j].type
                             /\ f.columns[j].type # "text"
    <3>1. PICK j \in aggs : /\ c[k].name = SumName(f.columns[j].name)
                            /\ c[k].type = f.columns[j].type
                            /\ f.columns[j].type # "text"
      BY <2>8
    <3> DEFINE x == SumName(f.columns[j].name)
    <3>2. x \in names
      BY <1>7
    <3> HIDE DEF x
    <3>3. x \notin {Pct, Bar, Count} /\ x \notin keys
      BY <3>2, <1>2
    <3>4. other[x] \in Int
      BY <3>3, <2>5 DEF x
    <3>5. line[d[k]] = other[x]
      BY <3>1, <3>2, <3>3, <2>2, <2>4 DEF x
    <3> QED BY <3>1, <3>4, <3>5 DEF Values, line
  <2>9. CASE c[k].name = Pct /\ c[k].type = "share"
    BY <2>9, <2>2, <2>4 DEF Values, line
  <2>10. CASE c[k].name = Bar /\ c[k].type = "text"
    BY <2>10, <2>2, <2>4 DEF Values, line
  <2> QED BY <2>6, <2>7, <2>8, <2>9, <2>10, <1>1
<1>15. TableOK(c, d, r)
  BY <1>1, <1>10, <1>12, <1>13, <1>14 DEF TableOK
<1> QED BY <1>15 DEF c, d, r, g, left

LEMMA RankingKeeps ==
  ASSUME NEW f, FrameOK(f), InStep(f), NEW cols \in SUBSET DOMAIN f.columns,
         NEW aggs \in SUBSET DOMAIN f.columns, \A j \in aggs : Numeric(f, j),
         NEW counts \in Counts(f), NEW headers, KeyHeaders(f, cols, headers),
         Ranking(f, cols, counts, headers, aggs) # Refused
  PROVE  /\ FrameOK(Ranking(f, cols, counts, headers, aggs))
         /\ Range(NamesOf(f, cols)) \cap {Pct, Bar} = {}
            => InStep(Ranking(f, cols, counts, headers, aggs))
<1> DEFINE c == RankedColumns(f, headers, aggs)
           d == Grouped(f, cols, aggs) \o SharesLeft(f, cols, aggs)
           r == RankedRows(f, cols, counts, aggs)
           g == FromParts(c, d, r)
<1>1. Distinct(Grouped(f, cols, aggs)) /\ Ranking(f, cols, counts, headers, aggs) = g
  BY RankingParts
<1>2. TableOK(c, d, r)
  BY <1>1, RankingTable
<1>3. c # <<>> /\ Names(c) = Grouped(f, cols, aggs) \o <<Pct, Bar>>
  BY RankedColumnsShape
<1>4. Range(NamesOf(f, cols)) \cap {Pct, Bar} = {} => SharesLeft(f, cols, aggs) = <<Pct, Bar>>
  BY GroupedShape
<1>5. FrameOK(g) /\ g.columns = c /\ g.df = d
  <2> HIDE DEF c, d, r
  <2> QED BY <1>2, <1>3, MadeTable DEF c
<1>6. Range(NamesOf(f, cols)) \cap {Pct, Bar} = {} => InStep(g)
  <2> HIDE DEF c, g
  <2> QED BY <1>3, <1>4, <1>5 DEF InStep
<1> HIDE DEF g
<1> QED BY <1>1, <1>5, <1>6

-----------------------------------------------------------------------------
(* The two frequency tables.                                               *)

LEMMA CountsOfSubsets ==
  ASSUME NEW f, FrameOK(f), NEW counts, DOMAIN counts = DOMAIN f.row_order,
         counts = [i \in DOMAIN f.row_order |-> counts[i]],
         \A i \in DOMAIN f.row_order : \E K \in SUBSET (1 .. Len(f.row_order)) : counts[i] = Cardinality(K)
  PROVE  counts \in Counts(f)
<1>1. Len(f.row_order) \in Nat
  BY VisibleShape
<1>2. \A i \in DOMAIN f.row_order : counts[i] \in 0 .. Len(f.row_order)
  <2> TAKE i \in DOMAIN f.row_order
  <2>1. PICK K \in SUBSET (1 .. Len(f.row_order)) : counts[i] = Cardinality(K)
    OBVIOUS
  <2> QED BY <1>1, <2>1, SubsetCount
<1> QED BY <1>2 DEF Counts

LEMMA PlainShape ==
  ASSUME NEW m \in ColumnMeta
  PROVE  /\ Plain(m) \in ColumnMeta /\ Plain(m).name = m.name /\ Plain(m).type = m.type
         /\ [Plain(m) EXCEPT !.pinned = TRUE] \in ColumnMeta
         /\ [Plain(m) EXCEPT !.pinned = TRUE].name = m.name
         /\ [Plain(m) EXCEPT !.pinned = TRUE].type = m.type
<1>1. /\ Plain(m) \in ColumnMeta /\ Plain(m).name = m.name /\ Plain(m).type = m.type
  BY DEF Plain, ColumnMeta
<1> DEFINE q == Plain(m)
<1>2. q \in ColumnMeta /\ q.name = m.name /\ q.type = m.type
  BY <1>1
<1> HIDE DEF q
<1>3. /\ [q EXCEPT !.pinned = TRUE] \in ColumnMeta
      /\ [q EXCEPT !.pinned = TRUE].name = q.name
      /\ [q EXCEPT !.pinned = TRUE].type = q.type
  BY <1>2 DEF ColumnMeta
<1> QED BY <1>1, <1>2, <1>3 DEF q

LEMMA AggregatedShape ==
  ASSUME NEW f, NEW except
  PROVE  Aggregated(f, except) \in SUBSET DOMAIN f.columns
         /\ \A j \in Aggregated(f, except) : Numeric(f, j)
BY DEF Aggregated

LEMMA ListedOne ==
  ASSUME NEW i \in Nat, i > 0
  PROVE  Cardinality({i}) = 1 /\ Listed({i}) \in Seq(Nat) /\ Listed({i})[1] = i
<1>1. {i} \in SUBSET (1 .. i)
  OBVIOUS
<1>2. Cardinality({i}) = 1
  BY FS_Singleton
<1> DEFINE S == {i}
<1> HIDE DEF S
<1>3. /\ S \in SUBSET (1 .. i) /\ Cardinality(S) = 1 /\ \A x \in S : x = i
  BY <1>1, <1>2 DEF S
<1>4. Listed(S) \in Seq(Nat) /\ \A a \in 1 .. Cardinality(S) : Listed(S)[a] \in S
  BY <1>3, ListedFacts
<1>5. Listed(S) \in Seq(Nat) /\ Listed(S)[1] = i
  <2>1. 1 \in 1 .. Cardinality(S)
    BY <1>3
  <2>2. Listed(S)[1] \in S
    BY <2>1, <1>4
  <2>3. Listed(S)[1] = i
    BY <2>2 DEF S
  <2> QED BY <2>3, <1>4
<1> QED BY <1>2, <1>5 DEF S

LEMMA PlainHeader ==
  ASSUME NEW f, FrameOK(f), InStep(f), NEW c \in DOMAIN f.columns
  PROVE  KeyHeaders(f, {c}, <<Plain(f.columns[c])>>) /\ NamesOf(f, {c}) = <<f.columns[c].name>>
<1> DEFINE m == Plain(f.columns[c])
           h == <<m>>
           S == {c}
<1>1. c \in Nat /\ c > 0 /\ f.columns[c] \in ColumnMeta
  BY RegularShape
<1>2. Cardinality(S) = 1 /\ Listed(S)[1] = c
  BY <1>1, ListedOne
<1>3. m \in ColumnMeta /\ m.name = f.columns[c].name /\ m.type = f.columns[c].type
  BY <1>1, PlainShape
<1> HIDE DEF m, S
<1>4. h \in Seq(ColumnMeta) /\ Names(h) = <<m.name>>
  BY <1>3, FewColumns
<1>5. NamesOf(f, S) = <<f.columns[c].name>>
  BY <1>2 DEF NamesOf
<1>6. \A k \in DOMAIN h : h[k].type = f.columns[Listed(S)[k]].type
  BY <1>2, <1>3
<1> QED BY <1>3, <1>4, <1>5, <1>6 DEF KeyHeaders, m, S

LEMMA PinnedHeaders ==
  ASSUME NEW f, FrameOK(f), InStep(f), NEW cols \in SUBSET DOMAIN f.columns
  PROVE  KeyHeaders(f, cols, PinnedKeys(f, cols))
<1> DEFINE n == Cardinality(cols)
           q(k) == [Plain(f.columns[Listed(cols)[k]]) EXCEPT !.pinned = TRUE]
           h == [k \in 1 .. n |-> q(k)]
           s == NamesOf(f, cols)
<1>1. /\ n \in Nat /\ DOMAIN s = 1 .. n /\ s \in Seq(Texts)
      /\ \A k \in 1 .. n : Listed(cols)[k] \in DOMAIN f.columns
                           /\ s[k] = f.columns[Listed(cols)[k]].name
  BY NamesOfShape
<1>2. \A i \in DOMAIN f.columns : f.columns[i] \in ColumnMeta
  BY RegularShape
<1>3. \A k \in 1 .. n : q(k) \in ColumnMeta /\ q(k).name = s[k]
                        /\ q(k).type = f.columns[Listed(cols)[k]].type
  BY <1>1, <1>2, PlainShape
<1>4. PinnedKeys(f, cols) = h
  BY DEF PinnedKeys
<1> HIDE DEF n, q, s
<1>5. h \in Seq(ColumnMeta) /\ DOMAIN h = 1 .. n /\ \A k \in 1 .. n : h[k] = q(k)
  BY <1>1, <1>3
<1> HIDE DEF h
<1>6. Names(h) \in Seq(Texts) /\ DOMAIN Names(h) = 1 .. n /\ \A k \in 1 .. n : Names(h)[k] = s[k]
  BY <1>5, <1>3, NamesType
<1>7. Names(h) = s
  <2> DEFINE t == Names(h)
  <2> HIDE DEF t
  <2>1. t \in Seq(Texts) /\ s \in Seq(Texts) /\ DOMAIN t = 1 .. n /\ DOMAIN s = 1 .. n
        /\ \A k \in 1 .. n : t[k] = s[k]
    BY <1>1, <1>6 DEF t
  <2>2. t = [k \in 1 .. n |-> t[k]] /\ s = [k \in 1 .. n |-> s[k]]
    BY <2>1
  <2>3. [k \in 1 .. n |-> t[k]] = [k \in 1 .. n |-> s[k]]
    BY <2>1
  <2>4. t = s
    BY <2>2, <2>3
  <2> QED BY <2>4 DEF t
<1>8. \A k \in DOMAIN h : h[k].type = f.columns[Listed(cols)[k]].type
  BY <1>5, <1>3
<1> QED BY <1>4, <1>5, <1>7, <1>8 DEF KeyHeaders, s

LEMMA FrequencyKeeps ==
  ASSUME NEW f, FrameOK(f), InStep(f), NEW c \in DOMAIN f.columns,
         BuildFrequencyTable(f, c) # Refused
  PROVE  /\ FrameOK(BuildFrequencyTable(f, c))
         /\ Range(NamesOf(f, {c})) \cap {Pct, Bar} = {} => InStep(BuildFrequencyTable(f, c))
<1> DEFINE S == {c}
           keys == {f.columns[c].name}
           counts == RowCounts(Visible(f), keys)
           headers == <<Plain(f.columns[c])>>
           none == {}
           aggs == Aggregated(f, none)
<1>1. BuildFrequencyTable(f, c) = Ranking(f, S, counts, headers, aggs)
  BY DEF BuildFrequencyTable
<1>2. DOMAIN Visible(f) = 1 .. Len(f.row_order) /\ DOMAIN f.row_order = 1 .. Len(f.row_order)
  BY VisibleShape
<1>3. counts = [i \in 1 .. Len(f.row_order) |-> Cardinality(GroupOf(Visible(f), keys, i))]
  BY <1>2 DEF RowCounts
<1>4. \A i \in 1 .. Len(f.row_order) : GroupOf(Visible(f), keys, i) \in SUBSET (1 .. Len(f.row_order))
  BY <1>2 DEF GroupOf
<1> HIDE DEF none, keys
<1>5. DOMAIN counts = DOMAIN f.row_order /\ counts = [i \in DOMAIN f.row_order |-> counts[i]]
      /\ \A i \in DOMAIN f.row_order : \E K \in SUBSET (1 .. Len(f.row_order)) : counts[i] = Cardinality(K)
  BY <1>2, <1>3, <1>4
<1> HIDE DEF counts
<1>6. counts \in Counts(f)
  BY <1>5, CountsOfSubsets
<1>7. aggs \in SUBSET DOMAIN f.columns /\ \A j \in aggs : Numeric(f, j)
  BY AggregatedShape
<1>8. KeyHeaders(f, S, headers)
  BY PlainHeader
<1>9. S \in SUBSET DOMAIN f.columns
  OBVIOUS
<1> HIDE DEF S, headers, aggs
<1>10. FrameOK(Ranking(f, S, counts, headers, aggs))
       /\ (Range(NamesOf(f, S)) \cap {Pct, Bar} = {} => InStep(Ranking(f, S, counts, headers, aggs)))
  BY <1>1, <1>6, <1>7, <1>8, <1>9, RankingKeeps
<1> QED BY <1>1, <1>10 DEF S

LEMMA MultiFrequencyKeeps ==
  ASSUME NEW f, FrameOK(f), InStep(f), NEW cols \in SUBSET DOMAIN f.columns,
         BuildMultiFrequencyTable(f, cols) # Refused
  PROVE  /\ FrameOK(BuildMultiFrequencyTable(f, cols))
         /\ Range(NamesOf(f, cols)) \cap {Pct, Bar} = {} => InStep(BuildMultiFrequencyTable(f, cols))
<1> DEFINE names == NamesOf(f, cols)
           keys == Range(names)
           first == names[1]
           counts == ValueCounts(Visible(f), keys, first)
           headers == PinnedKeys(f, cols)
           aggs == Aggregated(f, cols)
           valued(i) == {j \in GroupOf(Visible(f), keys, i) : Visible(f)[j][first] # Null}
<1>1. BuildMultiFrequencyTable(f, cols) = Ranking(f, cols, counts, headers, aggs)
  BY DEF BuildMultiFrequencyTable
<1>2. DOMAIN Visible(f) = 1 .. Len(f.row_order) /\ DOMAIN f.row_order = 1 .. Len(f.row_order)
  BY VisibleShape
<1>3. counts = [i \in 1 .. Len(f.row_order) |-> Cardinality(valued(i))]
  BY <1>2 DEF ValueCounts
<1>4. \A i \in 1 .. Len(f.row_order) : valued(i) \in SUBSET (1 .. Len(f.row_order))
  BY <1>2 DEF GroupOf
<1> HIDE DEF names, keys, first, valued
<1>5. DOMAIN counts = DOMAIN f.row_order /\ counts = [i \in DOMAIN f.row_order |-> counts[i]]
      /\ \A i \in DOMAIN f.row_order : \E K \in SUBSET (1 .. Len(f.row_order)) : counts[i] = Cardinality(K)
  BY <1>2, <1>3, <1>4
<1> HIDE DEF counts
<1>6. counts \in Counts(f)
  BY <1>5, CountsOfSubsets
<1>7. aggs \in SUBSET DOMAIN f.columns /\ \A j \in aggs : Numeric(f, j)
  BY AggregatedShape
<1>8. KeyHeaders(f, cols, headers)
  BY PinnedHeaders
<1> HIDE DEF headers, aggs
<1>10. FrameOK(Ranking(f, cols, counts, headers, aggs))
       /\ (Range(NamesOf(f, cols)) \cap {Pct, Bar} = {} => InStep(Ranking(f, cols, counts, headers, aggs)))
  BY <1>1, <1>6, <1>7, <1>8, RankingKeeps
<1> QED BY <1>1, <1>10

-----------------------------------------------------------------------------
(* A row stood on end.                                                     *)

LEMMA TransposeRowKeeps ==
  ASSUME NEW f, FrameOK(f), InStep(f), NEW k \in DOMAIN f.row_order
  PROVE  FrameOK(TransposeRow(f, f.row_order[k])) /\ InStep(TransposeRow(f, f.row_order[k]))
<1> DEFINE n == <<"Column">>
           v == <<"Value">>
           a == Column(n, "text")
           b == Column(v, "text")
           c == <<a, b>>
           row == f.row_order[k]
           cell(i, x) == IF x = n THEN f.columns[i].name
                         ELSE Text(f.columns[i].type, GetPhysical(f, row, i))
           r == [i \in DOMAIN f.columns |-> [x \in {n, v} |-> cell(i, x)]]
<1>1. TransposeRow(f, row) = FromParts(c, <<n, v>>, r)
  BY DEF TransposeRow
<1>2. n \in Texts /\ v \in Texts /\ n # v
  BY WordsAssumption DEF Texts, OwnWords
<1>3. DOMAIN f.columns = 1 .. Len(f.columns) /\ Len(f.columns) \in Nat
      /\ \A i \in DOMAIN f.columns : f.columns[i].name \in Texts /\ f.columns[i].type \in Types
  BY RegularShape
<1>4. \A i \in DOMAIN f.columns : GetPhysical(f, row, i) \in Values(f.columns[i].type)
  BY CellTypes
<1>5. \A i \in DOMAIN f.columns : \A x : cell(i, x) \in Texts
  BY <1>3, <1>4, TextIsText
<1>6. a \in ColumnMeta /\ b \in ColumnMeta /\ a.name = n /\ b.name = v
      /\ a.type = "text" /\ b.type = "text"
  BY <1>2 DEF Column, ColumnMeta, Types
<1> HIDE DEF n, v, a, b, row, cell
<1>7. c \in Seq(ColumnMeta) /\ Names(c) = <<n, v>> /\ c # <<>> /\ Len(c) = 2
  BY <1>6, FewColumns
<1>8. Distinct(<<n, v>>) /\ Range(<<n, v>>) = {n, v}
  BY <1>2, OneAndTwo
<1>9. \A i \in DOMAIN c : c[i].type = "text"
  BY <1>6
<1>10. DOMAIN r = 1 .. Len(f.columns) /\ r = [i \in 1 .. Len(f.columns) |-> r[i]]
  BY <1>3
<1>11. \A i \in DOMAIN r : DOMAIN r[i] = {n, v} /\ \A x \in {n, v} : r[i][x] \in Texts
  BY <1>5
<1> HIDE DEF c, r
<1>12. IsList(r)
  BY <1>3, <1>10, ListFromTo
<1>13. TableOK(c, Names(c), r)
  BY <1>7, <1>8, <1>9, <1>11, <1>12, TextTable
<1>14. FrameOK(FromParts(c, Names(c), r)) /\ InStep(FromParts(c, Names(c), r))
  BY <1>7, <1>13, MadeTable DEF InStep
<1> QED BY <1>1, <1>7, <1>14 DEF row

-----------------------------------------------------------------------------
(* Pivots.                                                                 *)

LEMMA UniqueShape ==
  ASSUME NEW m \in Nat, NEW s, DOMAIN s = 1 .. m
  PROVE  /\ IsList(Unique(s)) /\ DOMAIN Unique(s) = 1 .. Len(Unique(s)) /\ Len(Unique(s)) \in 0 .. m
         /\ \A k \in DOMAIN Unique(s) : \E a \in 1 .. m : Unique(s)[k] = s[a]
         /\ \A k, l \in DOMAIN Unique(s) : Unique(s)[k] = Unique(s)[l] => k = l
         /\ \A a \in 1 .. m : \E k \in DOMAIN Unique(s) : Unique(s)[k] = s[a]
<1> DEFINE F == {i \in 1 .. m : \A j \in 1 .. i - 1 : s[j] # s[i]}
           n == Cardinality(F)
           p == Listed(F)
           u == [k \in 1 .. n |-> s[p[k]]]
<1>1. Unique(s) = u
  BY DEF Unique
<1>2. F \in SUBSET (1 .. m)
  OBVIOUS
<1>3. \A i, j \in F : s[i] = s[j] => i = j
  <2> SUFFICES ASSUME NEW i \in F, NEW j \in F, s[i] = s[j], i < j PROVE FALSE
    OBVIOUS
  <2> QED OBVIOUS
<1>4. \A a \in 1 .. m : \E i \in F : s[i] = s[a]
  <2> TAKE a \in 1 .. m
  <2> DEFINE T == {i \in 1 .. m : s[i] = s[a]}
  <2>1. T \in SUBSET Nat /\ a \in T
    OBVIOUS
  <2>2. PICK x \in T : \A y \in T : x <= y
    <3> HIDE DEF T
    <3> QED BY <2>1, LeastNatural
  <2>3. x \in F
    BY <2>2
  <2> QED BY <2>2, <2>3
<1> HIDE DEF F
<1>5. /\ n \in Nat /\ n \in 0 .. m
      /\ \A k \in 1 .. n : p[k] \in F
      /\ \A k, l \in 1 .. n : p[k] = p[l] => k = l
      /\ \A i \in F : \E k \in 1 .. n : p[k] = i
  BY <1>2, ListedFacts, SubsetCount
<1> HIDE DEF n, p
<1>6. DOMAIN u = 1 .. n /\ u = [k \in 1 .. n |-> u[k]] /\ \A k \in 1 .. n : u[k] = s[p[k]]
  OBVIOUS
<1> HIDE DEF u
<1>7. IsList(u) /\ Len(u) = n
  BY <1>5, <1>6, ListFromTo
<1>8. \A k \in DOMAIN u : \E a \in 1 .. m : u[k] = s[a]
  BY <1>2, <1>5, <1>6
<1>9. \A k, l \in DOMAIN u : u[k] = u[l] => k = l
  BY <1>3, <1>5, <1>6
<1>10. \A a \in 1 .. m : \E k \in DOMAIN u : u[k] = s[a]
  <2> TAKE a \in 1 .. m
  <2>1. PICK i \in F : s[i] = s[a]
    BY <1>4
  <2>2. PICK k \in 1 .. n : p[k] = i
    BY <1>5
  <2> QED BY <1>6, <2>1, <2>2
<1> QED BY <1>1, <1>5, <1>6, <1>7, <1>8, <1>9, <1>10

PivotLines(f, index, order) ==
    Unique([k \in DOMAIN order |-> KeyOf(Visible(f)[order[k]], Range(NamesOf(f, index)))])
PivotValues(f, pivot, order) ==
    Unique([k \in DOMAIN order |-> Visible(f)[order[k]][f.columns[pivot].name]])
PivotNames(f, pivot, order) ==
    [k \in DOMAIN PivotValues(f, pivot, order) |->
        PivotName(f.columns[pivot].type, PivotValues(f, pivot, order)[k])]
PivotHeaders(f, pivot, measure, order) ==
    [k \in DOMAIN PivotNames(f, pivot, order) |->
        Column(PivotNames(f, pivot, order)[k], f.columns[ColumnIndex(f, measure)].type)]
PivotTitles(f, index, pivot, order) == NamesOf(f, index) \o PivotNames(f, pivot, order)
PivotEntry(f, index, pivot, measure, order, r, n) ==
    PivotCell(Visible(f), Range(NamesOf(f, index)), f.columns[pivot].name, measure,
              PivotLines(f, index, order)[r],
              PivotValues(f, pivot, order)[CHOOSE k \in DOMAIN PivotNames(f, pivot, order) :
                                              PivotNames(f, pivot, order)[k] = n])
PivotLine(f, index, pivot, measure, order, r) ==
    [n \in Range(PivotTitles(f, index, pivot, order)) |->
        IF n \in Range(NamesOf(f, index)) THEN PivotLines(f, index, order)[r][n]
        ELSE PivotEntry(f, index, pivot, measure, order, r, n)]
PivotRows(f, index, pivot, measure, order) ==
    [r \in DOMAIN PivotLines(f, index, order) |-> PivotLine(f, index, pivot, measure, order, r)]

LEMMA PivotParts ==
  ASSUME NEW f, NEW index, NEW pivot, NEW measure, NEW order,
         CreatePivotTable(f, index, pivot, measure, order) # Refused
  PROVE  /\ Distinct(PivotTitles(f, index, pivot, order))
         /\ CreatePivotTable(f, index, pivot, measure, order)
            = FromParts(PinnedKeys(f, index) \o PivotHeaders(f, pivot, measure, order),
                        PivotTitles(f, index, pivot, order),
                        PivotRows(f, index, pivot, measure, order))
BY DEF CreatePivotTable, PivotLines, PivotValues, PivotNames, PivotHeaders, PivotTitles,
       PivotEntry, PivotLine, PivotRows

\* Any list of rows on screen; the groups of a pivot are one.
Listing(f, order) ==
    \E m \in Nat : DOMAIN order = 1 .. m /\ \A k \in 1 .. m : order[k] \in DOMAIN f.row_order

LEMMA PivotGroupsListed ==
  ASSUME NEW f, FrameOK(f), NEW index, NEW pivot, NEW order \in PivotGroups(f, index, pivot)
  PROVE  Listing(f, order)
<1> DEFINE S == FirstOfGroups(Visible(f), Range(NamesOf(f, index)) \cup {f.columns[pivot].name})
           m == Cardinality(S)
<1>1. S \subseteq DOMAIN f.row_order /\ m \in Nat
  BY FirstsFacts
<1>2. order \in Bijection(1 .. m, S)
  BY DEF PivotGroups
<1> HIDE DEF S, m
<1>3. DOMAIN order = 1 .. m /\ \A k \in 1 .. m : order[k] \in S
  BY <1>2 DEF Bijection, Injection
<1> QED BY <1>1, <1>3 DEF Listing

LEMMA PivotLinesShape ==
  ASSUME NEW f, FrameOK(f), InStep(f), NEW index \in SUBSET DOMAIN f.columns,
         NEW order, Listing(f, order)
  PROVE  /\ IsList(PivotLines(f, index, order))
         /\ \A r \in DOMAIN PivotLines(f, index, order), j \in index :
               PivotLines(f, index, order)[r][f.columns[j].name] \in Values(f.columns[j].type)
<1> DEFINE keys == Range(NamesOf(f, index))
           rows == Visible(f)
           s == [k \in DOMAIN order |-> KeyOf(rows[order[k]], keys)]
           u == PivotLines(f, index, order)
<1>1. PICK m \in Nat : DOMAIN order = 1 .. m /\ \A k \in 1 .. m : order[k] \in DOMAIN f.row_order
  BY DEF Listing
<1>2. u = Unique(s)
  BY DEF PivotLines
<1>3. DOMAIN s = 1 .. m /\ \A k \in 1 .. m : s[k] = KeyOf(rows[order[k]], keys)
  BY <1>1
<1>4. \A j \in index : f.columns[j].name \in keys
  BY NamesOfShape
<1>5. \A i \in DOMAIN f.row_order, j \in index :
         rows[i][f.columns[j].name] \in Values(f.columns[j].type)
  BY CellTypes
<1> HIDE DEF s, u, rows, keys
<1>6. IsList(u) /\ \A k \in DOMAIN u : \E a \in 1 .. m : u[k] = s[a]
  BY <1>2, <1>3, UniqueShape
<1>7. \A a \in 1 .. m, j \in index : s[a][f.columns[j].name] = rows[order[a]][f.columns[j].name]
  BY <1>3, <1>4 DEF KeyOf
<1>8. \A a \in 1 .. m, j \in index : s[a][f.columns[j].name] \in Values(f.columns[j].type)
  BY <1>1, <1>5, <1>7
<1> QED BY <1>6, <1>8 DEF u

LEMMA PivotNamesShape ==
  ASSUME NEW f, FrameOK(f), InStep(f), NEW pivot \in DOMAIN f.columns, NEW order, Listing(f, order)
  PROVE  /\ PivotNames(f, pivot, order) \in Seq(Texts)
         /\ DOMAIN PivotNames(f, pivot, order) = DOMAIN PivotValues(f, pivot, order)
<1> DEFINE on == f.columns[pivot]
           rows == Visible(f)
           s == [k \in DOMAIN order |-> rows[order[k]][on.name]]
           u == PivotValues(f, pivot, order)
<1>1. PICK m \in Nat : DOMAIN order = 1 .. m /\ \A k \in 1 .. m : order[k] \in DOMAIN f.row_order
  BY DEF Listing
<1>2. u = Unique(s)
  BY DEF PivotValues
<1>3. DOMAIN s = 1 .. m /\ \A k \in 1 .. m : s[k] = rows[order[k]][on.name]
  BY <1>1
<1>4. \A i \in DOMAIN f.row_order : rows[i][on.name] \in Values(on.type)
  BY CellTypes
<1>5. on.type \in Types
  BY RegularShape
<1>6. PivotNames(f, pivot, order) = [k \in DOMAIN u |-> PivotName(on.type, u[k])]
  BY DEF PivotNames
<1> HIDE DEF s, u, rows, on
<1>7. /\ DOMAIN u = 1 .. Len(u) /\ Len(u) \in Nat
      /\ \A k \in DOMAIN u : \E a \in 1 .. m : u[k] = s[a]
  BY <1>2, <1>3, UniqueShape
<1>8. \A k \in DOMAIN u : u[k] \in Values(on.type)
  BY <1>1, <1>3, <1>4, <1>7
<1>9. <<"null">> \in Texts
  BY WordsAssumption DEF Texts, OwnWords
<1>10. \A k \in DOMAIN u : PivotName(on.type, u[k]) \in Texts
  BY <1>5, <1>8, <1>9, CastIsText DEF PivotName
<1> DEFINE name(k) == PivotName(on.type, u[k])
           l == Len(u)
<1>11. PivotNames(f, pivot, order) = [k \in 1 .. l |-> name(k)] /\ l \in Nat
       /\ \A k \in 1 .. l : name(k) \in Texts
  BY <1>6, <1>7, <1>10
<1> HIDE DEF name, l
<1>12. PivotNames(f, pivot, order) \in Seq(Texts)
  BY <1>11
<1> QED BY <1>7, <1>11, <1>12 DEF u, l

LEMMA MeasureFacts ==
  ASSUME NEW f, FrameOK(f), InStep(f), NEW measure, HasColumn(f, measure)
  PROVE  /\ ColumnIndex(f, measure) \in DOMAIN f.columns
         /\ f.columns[ColumnIndex(f, measure)].name = measure
<1> DEFINE S == Positions(f, measure)
<1>1. PICK i : i \in S
  BY DEF HasColumn
<1>2. i \in DOMAIN f.columns /\ f.columns[i].name = measure
  BY <1>1 DEF Positions
<1>3. \A j \in S : j = i
  BY <1>2, RegularShape DEF Positions
<1>4. i \in Int
  BY <1>2, RegularShape
<1> HIDE DEF S
<1>5. Min(S) = i
  <2>1. i \in S /\ \A y \in S : i <= y
    BY <1>1, <1>3, <1>4
  <2>2. Min(S) \in S
    BY <2>1 DEF Min
  <2> QED BY <2>2, <1>3
<1>6. ColumnIndex(f, measure) = i
  BY <1>5 DEF ColumnIndex, S
<1> QED BY <1>2, <1>6

LEMMA PivotEntryType ==
  ASSUME NEW f, FrameOK(f), InStep(f), NEW measure, HasColumn(f, measure),
         Numeric(f, ColumnIndex(f, measure)), NEW index, NEW pivot, NEW order, NEW r, NEW n
  PROVE  PivotEntry(f, index, pivot, measure, order, r, n) \in Int \cup {Null}
<1> DEFINE i == ColumnIndex(f, measure)
<1>1. i \in DOMAIN f.columns /\ f.columns[i].name = measure /\ Numeric(f, i)
  BY MeasureFacts
<1> HIDE DEF i
<1>2. \A S : SumOver(Visible(f), S, f.columns[i].name) \in Int
  BY <1>1, SumOverType
<1>3. \A S : SumOver(Visible(f), S, measure) \in Int
  BY <1>1, <1>2
<1> QED BY <1>3 DEF PivotEntry, PivotCell

LEMMA PivotTable ==
  ASSUME NEW f, FrameOK(f), InStep(f), NEW index \in SUBSET DOMAIN f.columns, index # {},
         NEW pivot \in DOMAIN f.columns, NEW measure, HasColumn(f, measure),
         Numeric(f, ColumnIndex(f, measure)), NEW order, Listing(f, order),
         Distinct(PivotTitles(f, index, pivot, order)), NEW c,
         c = PinnedKeys(f, index) \o PivotHeaders(f, pivot, measure, order)
  PROVE  /\ c # <<>>
         /\ Names(c) = PivotTitles(f, index, pivot, order)
         /\ TableOK(c, Names(c), PivotRows(f, index, pivot, measure, order))
<1> DEFINE a == PinnedKeys(f, index)
           b == PivotHeaders(f, pivot, measure, order)
           d == PivotTitles(f, index, pivot, order)
           keys == NamesOf(f, index)
           names == PivotNames(f, pivot, order)
           type == f.columns[ColumnIndex(f, measure)].type
           n == Cardinality(index)
           r == PivotRows(f, index, pivot, measure, order)
           cell(q, x) == IF x \in Range(keys) THEN PivotLines(f, index, order)[q][x]
                         ELSE PivotEntry(f, index, pivot, measure, order, q, x)
<1>1. a \in Seq(ColumnMeta) /\ Names(a) = keys
      /\ \A k \in DOMAIN a : a[k].type = f.columns[Listed(index)[k]].type
  BY PinnedHeaders DEF KeyHeaders
<1>2. /\ keys \in Seq(Texts) /\ DOMAIN keys = 1 .. n /\ n \in Nat
      /\ \A k \in 1 .. n : /\ Listed(index)[k] \in index
                           /\ keys[k] = f.columns[Listed(index)[k]].name
      /\ \A i \in index : f.columns[i].name \in Range(keys)
  BY NamesOfShape
<1>3. names \in Seq(Texts)
  BY PivotNamesShape
<1>4. type \in Types /\ type # "text"
  <2>1. ColumnIndex(f, measure) \in DOMAIN f.columns
    BY MeasureFacts
  <2> QED BY <2>1, RegularShape DEF Numeric
<1>5. b \in Seq(ColumnMeta) /\ Names(b) = names /\ \A k \in DOMAIN b : b[k].type = type
  <2>1. b = [k \in DOMAIN names |-> Column(names[k], type)]
    BY DEF PivotHeaders
  <2> HIDE DEF b, names, type
  <2>2. /\ DOMAIN names = 1 .. Len(names) /\ Len(names) \in Nat
        /\ \A k \in DOMAIN names : names[k] \in Texts
    BY <1>3
  <2>3. \A k \in DOMAIN names : /\ Column(names[k], type) \in ColumnMeta
                                /\ Column(names[k], type).name = names[k]
                                /\ Column(names[k], type).type = type
    BY <1>4, <2>2 DEF Column, ColumnMeta
  <2>4. b \in Seq(ColumnMeta) /\ DOMAIN b = DOMAIN names
        /\ \A k \in DOMAIN b : b[k].name = names[k] /\ b[k].type = type
    BY <2>1, <2>2, <2>3
  <2>5. names = [k \in DOMAIN names |-> names[k]]
    BY <1>3
  <2>6. Names(b) = names
    BY <2>4, <2>5 DEF Names
  <2> QED BY <2>4, <2>6
<1>6. d = keys \o names
  BY DEF PivotTitles
<1>7. IsList(PivotLines(f, index, order))
      /\ \A q \in DOMAIN PivotLines(f, index, order), j \in index :
            PivotLines(f, index, order)[q][f.columns[j].name] \in Values(f.columns[j].type)
  BY PivotLinesShape
<1>8. \A q, x : PivotEntry(f, index, pivot, measure, order, q, x) \in Int \cup {Null}
  BY PivotEntryType
<1>9. r = [q \in DOMAIN PivotLines(f, index, order) |-> [x \in Range(d) |-> cell(q, x)]]
  BY DEF PivotRows, PivotLine
<1>10. index # {} => n # 0
  BY FS_EmptySet, FS_Subset, RegularShape, SubsetCount
<1> HIDE DEF a, b, d, keys, names, type, r, n
<1>11. c = a \o b /\ Distinct(d)
  BY DEF a, b, d
<1>12. c \in Seq(ColumnMeta) /\ Range(c) = Range(a) \cup Range(b) /\ Names(c) = d
  BY <1>1, <1>5, <1>6, <1>11, ColumnsJoined
<1>13. c # <<>>
  <2>1. Len(a) = n
    BY <1>1, <1>2, NamesType
  <2> QED BY <1>1, <1>5, <1>10, <1>11, <1>2, <2>1
<1>14. d \in Seq(Texts) /\ Range(d) = Range(keys) \cup Range(names)
       /\ Range(keys) \cap Range(names) = {}
  <2>1. Range(d) = Range(keys) \cup Range(names)
    BY <1>2, <1>3, <1>6, RangeJoined
  <2>2. Range(keys) \cap Range(names) = {}
    BY <1>2, <1>3, <1>6, <1>11, DistinctJoined
  <2> QED BY <1>2, <1>3, <1>6, <2>1, <2>2
<1>15. DOMAIN r = DOMAIN PivotLines(f, index, order) /\ r = [q \in DOMAIN r |-> r[q]]
       /\ \A q \in DOMAIN r : DOMAIN r[q] = Range(d) /\ \A x \in Range(d) : r[q][x] = cell(q, x)
  BY <1>9
<1>16. IsList(r)
  <2>1. DOMAIN r = 1 .. Len(PivotLines(f, index, order)) /\ Len(PivotLines(f, index, order)) \in Nat
    BY <1>7, <1>15 DEF IsList
  <2> QED BY <2>1, <1>15, ListFromTo
<1>17. ASSUME NEW q \in DOMAIN r, NEW k \in DOMAIN c
       PROVE  r[q][d[k]] \in Values(c[k].type)
  <2>1. d[k] = c[k].name /\ DOMAIN d = DOMAIN c
    BY <1>12, NamesType
  <2>2. d[k] \in Range(d)
    BY <2>1, InRange
  <2>3. r[q][d[k]] = cell(q, d[k]) /\ q \in DOMAIN PivotLines(f, index, order)
    BY <1>15, <2>2
  <2>4. c[k] \in Range(a) \cup Range(b)
    BY <1>12, InRange
  <2>5. CASE c[k] \in Range(a)
    <3>1. PICK l \in DOMAIN a : a[l] = c[k]
      BY <2>5, InRange
    <3>2. a[l].name = keys[l] /\ l \in 1 .. n
      BY <1>1, <1>2, NamesType
    <3> DEFINE j == Listed(index)[l]
    <3>3. j \in index /\ keys[l] = f.columns[j].name /\ a[l].type = f.columns[j].type
          /\ f.columns[j].name \in Range(keys)
      BY <1>1, <1>2, <3>2
    <3> HIDE DEF j
    <3>4. r[q][d[k]] = PivotLines(f, index, order)[q][f.columns[j].name]
      BY <2>1, <2>3, <3>1, <3>2, <3>3
    <3> QED BY <3>1, <3>3, <3>4, <1>7, <2>3
  <2>6. CASE c[k] \in Range(b)
    <3>1. PICK l \in DOMAIN b : b[l] = c[k]
      BY <2>6, InRange
    <3>2. b[l].name = names[l] /\ l \in DOMAIN names /\ b[l].type = type
      BY <1>5, NamesType
    <3>3. d[k] \in Range(names)
      BY <2>1, <3>1, <3>2, InRange
    <3>4. d[k] \notin Range(keys)
      BY <1>14, <3>3
    <3>5. r[q][d[k]] \in Int \cup {Null}
      BY <1>8, <2>3, <3>4
    <3> QED BY <3>1, <3>2, <3>5, <1>4 DEF Values
  <2> QED BY <2>4, <2>5, <2>6
<1>18. TableOK(c, d, r)
  BY <1>11, <1>12, <1>14, <1>15, <1>16, <1>17 DEF TableOK
<1> QED BY <1>12, <1>13, <1>18 DEF d, r

LEMMA PivotKeeps ==
  ASSUME NEW f, FrameOK(f), InStep(f), NEW index \in SUBSET DOMAIN f.columns, index # {},
         NEW pivot \in DOMAIN f.columns, NEW measure, HasColumn(f, measure),
         Numeric(f, ColumnIndex(f, measure)), NEW order \in PivotGroups(f, index, pivot),
         CreatePivotTable(f, index, pivot, measure, order) # Refused
  PROVE  /\ FrameOK(CreatePivotTable(f, index, pivot, measure, order))
         /\ InStep(CreatePivotTable(f, index, pivot, measure, order))
<1> DEFINE c == PinnedKeys(f, index) \o PivotHeaders(f, pivot, measure, order)
           r == PivotRows(f, index, pivot, measure, order)
           d == PivotTitles(f, index, pivot, order)
           g == FromParts(c, d, r)
<1>1. Distinct(d) /\ CreatePivotTable(f, index, pivot, measure, order) = g
  BY PivotParts
<1>2. Listing(f, order)
  BY PivotGroupsListed
<1> HIDE DEF c
<1>3. c # <<>> /\ Names(c) = d /\ TableOK(c, Names(c), r)
  BY <1>1, <1>2, PivotTable DEF c
<1> HIDE DEF r, d
<1>4. FrameOK(g) /\ g.columns = c /\ g.df = d
  BY <1>3, MadeTable
<1> QED BY <1>1, <1>3, <1>4 DEF InStep

-----------------------------------------------------------------------------
(* Window columns: their names.                                            *)

\* t joins the first m of the texts v, one after the other.
Flattens(T, v, m, t) ==
    /\ t \in [1 .. m -> Seq(T)]
    /\ t = [i \in 1 .. m |-> IF i = 1 THEN v[i] ELSE t[i - 1] \o v[i]]

LEMMA FlattenExists ==
  ASSUME NEW T, NEW n \in Nat, NEW v \in [1 .. n -> Seq(T)]
  PROVE  \A m \in Nat : m <= n => \E t : Flattens(T, v, m, t)
<1> DEFINE Holds(m) == m <= n => \E t : Flattens(T, v, m, t)
           S == {m \in Nat : Holds(m)}
<1>1. Holds(0)
  <2> DEFINE u == [i \in 1 .. 0 |-> <<>>]
  <2>1. u \in [1 .. 0 -> Seq(T)]
    OBVIOUS
  <2>2. u = [i \in 1 .. 0 |-> IF i = 1 THEN v[i] ELSE u[i - 1] \o v[i]]
    OBVIOUS
  <2> HIDE DEF u
  <2>3. Flattens(T, v, 0, u)
    BY <2>1, <2>2 DEF Flattens
  <2> QED BY <2>3
<1>2. \A m \in Nat : Holds(m) => Holds(m + 1)
  <2> SUFFICES ASSUME NEW m \in Nat, Holds(m), m + 1 <= n PROVE \E u : Flattens(T, v, m + 1, u)
    OBVIOUS
  <2>a. PICK t : Flattens(T, v, m, t)
    OBVIOUS
  <2> DEFINE e == IF m = 0 THEN v[1] ELSE t[m] \o v[m + 1]
             u == [i \in 1 .. m + 1 |-> IF i = m + 1 THEN e ELSE t[i]]
  <2> HIDE DEF S, Holds
  <2>1. \A i \in 1 .. m : t[i] = (IF i = 1 THEN v[i] ELSE t[i - 1] \o v[i]) /\ t[i] \in Seq(T)
    BY <2>a DEF Flattens
  <2>2. v[m + 1] \in Seq(T) /\ v[1] \in Seq(T) /\ (m # 0 => t[m] \in Seq(T))
    BY <2>1
  <2>3. e \in Seq(T)
    <3> DEFINE a == t[m]
               b == v[m + 1]
    <3>1. m # 0 => a \in Seq(T)
      BY <2>2
    <3>2. b \in Seq(T)
      BY <2>2
    <3> HIDE DEF a, b
    <3>3. m # 0 => a \o b \in Seq(T)
      BY <3>1, <3>2
    <3> QED BY <3>3, <2>2 DEF a, b
  <2>4. \A i \in 1 .. m + 1 : u[i] = IF i = 1 THEN v[i] ELSE u[i - 1] \o v[i]
    <3> TAKE i \in 1 .. m + 1
    <3>1. CASE i = m + 1
      BY <3>1
    <3>2. CASE i \in 1 .. m
      <4>1. i # m + 1 /\ (i # 1 => i - 1 \in 1 .. m + 1 /\ i - 1 # m + 1)
        BY <3>2
      <4> HIDE DEF e
      <4>2. u[i] = t[i] /\ (i # 1 => u[i - 1] = t[i - 1])
        BY <4>1
      <4> HIDE DEF u
      <4> QED BY <4>2, <3>2, <2>1
    <3> QED BY <3>1, <3>2
  <2>5. u \in [1 .. m + 1 -> Seq(T)] /\ u = [i \in 1 .. m + 1 |-> u[i]]
    <3> DEFINE A == Seq(T)
    <3>1. e \in A /\ \A i \in 1 .. m : t[i] \in A
      BY <2>1, <2>3
    <3> HIDE DEF e, A
    <3>2. \A i \in 1 .. m + 1 : i # m + 1 => i \in 1 .. m
      OBVIOUS
    <3>3. \A i \in 1 .. m + 1 : u[i] \in A
      BY <3>1, <3>2
    <3>4. u = [i \in 1 .. m + 1 |-> u[i]]
      OBVIOUS
    <3> HIDE DEF u
    <3>5. u \in [1 .. m + 1 -> A]
      BY <3>3, <3>4
    <3> QED BY <3>4, <3>5 DEF A
  <2> HIDE DEF u
  <2>6. u = [i \in 1 .. m + 1 |-> IF i = 1 THEN v[i] ELSE u[i - 1] \o v[i]]
    BY <2>4, <2>5
  <2> QED BY <2>5, <2>6 DEF Flattens
<1> HIDE DEF Holds
<1>3. 0 \in S /\ \A m \in Nat : m \in S => m + 1 \in S
  BY <1>1, <1>2
<1> HIDE DEF S
<1>4. Nat \subseteq S
  BY <1>3, EveryNatural
<1> QED BY <1>4 DEF S, Holds

LEMMA FlattenType ==
  ASSUME NEW T, NEW n \in Nat, NEW v \in [1 .. n -> Seq(T)]
  PROVE  FlattenSeq(v) \in Seq(T)
<1> DEFINE IsFlat(t) == t = [i \in 1 .. n |-> IF i = 1 THEN v[i] ELSE t[i - 1] \o v[i]]
<1>1. Len(v) = n
  BY ListLength
<1>2. CASE n = 0
  <2>1. FlattenSeq(v) = v
    BY <1>1, <1>2 DEF FlattenSeq
  <2>2. v = <<>>
    BY <1>2
  <2> QED BY <2>1, <2>2
<1>3. CASE n # 0
  <2>1. \E t : IsFlat(t)
    <3>1. \A m \in Nat : m <= n => \E t : Flattens(T, v, m, t)
      BY FlattenExists
    <3>2. n <= n
      OBVIOUS
    <3> QED BY <3>1, <3>2 DEF Flattens
  <2> DEFINE flatten == CHOOSE t : IsFlat(t)
  <2>2. FlattenSeq(v) = flatten[n]
    BY <1>1, <1>3 DEF FlattenSeq
  <2>3. IsFlat(flatten)
    BY <2>1
  <2> HIDE DEF flatten
  <2>4. \A i \in 1 .. n : flatten[i] = IF i = 1 THEN v[i] ELSE flatten[i - 1] \o v[i]
    BY <2>3
  <2> DEFINE S == {k \in Nat : k + 1 <= n => flatten[k + 1] \in Seq(T)}
  <2>5. 0 \in S
    BY <2>4, <1>3
  <2>6. \A k \in Nat : k \in S => k + 1 \in S
    <3> SUFFICES ASSUME NEW k \in Nat, k \in S, (k + 1) + 1 <= n PROVE flatten[(k + 1) + 1] \in Seq(T)
      OBVIOUS
    <3> DEFINE a == flatten[k + 1]
               b == v[(k + 1) + 1]
    <3>1. a \in Seq(T)
      OBVIOUS
    <3>2. (k + 1) + 1 \in 1 .. n /\ (k + 1) + 1 # 1 /\ ((k + 1) + 1) - 1 = k + 1
      OBVIOUS
    <3>3. b \in Seq(T)
      BY <3>2
    <3>4. flatten[(k + 1) + 1] = a \o b
      BY <3>2, <2>4
    <3> HIDE DEF a, b
    <3> QED BY <3>1, <3>3, <3>4
  <2> HIDE DEF S
  <2>7. Nat \subseteq S
    BY <2>5, <2>6, EveryNatural
  <2>8. n - 1 \in Nat /\ (n - 1) + 1 = n
    BY <1>3
  <2>9. flatten[n] \in Seq(T)
    <3> DEFINE l == n - 1
    <3>1. l \in S /\ l + 1 = n
      BY <2>7, <2>8
    <3> HIDE DEF l
    <3>2. flatten[l + 1] \in Seq(T)
      BY <3>1 DEF S
    <3> QED BY <3>1, <3>2
  <2> QED BY <2>2, <2>9
<1> QED BY <1>2, <1>3

LEMMA ListOfSet ==
  ASSUME NEW S, IsFiniteSet(S)
  PROVE  SetToSeq(S) \in [1 .. Cardinality(S) -> S] /\ Cardinality(S) \in Nat
<1>1. Cardinality(S) \in Nat /\ ExistsBijection(1 .. Cardinality(S), S)
  BY FS_CardinalityType
<1>2. \E f \in [1 .. Cardinality(S) -> S] : IsInjective(f)
  BY <1>1 DEF ExistsBijection, Bijection, Injection
<1> QED BY <1>1, <1>2 DEF SetToSeq

LEMMA WindowNameIsText ==
  ASSUME NEW f, FrameOK(f), InStep(f), NEW w, w.col \in DOMAIN f.columns,
         \A x \in w.over : HasColumn(f, x), w.order_by \in Texts \cup {Null},
         w.function \in WindowFns
  PROVE  WindowName(f, w) \in Texts
<1>1. f.columns[w.col].name \in Texts
  BY RegularShape
<1>2. w.over \in SUBSET Range(f.df)
  BY RegularShape DEF HasColumn, Positions
<1>3. IsFiniteSet(w.over)
  <2>1. IsFiniteSet(Range(f.df))
    <3> DEFINE l == Len(f.df)
    <3>1. l \in Nat /\ DOMAIN f.df = 1 .. l
      BY RegularShape
    <3>2. f.df \in Surjection(1 .. l, Range(f.df))
      <4>1. f.df \in Seq(Texts)
        BY RegularShape
      <4> DEFINE d == f.df
      <4>2. d = [i \in 1 .. l |-> d[i]] /\ DOMAIN d = 1 .. l
        BY <4>1, <3>1
      <4> HIDE DEF d, l
      <4>3. d \in Surjection(1 .. l, Range(d))
        BY <4>2 DEF Surjection, Range
      <4> QED BY <4>3 DEF d
    <3> HIDE DEF l
    <3>3. IsFiniteSet(1 .. l)
      BY <3>1, FS_Interval
    <3> QED BY <3>2, <3>3, FS_Surjection
  <2> QED BY <2>1, <1>2, FS_Subset
<1>4. f.df \in Seq(Texts)
  BY RegularShape
<1>5. w.over \in SUBSET Texts
  BY <1>2, <1>4, SeqFacts
<1> DEFINE o == w.over
           l == SetToSeq(o)
           m == Cardinality(o)
           flat == FlattenSeq(l)
<1>6. flat \in Texts
  <2> HIDE DEF o, l
  <2>1. l \in [1 .. m -> o] /\ m \in Nat
    BY <1>3, ListOfSet DEF o, l
  <2>2. o \in SUBSET Texts
    BY <1>5 DEF o
  <2> HIDE DEF m
  <2>3. l \in [1 .. m -> Seq(Words)]
    BY <2>1, <2>2 DEF Texts
  <2> QED BY <2>1, <2>3, FlattenType DEF Texts
<1>7. {"by", "ordered", "desc"} \cup WindowFns \subseteq Words
  BY WindowWordsAssumption DEF WindowWords
<1> DEFINE a == f.columns[w.col].name
           b == IF o = {} THEN <<>> ELSE <<"by">> \o flat
           c == IF w.order_by = Null THEN <<>> ELSE <<"ordered">> \o w.order_by
           d == <<w.function>>
           e == IF w.desc THEN <<"desc">> ELSE <<>>
<1>8. WindowName(f, w) = a \o b \o c \o d \o e
  BY DEF WindowName
<1> HIDE DEF o, flat
<1>9. <<"by">> \in Seq(Words) /\ <<"ordered">> \in Seq(Words) /\ <<"desc">> \in Seq(Words)
      /\ d \in Seq(Words) /\ <<>> \in Seq(Words)
  BY <1>7
<1>10. b \in Seq(Words)
  BY <1>6, <1>9 DEF Texts
<1>11. c \in Seq(Words)
  <2>1. w.order_by # Null => w.order_by \in Seq(Words)
    BY DEF Texts
  <2> DEFINE x == w.order_by
  <2> HIDE DEF x
  <2>2. x # Null => <<"ordered">> \o x \in Seq(Words)
    BY <2>1, <1>9 DEF x
  <2> QED BY <2>2, <1>9 DEF x
<1>12. e \in Seq(Words)
  BY <1>9
<1>13. a \in Seq(Words)
  BY <1>1 DEF Texts
<1> HIDE DEF a, b, c, d, e
<1>14. a \o b \o c \o d \o e \in Seq(Words)
  BY <1>9, <1>10, <1>11, <1>12, <1>13
<1> QED BY <1>8, <1>14 DEF Texts

-----------------------------------------------------------------------------
(* Window columns: their values.                                           *)

\* The values that the rows S have in a column.
Seen(rows, name, S) == {rows[j][name] : j \in S}

LEMMA ImageFinite ==
  ASSUME NEW n \in Nat, NEW S \in SUBSET (1 .. n), NEW rows, NEW name
  PROVE  IsFiniteSet(Seen(rows, name, S)) /\ Cardinality(Seen(rows, name, S)) \in Nat
<1> DEFINE T == {rows[j][name] : j \in S}
           g == [j \in S |-> rows[j][name]]
<1>1. IsFiniteSet(S)
  BY ListedFacts
<1>2. g \in Surjection(S, T)
  BY DEF Surjection
<1> HIDE DEF T, g
<1>3. IsFiniteSet(T)
  BY <1>1, <1>2, FS_Surjection
<1>4. Cardinality(T) \in Nat
  BY <1>3, FS_CardinalityType
<1> QED BY <1>3, <1>4 DEF T, Seen

LEMMA Extremes ==
  ASSUME NEW S \in SUBSET Int, IsFiniteSet(S), S # {}
  PROVE  /\ Min(S) \in S /\ \A y \in S : Min(S) <= y
         /\ Max(S) \in S /\ \A y \in S : Max(S) >= y
<1> DEFINE R == Ascending(S)
           m == Cardinality(S)
           p == InOrder(S, R)
<1>1. StrictTotalOrder(R, S)
  BY AscendingIsOrder
<1>2. m \in Nat /\ m # 0
  BY FS_CardinalityType, FS_EmptySet
<1> HIDE DEF R
<1>3. p \in Bijection(1 .. m, S)
  BY <1>1, InOrderBijection
<1>4. \A a, b \in 1 .. m : a < b => <<p[a], p[b]>> \in R
  BY <1>1, InOrderAscends
<1> HIDE DEF p, m
<1>5. /\ \A a \in 1 .. m : p[a] \in S
      /\ \A t \in S : \E a \in 1 .. m : p[a] = t
  BY <1>3, ListingFacts
<1>6. \A a, b \in 1 .. m : a < b => p[a] < p[b]
  BY <1>4, <1>5 DEF R, Ascending
<1>7. 1 \in 1 .. m /\ m \in 1 .. m
  BY <1>2
<1>8. \A t \in S : p[1] <= t /\ t <= p[m]
  <2> TAKE t \in S
  <2>1. PICK a \in 1 .. m : p[a] = t
    BY <1>5
  <2>2. a = 1 \/ 1 < a
    BY <1>2
  <2>3. a = m \/ a < m
    BY <1>2
  <2>4. p[1] \in Int /\ p[m] \in Int /\ t \in Int
    BY <1>5, <1>7
  <2> QED BY <1>6, <1>7, <2>1, <2>2, <2>3, <2>4
<1>9. p[1] \in S /\ p[m] \in S
  BY <1>5, <1>7
<1>10. /\ \E x \in S : \A y \in S : x <= y
       /\ \E x \in S : \A y \in S : x >= y
  BY <1>8, <1>9
<1> QED BY <1>10 DEF Min, Max

\* What a window's function gives at each row of a list whose column `name` has this type.
LEMMA EvaluateType ==
  ASSUME NEW n \in Nat, NEW rows, DOMAIN rows = 1 .. n, NEW name, NEW type \in Types,
         \A j \in 1 .. n : rows[j][name] \in Values(type), NEW w, w.function \in WindowFns,
         NeedsNumbers(w.function) \/ w.function \in {"min", "max"} => type # "text",
         NEW S \in SUBSET (1 .. n), NEW k \in 1 .. n
  PROVE  Evaluate(rows, name, w, S, k)
         \in IF w.function \in {"row_number", "rank", "dense_rank", "count"}
             THEN Values("number") ELSE Values(type)
<1> DEFINE v == rows[k][name]
           held == {j \in S : rows[j][name] # Null}
           values == {rows[j][name] : j \in held}
           better == {j \in held : KeyBefore(rows[j][name], v, w.desc)}
           ahead == {j \in S : j > k}
           before == {j \in S : j <= k}
           behind == {j \in S : j < k}
           ranks == {rows[j][name] : j \in better}
           value == Evaluate(rows, name, w, S, k)
<1>1. Values("number") = Int \cup {Null} /\ (type # "text" => Values(type) = Int \cup {Null})
      /\ Null \in Values(type)
  BY DEF Values
<1>2. /\ held \in SUBSET (1 .. n) /\ better \in SUBSET (1 .. n) /\ ahead \in SUBSET (1 .. n)
      /\ before \in SUBSET (1 .. n) /\ behind \in SUBSET (0 .. n) /\ behind \in SUBSET (1 .. n)
  <2>1. held \subseteq S /\ better \subseteq S
    OBVIOUS
  <2>2. ahead \subseteq S /\ before \subseteq S /\ behind \subseteq S
    OBVIOUS
  <2>3. S \subseteq 0 .. n
    OBVIOUS
  <2> HIDE DEF held, better, ahead, before, behind
  <2> QED BY <2>1, <2>2, <2>3
<1>3. CASE w.function = "row_number"
  <2>1. value = Cardinality(before)
    BY <1>3 DEF Evaluate
  <2> QED BY <1>1, <1>2, <1>3, <2>1, SubsetCount
<1>4. CASE w.function = "rank"
  <2>1. value = IF v = Null THEN Null ELSE Cardinality(better) + 1
    BY <1>4 DEF Evaluate
  <2>2. Cardinality(better) \in Nat
    <3> HIDE DEF better
    <3> QED BY <1>2, SubsetCount
  <2> QED BY <1>1, <1>4, <2>1, <2>2
<1>5. CASE w.function = "dense_rank"
  <2>1. value = IF v = Null THEN Null ELSE Cardinality(ranks) + 1
    BY <1>5 DEF Evaluate
  <2>2. Cardinality(ranks) \in Nat
    <3>1. ranks = Seen(rows, name, better)
      BY DEF Seen
    <3> HIDE DEF better, ranks
    <3>2. Cardinality(Seen(rows, name, better)) \in Nat
      BY <1>2, ImageFinite
    <3> QED BY <3>1, <3>2
  <2> HIDE DEF ranks, value
  <2>3. value \in Int \cup {Null}
    BY <2>1, <2>2
  <2> QED BY <1>1, <1>5, <2>3 DEF value
<1>6. CASE w.function = "cum_sum"
  <2>1. value = IF v = Null THEN Null ELSE SumOver(rows, before, name)
    BY <1>6 DEF Evaluate
  <2>2. type # "text"
    BY <1>6 DEF NeedsNumbers
  <2> HIDE DEF before
  <2>3. \A j \in 1 .. n : rows[j][name] \in Int \cup {Null}
    BY <1>1, <2>2
  <2>4. SumOver(rows, before, name) \in Int
    BY <2>3, AddendsType
  <2> QED BY <1>1, <1>6, <2>1, <2>2, <2>4
<1>7. CASE w.function = "lag"
  <2>1. value = At(rows, name, behind)
    BY <1>7 DEF Evaluate
  <2> HIDE DEF behind
  <2>2. behind # {} => Max(behind) \in 1 .. n
    BY <1>2, Greatest
  <2> QED BY <1>1, <1>7, <2>1, <2>2 DEF At
<1>8. CASE w.function = "lead"
  <2>1. value = IF ahead = {} THEN Null ELSE rows[Min(ahead)][name]
    BY <1>8 DEF Evaluate
  <2> HIDE DEF ahead
  <2>2. ahead # {} => Min(ahead) \in 1 .. n
    <3>1. ahead \in SUBSET (1 .. n)
      BY <1>2
    <3>2. IsFiniteSet(ahead) /\ ahead \in SUBSET Int
      BY <3>1, SubsetCount
    <3> QED BY <3>1, <3>2, Extremes
  <2> QED BY <1>1, <1>8, <2>1, <2>2
<1>9. CASE w.function = "sum"
  <2>1. value = SumOver(rows, S, name)
    BY <1>9 DEF Evaluate
  <2>2. type # "text"
    BY <1>9 DEF NeedsNumbers
  <2>3. \A j \in 1 .. n : rows[j][name] \in Int \cup {Null}
    BY <1>1, <2>2
  <2>4. SumOver(rows, S, name) \in Int
    BY <2>3, AddendsType
  <2> QED BY <1>1, <1>9, <2>1, <2>2, <2>4
<1>10. CASE w.function \in {"min", "max"}
  <2>1. value = IF values = {} THEN Null ELSE IF w.function = "min" THEN Min(values) ELSE Max(values)
    BY <1>10 DEF Evaluate
  <2>2. type # "text"
    BY <1>10
  <2>3. values \in SUBSET Int
    BY <1>1, <2>2
  <2>4. IsFiniteSet(values)
    <3>1. values = Seen(rows, name, held)
      BY DEF Seen
    <3> HIDE DEF held, values
    <3>2. IsFiniteSet(Seen(rows, name, held))
      BY <1>2, ImageFinite
    <3> QED BY <3>1, <3>2
  <2> HIDE DEF values
  <2>5. values # {} => Min(values) \in Int /\ Max(values) \in Int
    BY <2>3, <2>4, Extremes
  <2> QED BY <1>1, <1>10, <2>1, <2>2, <2>5
<1>11. CASE w.function = "count"
  <2>1. value = Cardinality(held)
    BY <1>11 DEF Evaluate
  <2>2. Cardinality(held) \in Nat
    <3> HIDE DEF held
    <3> QED BY <1>2, SubsetCount
  <2> QED BY <1>1, <1>11, <2>1, <2>2
<1> HIDE DEF value
<1> QED BY <1>3, <1>4, <1>5, <1>6, <1>7, <1>8, <1>9, <1>10, <1>11 DEF WindowFns, value

-----------------------------------------------------------------------------
(* Window columns: the table with one.                                     *)

\* What the dialogs can ask for, whichever columns and functions they offer.
WindowOK(f, w) ==
    /\ w.col \in DOMAIN f.columns
    /\ \A x \in w.over : HasColumn(f, x)
    /\ w.order_by # Null => \E j \in DOMAIN f.columns : /\ w.order_by = f.columns[j].name
                                                        /\ Numeric(f, j)
    /\ w.desc \in BOOLEAN
    /\ w.function \in WindowFns
    /\ w.function \in {"min", "max"} => Numeric(f, w.col)

LEMMA WindowsOfOK ==
  ASSUME NEW f, NEW w \in WindowsOf(f, Functions)
  PROVE  WindowOK(f, w)
<1>1. /\ w.function \in Functions /\ w.col \in DOMAIN f.columns
      /\ w.over \in {S \in Overs : \A n \in S : HasColumn(f, n)}
      /\ w.order_by \in {Null} \cup {f.columns[i].name : i \in {j \in DOMAIN f.columns : Numeric(f, j)}}
      /\ w.desc \in BOOLEAN
      /\ w.function \in {"rank", "dense_rank", "min", "max"} => Numeric(f, w.col)
  BY DEF WindowsOf
<1> QED BY <1>1, NamesAssumption DEF WindowOK

WindowOrder(f, w) ==
    IF w.order_by = Null THEN [k \in DOMAIN Visible(f) |-> k]
    ELSE Sorted(Visible(f), w.order_by, w.desc)
Staged(f, w) == [k \in DOMAIN Visible(f) |-> Visible(f)[WindowOrder(f, w)[k]]]
Computed(f, w, k) ==
    Evaluate(Staged(f, w), f.columns[w.col].name, w, GroupOf(Staged(f, w), w.over, k), k)

LEMMA WindowOrderBijection ==
  ASSUME NEW f, FrameOK(f), InStep(f), NEW w, WindowOK(f, w)
  PROVE  /\ WindowOrder(f, w) \in Bijection(1 .. Len(f.row_order), 1 .. Len(f.row_order))
         /\ DOMAIN WindowOrder(f, w) = 1 .. Len(f.row_order)
         /\ \A k \in 1 .. Len(f.row_order) : WindowOrder(f, w)[k] \in 1 .. Len(f.row_order)
         /\ \A k, l \in 1 .. Len(f.row_order) : WindowOrder(f, w)[k] = WindowOrder(f, w)[l] => k = l
         /\ \A k \in 1 .. Len(f.row_order) : \E l \in 1 .. Len(f.row_order) : WindowOrder(f, w)[l] = k
<1> DEFINE n == Len(f.row_order)
           p == WindowOrder(f, w)
<1>1. n \in Nat /\ DOMAIN Visible(f) = 1 .. n
  BY VisibleShape
<1>2. p \in Bijection(1 .. n, 1 .. n)
  <2>1. CASE w.order_by = Null
    <3>1. p = [k \in 1 .. n |-> k]
      BY <1>1, <2>1 DEF WindowOrder
    <3> HIDE DEF p, n
    <3> QED BY <3>1 DEF Bijection, Injection, Surjection, IsInjective
  <2>2. CASE w.order_by # Null
    <3>1. PICK j \in DOMAIN f.columns : w.order_by = f.columns[j].name /\ Numeric(f, j)
      BY <2>2 DEF WindowOK
    <3>2. p = Sorted(Visible(f), f.columns[j].name, w.desc)
      BY <2>2, <3>1 DEF WindowOrder
    <3>3. w.desc \in BOOLEAN
      BY DEF WindowOK
    <3> HIDE DEF p
    <3> QED BY <3>1, <3>2, <3>3, SortedBijection
  <2> QED BY <2>1, <2>2
<1> HIDE DEF p, n
<1>3. DOMAIN p = 1 .. n
  BY <1>2 DEF Bijection, Injection
<1>4. /\ \A k \in 1 .. n : p[k] \in 1 .. n
      /\ \A k, l \in 1 .. n : p[k] = p[l] => k = l
      /\ \A k \in 1 .. n : \E l \in 1 .. n : p[l] = k
  <2> DEFINE K == 1 .. n
  <2>1. p \in Bijection(1 .. n, K)
    BY <1>2
  <2> HIDE DEF K
  <2>2. /\ \A k \in 1 .. n : p[k] \in K
        /\ \A k, l \in 1 .. n : p[k] = p[l] => k = l
        /\ \A k \in K : \E l \in 1 .. n : p[l] = k
    BY <2>1, ListingFacts
  <2> QED BY <2>2 DEF K
<1> QED BY <1>2, <1>3, <1>4 DEF n, p

LEMMA StagedShape ==
  ASSUME NEW f, FrameOK(f), InStep(f), NEW w, WindowOK(f, w)
  PROVE  /\ DOMAIN Staged(f, w) = 1 .. Len(f.row_order)
         /\ \A k \in 1 .. Len(f.row_order) :
               /\ Staged(f, w)[k] = Visible(f)[WindowOrder(f, w)[k]]
               /\ WindowOrder(f, w)[k] \in DOMAIN f.row_order
<1>1. DOMAIN Visible(f) = 1 .. Len(f.row_order) /\ DOMAIN f.row_order = 1 .. Len(f.row_order)
  BY VisibleShape
<1>2. \A k \in 1 .. Len(f.row_order) : WindowOrder(f, w)[k] \in 1 .. Len(f.row_order)
  BY WindowOrderBijection
<1> QED BY <1>1, <1>2 DEF Staged

\* Each row gets what was computed where the window's order has put it.
LEMMA WindowValuesAre ==
  ASSUME NEW f, FrameOK(f), InStep(f), NEW w, WindowOK(f, w)
  PROVE  /\ DOMAIN WindowValues(f, w) = 1 .. Len(f.row_order)
         /\ \A k \in 1 .. Len(f.row_order) :
               WindowValues(f, w)[WindowOrder(f, w)[k]] = Computed(f, w, k)
<1> DEFINE n == Len(f.row_order)
           p == WindowOrder(f, w)
           c == [k \in 1 .. n |-> Computed(f, w, k)]
           v == WindowValues(f, w)
<1>1. n \in Nat /\ DOMAIN Visible(f) = 1 .. n
  BY VisibleShape
<1>2. /\ DOMAIN p = 1 .. n
      /\ \A k \in 1 .. n : p[k] \in 1 .. n
      /\ \A k, l \in 1 .. n : p[k] = p[l] => k = l
  BY WindowOrderBijection
<1>3. v = [k \in 1 .. n |-> c[CHOOSE j \in 1 .. n : p[j] = k]]
  <2> DEFINE rows == Visible(f)
             d == [k \in DOMAIN rows |-> Computed(f, w, k)]
  <2>1. v = [k \in DOMAIN rows |-> d[CHOOSE j \in DOMAIN p : p[j] = k]]
    BY Zenon DEF WindowValues, Computed, Staged, WindowOrder
  <2>2. d = c /\ DOMAIN rows = 1 .. n
    BY <1>1
  <2> HIDE DEF v, d, c, rows, p, n
  <2> QED BY <1>2, <2>1, <2>2
<1> HIDE DEF n, p, v
<1>4. \A k \in 1 .. n : (CHOOSE j \in 1 .. n : p[j] = p[k]) = k
  BY <1>2
<1>5. \A k \in 1 .. n : v[p[k]] = c[CHOOSE j \in 1 .. n : p[j] = p[k]]
  <2> HIDE DEF c
  <2> QED BY <1>2, <1>3
<1>6. \A k \in 1 .. n : v[p[k]] = Computed(f, w, k)
  BY <1>4, <1>5
<1> QED BY <1>3, <1>6 DEF n, p, v

LEMMA WindowValuesType ==
  ASSUME NEW f, FrameOK(f), InStep(f), NEW w, WindowOK(f, w),
         NeedsNumbers(w.function) => Numeric(f, w.col)
  PROVE  /\ OutputType(f, w) \in Types
         /\ \A k \in 1 .. Len(f.row_order) : WindowValues(f, w)[k] \in Values(OutputType(f, w))
<1> DEFINE n == Len(f.row_order)
           p == WindowOrder(f, w)
           rows == Staged(f, w)
           name == f.columns[w.col].name
           type == f.columns[w.col].type
           out == OutputType(f, w)
<1>1. n \in Nat /\ DOMAIN f.row_order = 1 .. n
  BY VisibleShape
<1>2. w.col \in DOMAIN f.columns /\ w.function \in WindowFns
      /\ (w.function \in {"min", "max"} => type # "text")
      /\ (NeedsNumbers(w.function) => type # "text")
  BY DEF WindowOK, Numeric
<1>3. type \in Types /\ "number" \in Types /\ "float" \in Types
  BY <1>2, RegularShape, EmptyIsValue
<1>4. DOMAIN rows = 1 .. n /\ \A k \in 1 .. n : rows[k] = Visible(f)[p[k]] /\ p[k] \in DOMAIN f.row_order
  BY StagedShape
<1>5. \A k \in 1 .. n : rows[k][name] \in Values(type)
  BY <1>2, <1>4, CellTypes
<1>6. IF w.function \in {"row_number", "rank", "dense_rank", "count"} THEN out = "number"
      ELSE out = type \/ (out = "float" /\ type = "number")
  BY DEF OutputType
<1>f. Values("float") = Values("number")
  BY DEF Values
<1>7. \A k \in 1 .. n : GroupOf(rows, w.over, k) \in SUBSET (1 .. n)
  BY <1>4 DEF GroupOf
<1>8. \A k \in 1 .. n : Computed(f, w, k) = Evaluate(rows, name, w, GroupOf(rows, w.over, k), k)
  BY DEF Computed
<1> HIDE DEF n, rows, name, type, out, p
<1>9. \A k \in 1 .. n : Computed(f, w, k) \in Values(out)
  <2> TAKE k \in 1 .. n
  <2> DEFINE S == GroupOf(rows, w.over, k)
  <2>1. S \in SUBSET (1 .. n)
    BY <1>7
  <2> HIDE DEF S
  <2>2. Evaluate(rows, name, w, S, k)
        \in IF w.function \in {"row_number", "rank", "dense_rank", "count"}
            THEN Values("number") ELSE Values(type)
    BY <1>1, <1>2, <1>3, <1>4, <1>5, <2>1, EvaluateType
  <2>3. Computed(f, w, k) = Evaluate(rows, name, w, S, k)
    BY <1>8 DEF S
  <2> QED BY <1>6, <1>f, <2>2, <2>3
<1>10. \A k \in 1 .. n : \E l \in 1 .. n : p[l] = k
  BY WindowOrderBijection DEF n, p
<1>11. \A k \in 1 .. n : WindowValues(f, w)[p[k]] = Computed(f, w, k)
  BY WindowValuesAre DEF n, p
<1>12. \A k \in 1 .. n : WindowValues(f, w)[k] \in Values(out)
  BY <1>9, <1>10, <1>11
<1>13. out \in Types
  BY <1>3, <1>6
<1> QED BY <1>12, <1>13 DEF n, out

\* A physical row's place on screen.
NewIndex(f, p) == CHOOSE k \in DOMAIN f.row_order : f.row_order[k] = p
CarriedOrder(f) == [k \in DOMAIN f.original_order |-> NewIndex(f, f.original_order[k])]
CarriedMarks(f) == {NewIndex(f, p) : p \in f.selected_rows \cap Range(f.row_order)}
WidenedVisible(f, w) ==
    [k \in DOMAIN WindowValues(f, w) |->
        Wider(Visible(f)[k], WindowName(f, w), WindowValues(f, w)[k])]
WindowColumns(f, w) == WidenedBy(f, w.col + 1, WindowName(f, w), OutputType(f, w))

LEMMA CarryOverIs ==
  ASSUME NEW f, FrameOK(f), NEW c, NEW r
  PROVE  CarryOver(f, FromParts(c, Names(c), r))
         = Framed(c, Names(c), r, [i \in DOMAIN r |-> i], CarriedOrder(f), CarriedMarks(f),
                  f.transposed)
<1> DEFINE d == Names(c)
           o == [i \in DOMAIN r |-> i]
           g == FromParts(c, d, r)
           kept == Retain(f.original_order, Range(f.row_order))
           s == CarriedMarks(f)
           t == f.transposed
           q == CarriedOrder(f)
<1>1. kept = f.original_order
  <2>1. f.original_order \in Seq(Nat) /\ Range(f.original_order) = Range(f.row_order)
    BY FrameIsParts DEF ListsOK
  <2> DEFINE a == f.original_order
             b == Range(f.row_order)
  <2>2. a \in Seq(Nat) /\ Range(a) \subseteq b
    BY <2>1
  <2> HIDE DEF a, b
  <2>3. Retain(a, b) = a
    BY <2>2, RetainAll
  <2> QED BY <2>3 DEF a, b
<1>2. CarryOver(f, g)
      = [g EXCEPT !.original_order = [k \in DOMAIN kept |-> NewIndex(f, kept[k])],
                  !.selected_rows = {NewIndex(f, p) : p \in f.selected_rows \cap Range(f.row_order)},
                  !.transposed = f.transposed]
  BY DEF CarryOver, NewIndex
<1>3. [k \in DOMAIN kept |-> NewIndex(f, kept[k])] = q
  BY <1>1 DEF CarriedOrder
<1>4. {NewIndex(f, p) : p \in f.selected_rows \cap Range(f.row_order)} = s
  BY DEF CarriedMarks
<1> DEFINE none == {}
           no == FALSE
<1>5. g = Framed(c, d, r, o, o, none, no)
  BY DEF FromParts, Framed
<1> HIDE DEF d, o, g, kept, s, t, q, none, no
<1>6. CarryOver(f, g) = [g EXCEPT !.original_order = q, !.selected_rows = s, !.transposed = t]
  BY <1>2, <1>3, <1>4 DEF t
<1> DEFINE h == [g EXCEPT !.original_order = q]
           i == [h EXCEPT !.selected_rows = s]
           j == [i EXCEPT !.transposed = t]
<1>7. CarryOver(f, g) = j
  BY <1>6
<1> HIDE DEF j
<1>8. h = Framed(c, d, r, o, q, none, no)
  <2> HIDE DEF i
  <2> QED BY <1>5 DEF Framed
<1> HIDE DEF h
<1>9. i = Framed(c, d, r, o, q, s, no)
  BY <1>8 DEF Framed
<1> USE DEF j
<1> HIDE DEF i
<1>10. j = Framed(c, d, r, o, q, s, t)
  BY <1>9 DEF Framed
<1> HIDE DEF j
<1> QED BY <1>7, <1>10 DEF g, d, o, q, s, t

LEMMA AddWindowParts ==
  ASSUME NEW f, FrameOK(f), NEW w, AddWindowColumn(f, w) # Refused
  PROVE  /\ ~HasColumn(f, WindowName(f, w))
         /\ NeedsNumbers(w.function) => Numeric(f, w.col)
         /\ AddWindowColumn(f, w)
            = Framed(WindowColumns(f, w), Names(WindowColumns(f, w)), WidenedVisible(f, w),
                     [k \in DOMAIN WidenedVisible(f, w) |-> k], CarriedOrder(f), CarriedMarks(f),
                     f.transposed)
<1> DEFINE c == WindowColumns(f, w)
           r == WidenedVisible(f, w)
           g == FromParts(c, Names(c), r)
<1>1. /\ ~HasColumn(f, WindowName(f, w))
      /\ NeedsNumbers(w.function) => Numeric(f, w.col)
      /\ WithWindowColumn(f, w) = g
  BY DEF AddWindowColumn, WithWindowColumn, WindowColumns, WidenedBy, WidenedVisible
<1>2. AddWindowColumn(f, w) = CarryOver(f, g)
  BY <1>1 DEF AddWindowColumn
<1> HIDE DEF c, r
<1>3. CarryOver(f, g)
      = Framed(c, Names(c), r, [k \in DOMAIN r |-> k], CarriedOrder(f), CarriedMarks(f), f.transposed)
  BY CarryOverIs
<1> QED BY <1>1, <1>2, <1>3 DEF c, r

LEMMA NewIndexFacts ==
  ASSUME NEW f, FrameOK(f)
  PROVE  \A p \in Range(f.row_order) : /\ NewIndex(f, p) \in DOMAIN f.row_order
                                       /\ f.row_order[NewIndex(f, p)] = p
<1> TAKE p \in Range(f.row_order)
<1>1. \E k \in DOMAIN f.row_order : f.row_order[k] = p
  BY InRange
<1> QED BY <1>1 DEF NewIndex

LEMMA CarriedLists ==
  ASSUME NEW f, FrameOK(f), NEW r, DOMAIN r = DOMAIN f.row_order
  PROVE  ListsOK(r, [k \in DOMAIN r |-> k], CarriedOrder(f), CarriedMarks(f))
<1> DEFINE n == Len(f.row_order)
           g == f.original_order
           q == CarriedOrder(f)
           s == CarriedMarks(f)
           o == [k \in DOMAIN r |-> k]
<1>1. n \in Nat /\ DOMAIN f.row_order = 1 .. n
  BY VisibleShape
<1>2. \A p \in Range(f.row_order) : NewIndex(f, p) \in 1 .. n /\ f.row_order[NewIndex(f, p)] = p
  BY <1>1, NewIndexFacts
<1>3. /\ g \in Seq(Nat) /\ Range(g) = Range(f.row_order) /\ Distinct(g) /\ Distinct(f.row_order)
  BY FrameIsParts DEF ListsOK
<1>4. DOMAIN g = 1 .. Len(g) /\ Len(g) \in Nat /\ \A k \in DOMAIN g : g[k] \in Range(f.row_order)
  BY <1>3, SeqFacts
<1>5. q = [k \in 1 .. Len(g) |-> NewIndex(f, g[k])]
  BY <1>4 DEF CarriedOrder
<1>6. s \in SUBSET (1 .. n)
  BY <1>2 DEF CarriedMarks
<1>7. o \in Seq(Nat) /\ Distinct(o) /\ Range(o) = 1 .. n
  <2>1. o = [k \in 1 .. n |-> k]
    BY <1>1
  <2> HIDE DEF o, n
  <2>2. o \in Seq(Nat) /\ Distinct(o) /\ DOMAIN o = 1 .. n /\ \A k \in 1 .. n : o[k] = k
    BY <1>1, <2>1 DEF Distinct
  <2>3. \A x : x \in Range(o) <=> \E k \in DOMAIN o : o[k] = x
    BY InRange
  <2>4. Range(o) = 1 .. n
    BY <2>2, <2>3
  <2> QED BY <2>2, <2>4
<1> HIDE DEF g, n, q, s, o
<1>8. q \in Seq(Nat) /\ DOMAIN q = DOMAIN g /\ \A k \in DOMAIN g : q[k] = NewIndex(f, g[k]) /\ q[k] \in 1 .. n
  BY <1>1, <1>2, <1>4, <1>5
<1>9. Distinct(q)
  <2> SUFFICES ASSUME NEW i \in DOMAIN g, NEW j \in DOMAIN g, q[i] = q[j] PROVE i = j
    BY <1>8 DEF Distinct
  <2>1. g[i] = g[j]
    BY <1>2, <1>4, <1>8
  <2> QED BY <2>1, <1>3 DEF Distinct
<1>10. Range(q) = 1 .. n
  <2>1. ASSUME NEW k \in 1 .. n PROVE k \in Range(q)
    <3> DEFINE p == f.row_order[k]
    <3>1. p \in Range(f.row_order)
      BY <1>1, InRange
    <3>2. PICK i \in DOMAIN g : g[i] = p
      BY <3>1, <1>3, InRange
    <3>3. f.row_order[q[i]] = f.row_order[k] /\ q[i] \in 1 .. n
      BY <3>1, <3>2, <1>2, <1>8
    <3>4. q[i] = k
      BY <3>3, <1>1, <1>3 DEF Distinct
    <3> QED BY <3>2, <3>4, <1>8, InRange
  <2>2. Range(q) \subseteq 1 .. n
    BY <1>8, InRange
  <2> QED BY <2>1, <2>2
<1>11. DOMAIN r = 1 .. n
  BY <1>1
<1>12. ListsOK(r, o, q, s)
  BY <1>6, <1>7, <1>8, <1>9, <1>10, <1>11, <1>1 DEF ListsOK
<1> QED BY <1>12 DEF o, q, s

LEMMA WindowWidens ==
  ASSUME NEW f, FrameOK(f), InStep(f), NEW w, WindowOK(f, w), AddWindowColumn(f, w) # Refused
  PROVE  /\ w.col + 1 \in 1 .. Len(f.columns) + 1
         /\ WindowName(f, w) \in Texts /\ WindowName(f, w) \notin Range(f.df)
         /\ OutputType(f, w) \in Types
         /\ WidenedRows(f, WidenedVisible(f, w), Visible(f), WindowValues(f, w),
                        WindowName(f, w), OutputType(f, w))
         /\ DOMAIN WidenedVisible(f, w) = DOMAIN f.row_order
<1> DEFINE name == WindowName(f, w)
           type == OutputType(f, w)
           r == WidenedVisible(f, w)
           v == WindowValues(f, w)
           n == Len(f.row_order)
<1>1. /\ w.col \in DOMAIN f.columns /\ w.function \in WindowFns
      /\ \A x \in w.over : HasColumn(f, x)
      /\ w.order_by \in Texts \cup {Null}
  BY RegularShape DEF WindowOK
<1>2. w.col + 1 \in 1 .. Len(f.columns) + 1
  BY <1>1, RegularShape
<1>3. name \in Texts
  BY <1>1, WindowNameIsText
<1>4. ~HasColumn(f, name) /\ (NeedsNumbers(w.function) => Numeric(f, w.col))
  BY AddWindowParts
<1>5. name \notin Range(f.df)
  BY <1>4, RegularShape DEF HasColumn, Positions
<1>6. type \in Types /\ \A k \in 1 .. n : v[k] \in Values(type)
  BY <1>4, WindowValuesType
<1>7. DOMAIN v = 1 .. n
  BY WindowValuesAre
<1>8. n \in Nat /\ DOMAIN f.row_order = 1 .. n /\ DOMAIN Visible(f) = 1 .. n
      /\ \A k \in DOMAIN f.row_order : DOMAIN Visible(f)[k] = Range(f.df)
  BY VisibleShape
<1>9. \A k \in 1 .. n, i \in DOMAIN f.columns :
         Visible(f)[k][f.columns[i].name] \in Values(f.columns[i].type)
  BY <1>8, CellTypes
<1>10. r = [k \in 1 .. n |-> Wider(Visible(f)[k], name, v[k])]
  BY <1>7 DEF WidenedVisible
<1> HIDE DEF name, type, v, n, r
<1>11. DOMAIN r = 1 .. n /\ r = [k \in 1 .. n |-> r[k]]
       /\ \A k \in 1 .. n : r[k] = Wider(Visible(f)[k], name, v[k])
  BY <1>10
<1>12. IsList(r)
  BY <1>8, <1>11, ListFromTo
<1>13. WidenedRows(f, r, Visible(f), v, name, type)
  BY <1>6, <1>8, <1>9, <1>11, <1>12 DEF WidenedRows
<1> QED BY <1>2, <1>3, <1>5, <1>6, <1>8, <1>11, <1>13 DEF name, type, v, r

LEMMA WindowKeeps ==
  ASSUME NEW f, FrameOK(f), InStep(f), NEW w, WindowOK(f, w), AddWindowColumn(f, w) # Refused
  PROVE  FrameOK(AddWindowColumn(f, w)) /\ InStep(AddWindowColumn(f, w))
<1> DEFINE name == WindowName(f, w)
           type == OutputType(f, w)
           at == w.col + 1
           r == WidenedVisible(f, w)
           v == WindowValues(f, w)
           e == Visible(f)
           c == WidenedBy(f, at, name, type)
           d == Names(c)
           o == [k \in DOMAIN r |-> k]
           q == CarriedOrder(f)
           s == CarriedMarks(f)
           h == Framed(c, d, r, o, q, s, f.transposed)
<1>1. /\ at \in 1 .. Len(f.columns) + 1 /\ name \in Texts /\ name \notin Range(f.df)
      /\ type \in Types /\ WidenedRows(f, r, e, v, name, type) /\ DOMAIN r = DOMAIN f.row_order
  BY WindowWidens
<1>2. AddWindowColumn(f, w) = h
  BY AddWindowParts DEF WindowColumns
<1>3. f.transposed \in BOOLEAN
  BY FrameIsParts
<1> HIDE DEF name, type, at, r, v, e, c, q, s
<1>4. TableOK(c, d, r) /\ c # <<>>
  BY <1>1, WidenedTable, WidenedHeaders DEF c
<1>5. ListsOK(r, o, q, s)
  BY <1>1, CarriedLists DEF q, s
<1> HIDE DEF d, o
<1>6. FrameOK(h)
  BY <1>3, <1>4, <1>5, PartsAreFrame
<1>7. h.columns = c /\ h.df = d
  BY DEF Framed
<1> QED BY <1>2, <1>6, <1>7 DEF InStep, d

\* Retaining all but what was inserted.
LEMMA RetainInserted ==
  ASSUME NEW T, NEW s \in Seq(T), NEW e, NEW at \in 1 .. Len(s) + 1,
         NEW keep, Range(s) \subseteq keep, e \notin keep
  PROVE  Retain(Insert(s, at, e), keep) = s
<1> DEFINE n == Len(s)
           u == Insert(s, at, e)
           K == {i \in DOMAIN u : u[i] \in keep}
           L == (1 .. n + 1) \ {at}
           to(k) == IF k < at THEN k ELSE k + 1
           order == InOrder(K, Ascending(K))
<1>1. n \in Nat /\ DOMAIN s = 1 .. n /\ at \in 1 .. n + 1 /\ \A k \in 1 .. n : s[k] \in keep
  <2>1. n \in Nat /\ DOMAIN s = 1 .. n
    OBVIOUS
  <2> QED BY <2>1, InRange
<1>2. /\ DOMAIN u = 1 .. n + 1 /\ u[at] = e
      /\ \A k \in 1 .. n : to(k) \in 1 .. n + 1 /\ to(k) # at /\ u[to(k)] = s[k]
      /\ \A i \in 1 .. n + 1 : i # at => \E k \in 1 .. n : to(k) = i
  <2>1. DOMAIN u = 1 .. n + 1 /\ u[at] = e
    BY <1>1 DEF Insert
  <2>2. ASSUME NEW k \in 1 .. n PROVE to(k) \in 1 .. n + 1 /\ to(k) # at /\ u[to(k)] = s[k]
    BY <1>1 DEF Insert
  <2>3. ASSUME NEW i \in 1 .. n + 1, i # at PROVE \E k \in 1 .. n : to(k) = i
    <3> DEFINE k == IF i < at THEN i ELSE i - 1
    <3>1. k \in 1 .. n /\ to(k) = i
      BY <1>1, <2>3
    <3> QED BY <3>1
  <2> QED BY <2>1, <2>2, <2>3
<1> HIDE DEF u
<1>3. K = L
  <2>1. \A i \in 1 .. n + 1 : u[i] \in keep <=> i # at
    <3> TAKE i \in 1 .. n + 1
    <3>1. CASE i = at
      BY <3>1, <1>2
    <3>2. CASE i # at
      <4>1. PICK k \in 1 .. n : to(k) = i
        BY <3>2, <1>2
      <4> QED BY <4>1, <3>2, <1>1, <1>2
    <3> QED BY <3>1, <3>2
  <2> QED BY <2>1, <1>2
<1>4. IsFiniteSet(L) /\ Cardinality(L) = n
  <2> DEFINE I == 1 .. n + 1
  <2>0. n + 1 \in Nat /\ (n + 1) - 1 = n
    BY <1>1
  <2>1. IsFiniteSet(I) /\ Cardinality(I) = n + 1
    BY <2>0, FS_Interval
  <2>2. at \in I
    BY <1>1
  <2> HIDE DEF I
  <2>3. IsFiniteSet(I \ {at}) /\ Cardinality(I \ {at}) = Cardinality(I) - 1
    BY <2>1, <2>2, FS_RemoveElement
  <2> QED BY <2>0, <2>1, <2>3 DEF I
<1> HIDE DEF n
<1>5. \A k \in 1 .. n : Rank(L, Ascending(L), to(k)) = k - 1
  <2> TAKE k \in 1 .. n
  <2> DEFINE B == {j \in L : <<j, to(k)>> \in Ascending(L)}
  <2>1. to(k) \in L
    BY <1>2
  <2>2. B = {j \in L : j < to(k)}
    BY <2>1 DEF Ascending
  <2>3. CASE k < at
    <3>0. to(k) = k
      BY <2>3
    <3>1. B = 1 .. k - 1
      <4> HIDE DEF B, to
      <4>1. \A j : j \in B <=> j \in 1 .. k - 1
        BY <2>2, <2>3, <3>0, <1>1
      <4> QED BY <4>1
    <3>2. Cardinality(1 .. k - 1) = k - 1
      <4>1. k - 1 \in Nat
        BY <1>1
      <4> QED BY <4>1, FS_Interval
    <3> HIDE DEF B
    <3> QED BY <3>1, <3>2 DEF Rank, B
  <2>4. CASE ~(k < at)
    <3>0. to(k) = k + 1
      BY <2>4
    <3>1. B = (1 .. k) \ {at}
      <4> HIDE DEF B, to
      <4>1. \A j : j \in B <=> j \in (1 .. k) \ {at}
        BY <2>2, <2>4, <3>0, <1>1
      <4> QED BY <4>1
    <3>2. IsFiniteSet(1 .. k) /\ Cardinality(1 .. k) = k /\ at \in 1 .. k
      <4>1. k \in Nat /\ at \in 1 .. k
        BY <2>4, <1>1
      <4> QED BY <4>1, FS_Interval
    <3>3. Cardinality((1 .. k) \ {at}) = k - 1
      BY <3>2, FS_RemoveElement
    <3> HIDE DEF B
    <3> QED BY <3>1, <3>3 DEF Rank, B
  <2> QED BY <2>3, <2>4
<1>6. \A k \in 1 .. n : InOrder(L, Ascending(L))[k] = to(k)
  <2> TAKE k \in 1 .. n
  <2>1. InOrder(L, Ascending(L))[k] = CHOOSE i \in L : Rank(L, Ascending(L), i) = k - 1
    BY <1>4 DEF InOrder
  <2>2. \A i \in L : Rank(L, Ascending(L), i) = k - 1 <=> i = to(k)
    <3> TAKE i \in L
    <3>1. PICK j \in 1 .. n : to(j) = i
      BY <1>2
    <3>2. Rank(L, Ascending(L), i) = j - 1 /\ Rank(L, Ascending(L), to(k)) = k - 1
      BY <3>1, <1>5
    <3>3. j - 1 = k - 1 <=> j = k
      BY <1>1
    <3>4. j # k => to(j) # to(k)
      BY <1>1
    <3> QED BY <3>1, <3>2, <3>3, <3>4
  <2>3. to(k) \in L
    BY <1>2
  <2> HIDE DEF to, L
  <2> QED BY <2>1, <2>2, <2>3
<1>7. Retain(u, keep) = [k \in 1 .. n |-> u[InOrder(L, Ascending(L))[k]]]
  BY <1>3, <1>4 DEF Retain
<1>8. [k \in 1 .. n |-> u[InOrder(L, Ascending(L))[k]]] = [k \in 1 .. n |-> s[k]]
  <2>1. \A k \in 1 .. n : u[InOrder(L, Ascending(L))[k]] = s[k]
    BY <1>2, <1>6
  <2> QED BY <2>1
<1>9. s = [k \in 1 .. n |-> s[k]]
  BY <1>1
<1> QED BY <1>7, <1>8, <1>9 DEF u

\* A window leaves the table's rows, their order, the marks and the other columns.
LEMMA WindowLeavesTable ==
  ASSUME NEW f, FrameOK(f), InStep(f), NEW w, WindowOK(f, w), AddWindowColumn(f, w) # Refused
  PROVE  SameTable(f, AddWindowColumn(f, w))
<1> DEFINE g == AddWindowColumn(f, w)
           n == Len(f.row_order)
           name == WindowName(f, w)
           v == WindowValues(f, w)
           r == WidenedVisible(f, w)
           c == WindowColumns(f, w)
           names == Range(f.df)
           q == CarriedOrder(f)
           s == CarriedMarks(f)
<1>1. /\ w.col + 1 \in 1 .. Len(f.columns) + 1
      /\ name \in Texts /\ name \notin names /\ OutputType(f, w) \in Types
      /\ DOMAIN r = DOMAIN f.row_order
  BY WindowWidens
<1>2. g = Framed(c, Names(c), r, [k \in DOMAIN r |-> k], q, s, f.transposed)
  BY AddWindowParts
<1>3. /\ n \in Nat /\ DOMAIN f.row_order = 1 .. n
      /\ \A k \in 1 .. n : /\ Visible(f)[k] = f.rows[f.row_order[k]]
                           /\ DOMAIN Visible(f)[k] = names
                           /\ f.row_order[k] \in Range(f.row_order)
  BY VisibleShape, InRange
<1>4. \A k \in 1 .. n : r[k] = Wider(Visible(f)[k], name, v[k])
  <2>1. DOMAIN v = 1 .. n
    BY WindowValuesAre
  <2> QED BY <2>1 DEF WidenedVisible
<1>5. \A k \in 1 .. n : KeyOf(r[k], names) = KeyOf(f.rows[f.row_order[k]], names)
  <2> TAKE k \in 1 .. n
  <2> DEFINE e == Visible(f)[k]
             x == v[k]
  <2>1. r[k] = Wider(e, name, x) /\ DOMAIN e = names /\ e = f.rows[f.row_order[k]]
    BY <1>3, <1>4
  <2> HIDE DEF e, x, r, names, name
  <2>2. \A y \in names : Wider(e, name, x)[y] = e[y]
    BY <2>1 DEF Wider
  <2>3. KeyOf(Wider(e, name, x), names) = [y \in names |-> Wider(e, name, x)[y]]
        /\ KeyOf(e, names) = [y \in names |-> e[y]]
    BY DEF KeyOf
  <2>4. KeyOf(Wider(e, name, x), names) = KeyOf(e, names)
    BY <2>2, <2>3
  <2> QED BY <2>1, <2>4
<1>6. /\ \A p \in Range(f.row_order) : NewIndex(f, p) \in 1 .. n /\ f.row_order[NewIndex(f, p)] = p
      /\ Distinct(f.row_order) /\ Range(f.original_order) = Range(f.row_order)
      /\ f.original_order \in Seq(Nat)
  BY <1>3, NewIndexFacts, FrameIsParts DEF ListsOK
<1>7. DOMAIN q = DOMAIN f.original_order
      /\ \A k \in DOMAIN q : q[k] = NewIndex(f, f.original_order[k])
  BY DEF CarriedOrder
<1>8. Names(c) = Insert(f.df, w.col + 1, name)
  BY <1>1, WidenedHeaders DEF WindowColumns
<1> HIDE DEF g, n, name, v, r, c, names, q, s
<1>9. /\ g.rows = r /\ g.row_order = [k \in 1 .. n |-> k] /\ g.original_order = q
      /\ g.selected_rows = s /\ g.columns = c
  BY <1>1, <1>2, <1>3 DEF Framed
<1>10. Cells(g, g.row_order, names) = Cells(f, f.row_order, names)
  <2>1. Cells(g, g.row_order, names) = [k \in 1 .. n |-> KeyOf(r[k], names)]
    <3>1. DOMAIN g.row_order = 1 .. n /\ \A k \in 1 .. n : g.row_order[k] = k
      BY <1>9
    <3>2. Cells(g, g.row_order, names) = [k \in 1 .. n |-> KeyOf(r[g.row_order[k]], names)]
      BY <3>1, <1>9 DEF Cells
    <3> QED BY <3>1, <3>2
  <2>2. Cells(f, f.row_order, names) = [k \in 1 .. n |-> KeyOf(f.rows[f.row_order[k]], names)]
    BY <1>3 DEF Cells
  <2> QED BY <2>1, <2>2, <1>5
<1>11. Cells(g, g.original_order, names) = Cells(f, f.original_order, names)
  <2> DEFINE o == f.original_order
  <2>1. \A k \in DOMAIN o : o[k] \in Range(f.row_order)
    BY <1>6, InRange
  <2>2. Cells(g, q, names) = [k \in DOMAIN o |-> KeyOf(r[q[k]], names)]
    BY <1>7, <1>9 DEF Cells
  <2>3. Cells(f, o, names) = [k \in DOMAIN o |-> KeyOf(f.rows[o[k]], names)]
    BY DEF Cells
  <2>4. \A k \in DOMAIN o : KeyOf(r[q[k]], names) = KeyOf(f.rows[o[k]], names)
    <3> TAKE k \in DOMAIN o
    <3>1. q[k] \in 1 .. n /\ f.row_order[q[k]] = o[k]
      BY <2>1, <1>6, <1>7
    <3>2. KeyOf(r[q[k]], names) = KeyOf(f.rows[f.row_order[q[k]]], names)
      BY <3>1, <1>5
    <3> QED BY <3>1, <3>2
  <2> HIDE DEF o
  <2>5. Cells(g, q, names) = Cells(f, o, names)
    BY <2>2, <2>3, <2>4
  <2> QED BY <2>5, <1>9 DEF o
<1>12. Marked(g) = Marked(f)
  <2>1. ASSUME NEW k \in 1 .. n PROVE k \in s <=> f.row_order[k] \in f.selected_rows
    <3>1. ASSUME k \in s PROVE f.row_order[k] \in f.selected_rows
      <4>1. PICK p \in f.selected_rows \cap Range(f.row_order) : k = NewIndex(f, p)
        BY <3>1 DEF s, CarriedMarks
      <4> QED BY <4>1, <1>6
    <3>2. ASSUME f.row_order[k] \in f.selected_rows PROVE k \in s
      <4> DEFINE p == f.row_order[k]
      <4>1. p \in f.selected_rows \cap Range(f.row_order)
        BY <3>2, <1>3
      <4>2. NewIndex(f, p) = k
        <5>1. NewIndex(f, p) \in 1 .. n /\ f.row_order[NewIndex(f, p)] = f.row_order[k]
          BY <4>1, <1>6
        <5> QED BY <5>1, <1>3, <1>6 DEF Distinct
      <4> QED BY <4>1, <4>2 DEF s, CarriedMarks
    <3> QED BY <3>1, <3>2
  <2>2. Marked(g) = {k \in 1 .. n : k \in s}
    BY <1>9 DEF Marked
  <2>3. Marked(f) = {k \in 1 .. n : f.row_order[k] \in f.selected_rows}
    BY <1>3 DEF Marked
  <2> QED BY <2>1, <2>2, <2>3
<1>13. Names(f.columns) = Retain(Names(g.columns), names)
  <2> DEFINE at == w.col + 1
             d == f.df
  <2>1. d \in Seq(Texts) /\ at \in 1 .. Len(d) + 1 /\ Names(f.columns) = d
    BY <1>1, RegularShape DEF InStep
  <2>2. Range(d) \subseteq names /\ name \notin names
    BY <1>1 DEF names
  <2>3. Names(g.columns) = Insert(d, at, name)
    BY <1>8, <1>9
  <2> HIDE DEF d, at
  <2>4. Retain(Insert(d, at, name), names) = d
    BY <2>1, <2>2, RetainInserted
  <2> QED BY <2>1, <2>3, <2>4
<1>14. SameTable(f, g) <=> /\ Cells(g, g.row_order, names) = Cells(f, f.row_order, names)
                           /\ Cells(g, g.original_order, names) = Cells(f, f.original_order, names)
                           /\ Marked(g) = Marked(f)
                           /\ Names(f.columns) = Retain(Names(g.columns), names)
  BY DEF SameTable, names
<1> QED BY <1>10, <1>11, <1>12, <1>13, <1>14 DEF g

-----------------------------------------------------------------------------
(* Nothing is lost between groups.                                         *)

LEMMA FirstOfEach ==
  ASSUME NEW n \in Nat, NEW rows, DOMAIN rows = 1 .. n, NEW keys
  PROVE  /\ \A j \in 1 .. n : \E i \in FirstOfGroups(rows, keys) :
               KeyOf(rows[i], keys) = KeyOf(rows[j], keys)
         /\ \A a, b \in FirstOfGroups(rows, keys) :
               KeyOf(rows[a], keys) = KeyOf(rows[b], keys) => a = b
<1> DEFINE key(i) == KeyOf(rows[i], keys)
           firsts == FirstOfGroups(rows, keys)
<1>1. firsts = {i \in 1 .. n : \A j \in 1 .. i - 1 : key(j) # key(i)}
  BY DEF FirstOfGroups
<1> HIDE DEF key, firsts
<1>2. ASSUME NEW j \in 1 .. n PROVE \E i \in firsts : key(i) = key(j)
  <2> DEFINE T == {i \in 1 .. n : key(i) = key(j)}
  <2>1. T \in SUBSET Nat /\ j \in T
    OBVIOUS
  <2> HIDE DEF T
  <2>2. PICK x \in T : \A y \in T : x <= y
    BY <2>1, LeastNatural
  <2>3. x \in 1 .. n /\ key(x) = key(j)
    BY DEF T
  <2>4. \A i \in 1 .. x - 1 : key(i) # key(x)
    <3> SUFFICES ASSUME NEW i \in 1 .. x - 1, key(i) = key(x) PROVE FALSE
      OBVIOUS
    <3>1. i \in T
      BY <2>3 DEF T
    <3>2. x <= i
      BY <3>1, <2>2
    <3> QED BY <3>2, <2>3
  <2> QED BY <2>3, <2>4, <1>1
<1>3. ASSUME NEW a \in firsts, NEW b \in firsts, key(a) = key(b) PROVE a = b
  <2>1. a \in 1 .. n /\ b \in 1 .. n
        /\ (\A j \in 1 .. a - 1 : key(j) # key(a)) /\ (\A j \in 1 .. b - 1 : key(j) # key(b))
    BY <1>1
  <2>2. ~(a < b) /\ ~(b < a)
    BY <2>1, <1>3
  <2> QED BY <2>1, <2>2
<1> QED BY <1>2, <1>3 DEF key, firsts

\* A list of one row of each group.
Lists(rows, keys, m, p) ==
    /\ m \in Nat
    /\ \A a \in 1 .. m : p[a] \in FirstOfGroups(rows, keys)
    /\ \A a, b \in 1 .. m : p[a] = p[b] => a = b
    /\ \A t \in FirstOfGroups(rows, keys) : \E a \in 1 .. m : p[a] = t

InGroup(n, rows, keys, i, v) == [j \in 1 .. n |-> IF j \in GroupOf(rows, keys, i) THEN v[j] ELSE 0]
GroupSums(n, rows, keys, m, p, v) == [k \in 1 .. m |-> SumOf(InGroup(n, rows, keys, p[k], v))]

LEMMA SumByGroups ==
  ASSUME NEW n \in Nat, NEW rows, DOMAIN rows = 1 .. n, NEW keys, NEW m, NEW p,
         Lists(rows, keys, m, p), NEW v \in [1 .. n -> Int]
  PROVE  SumOf(GroupSums(n, rows, keys, m, p, v)) = SumOf(v)
<1> DEFINE key(i) == KeyOf(rows[i], keys)
           firsts == FirstOfGroups(rows, keys)
           part == [j \in 1 .. n |-> CHOOSE k \in 1 .. m : key(p[k]) = key(j)]
<1>1. /\ m \in Nat
      /\ \A a \in 1 .. m : p[a] \in firsts
      /\ \A a, b \in 1 .. m : p[a] = p[b] => a = b
      /\ \A t \in firsts : \E a \in 1 .. m : p[a] = t
  BY DEF Lists
<1>2. /\ \A j \in 1 .. n : \E i \in firsts : key(i) = key(j)
      /\ \A a, b \in firsts : key(a) = key(b) => a = b
  BY FirstOfEach
<1>3. \A k \in 1 .. m, j \in 1 .. n : j \in GroupOf(rows, keys, p[k]) <=> key(j) = key(p[k])
  BY DEF GroupOf
<1> HIDE DEF key, firsts
<1>4. \A j \in 1 .. n : \E k \in 1 .. m : key(p[k]) = key(j)
  <2> TAKE j \in 1 .. n
  <2>1. PICK i \in firsts : key(i) = key(j)
    BY <1>2
  <2>2. PICK k \in 1 .. m : p[k] = i
    BY <1>1
  <2> QED BY <2>1, <2>2
<1>5. \A j \in 1 .. n : part[j] \in 1 .. m /\ key(p[part[j]]) = key(j)
  BY <1>4
<1>6. part \in [1 .. n -> 1 .. m]
  BY <1>5
<1> HIDE DEF part
<1>7. \A k \in 1 .. m, j \in 1 .. n : j \in GroupOf(rows, keys, p[k]) <=> part[j] = k
  <2> TAKE k \in 1 .. m, j \in 1 .. n
  <2>1. part[j] \in 1 .. m /\ key(p[part[j]]) = key(j)
    BY <1>5
  <2>2. key(p[part[j]]) = key(p[k]) => part[j] = k
    BY <2>1, <1>1, <1>2
  <2> QED BY <2>1, <2>2, <1>3
<1>8. \A k \in 1 .. m : SumOf(InGroup(n, rows, keys, p[k], v)) = PartSum(n, v, part, k)
  <2> TAKE k \in 1 .. m
  <2>1. InGroup(n, rows, keys, p[k], v) = [j \in 1 .. n |-> IF part[j] = k THEN v[j] ELSE 0]
    BY <1>7 DEF InGroup
  <2> QED BY <2>1 DEF PartSum
<1>9. GroupSums(n, rows, keys, m, p, v) = [k \in 1 .. m |-> PartSum(n, v, part, k)]
  BY <1>8 DEF GroupSums
<1>10. SumOf([k \in 1 .. m |-> PartSum(n, v, part, k)]) = SumOf(v)
  <2>1. m \in Nat
    BY <1>1
  <2> QED BY <2>1, <1>6, SumByParts
<1> QED BY <1>9, <1>10

\* Lines that hold the sums over their groups hold the sum over all rows.
AddsUpGroups(n, rows, keys, m, p, name, lines, cell) ==
    /\ n \in Nat /\ DOMAIN rows = 1 .. n
    /\ Lists(rows, keys, m, p)
    /\ \A j \in 1 .. n : rows[j][name] \in Int \cup {Null}
    /\ DOMAIN lines = 1 .. m
    /\ \A k \in 1 .. m : lines[k][cell] = SumOver(rows, GroupOf(rows, keys, p[k]), name)

LEMMA TotalsByGroup ==
  ASSUME NEW n, NEW rows, NEW keys, NEW m, NEW p, NEW name, NEW lines, NEW cell,
         AddsUpGroups(n, rows, keys, m, p, name, lines, cell)
  PROVE  Total(lines, cell) = Total(rows, name)
<1>h. /\ n \in Nat /\ DOMAIN rows = 1 .. n
      /\ Lists(rows, keys, m, p)
      /\ \A j \in 1 .. n : rows[j][name] \in Int \cup {Null}
      /\ DOMAIN lines = 1 .. m
      /\ \A k \in 1 .. m : lines[k][cell] = SumOver(rows, GroupOf(rows, keys, p[k]), name)
  BY DEF AddsUpGroups
<1> DEFINE all == 1 .. n
           v == Addends(rows, all, name)
<1>1. /\ v \in [1 .. n -> Int] /\ Total(rows, name) = SumOf(v)
  BY <1>h, AddendsType DEF Total
<1>2. v = [j \in 1 .. n |-> IF rows[j][name] # Null THEN rows[j][name] ELSE 0]
  BY <1>h DEF Addends
<1> HIDE DEF v, all
<1>3. \A k \in 1 .. m : /\ SumOver(rows, GroupOf(rows, keys, p[k]), name)
                           = SumOf(InGroup(n, rows, keys, p[k], v))
                        /\ SumOver(rows, GroupOf(rows, keys, p[k]), name) \in Int
  <2> TAKE k \in 1 .. m
  <2> DEFINE S == GroupOf(rows, keys, p[k])
  <2> HIDE DEF S
  <2>1. SumOver(rows, S, name) = SumOf(Addends(rows, S, name)) /\ SumOver(rows, S, name) \in Int
    BY <1>h, AddendsType
  <2>2. Addends(rows, S, name) = [j \in 1 .. n |-> IF j \in S THEN v[j] ELSE 0]
    BY <1>h, <1>2 DEF Addends
  <2>3. InGroup(n, rows, keys, p[k], v) = [j \in 1 .. n |-> IF j \in S THEN v[j] ELSE 0]
    BY DEF InGroup, S
  <2> QED BY <2>1, <2>2, <2>3 DEF S
<1>4. Total(lines, cell) = SumOf(GroupSums(n, rows, keys, m, p, v))
  <2> DEFINE u == [k \in 1 .. m |-> IF k \in 1 .. m /\ lines[k][cell] # Null THEN lines[k][cell] ELSE 0]
  <2>1. Total(lines, cell) = SumOf(u)
    BY <1>h DEF Total, SumOver
  <2>2. \A x \in Int : x # Null
    BY NullAssumption
  <2>3. \A k \in 1 .. m : u[k] = SumOf(InGroup(n, rows, keys, p[k], v))
    BY <1>h, <1>3, <2>2
  <2> HIDE DEF u
  <2>4. u = [k \in 1 .. m |-> u[k]]
    BY DEF u
  <2>5. u = [k \in 1 .. m |-> SumOf(InGroup(n, rows, keys, p[k], v))]
    BY <2>3, <2>4
  <2> QED BY <2>1, <2>5 DEF GroupSums
<1> QED BY <1>h, <1>1, <1>4, SumByGroups

\* Lines that count the rows of their groups count all rows with a value in one of the keys.
CountsGroups(n, rows, keys, m, p, key, lines) ==
    /\ n \in Nat /\ DOMAIN rows = 1 .. n
    /\ Lists(rows, keys, m, p) /\ key \in keys
    /\ DOMAIN lines = 1 .. m
    /\ \A k \in 1 .. m :
         /\ lines[k][key] = rows[p[k]][key]
         /\ rows[p[k]][key] # Null => lines[k][Count] = Cardinality(GroupOf(rows, keys, p[k]))

LEMMA CountsByGroup ==
  ASSUME NEW n, NEW rows, NEW keys, NEW m, NEW p, NEW key, NEW lines,
         CountsGroups(n, rows, keys, m, p, key, lines)
  PROVE  SumOver(lines, With(lines, key), Count) = Cardinality(With(rows, key))
<1> DEFINE S == With(rows, key)
           v == [j \in 1 .. n |-> IF j \in S THEN 1 ELSE 0]
           group(k) == GroupOf(rows, keys, p[k])
<1>h. /\ n \in Nat /\ DOMAIN rows = 1 .. n
      /\ Lists(rows, keys, m, p) /\ key \in keys
      /\ DOMAIN lines = 1 .. m
      /\ \A k \in 1 .. m :
           /\ lines[k][key] = rows[p[k]][key]
           /\ rows[p[k]][key] # Null => lines[k][Count] = Cardinality(GroupOf(rows, keys, p[k]))
  BY DEF CountsGroups
<1>1. S \in SUBSET (1 .. n) /\ \A j \in 1 .. n : j \in S <=> rows[j][key] # Null
  BY <1>h DEF With
<1> HIDE DEF S
<1>2. v \in [1 .. n -> Int]
  OBVIOUS
<1>3. Cardinality(S) = SumOf(v)
  BY <1>1, CountIsSum, <1>h
<1>4. \A k \in 1 .. m : p[k] \in 1 .. n /\ group(k) \in SUBSET (1 .. n)
                        /\ \A j \in group(k) : rows[j][key] = rows[p[k]][key]
  <2> TAKE k \in 1 .. m
  <2>1. p[k] \in FirstOfGroups(rows, keys)
    BY <1>h DEF Lists
  <2>2. p[k] \in 1 .. n
    BY <1>h, <2>1 DEF FirstOfGroups
  <2>3. \A j \in group(k) : KeyOf(rows[j], keys)[key] = KeyOf(rows[p[k]], keys)[key]
    BY <1>h DEF GroupOf
  <2>4. \A j \in group(k) : rows[j][key] = rows[p[k]][key]
    BY <1>h, <2>3 DEF KeyOf
  <2>5. group(k) \in SUBSET (1 .. n)
    BY <1>h DEF GroupOf
  <2> QED BY <2>2, <2>4, <2>5
<1>5. \A k \in 1 .. m : SumOf(InGroup(n, rows, keys, p[k], v))
                        = IF rows[p[k]][key] # Null THEN Cardinality(group(k)) ELSE 0
  <2> TAKE k \in 1 .. m
  <2> DEFINE G == group(k)
  <2>1. InGroup(n, rows, keys, p[k], v) = [j \in 1 .. n |-> IF j \in G THEN v[j] ELSE 0]
    BY <1>h DEF InGroup
  <2>2. G \in SUBSET (1 .. n) /\ \A j \in G : rows[j][key] = rows[p[k]][key]
    BY <1>4
  <2> HIDE DEF G
  <2>3. CASE rows[p[k]][key] # Null
    <3>1. [j \in 1 .. n |-> IF j \in G THEN v[j] ELSE 0] = [j \in 1 .. n |-> IF j \in G THEN 1 ELSE 0]
      BY <2>2, <2>3, <1>1
    <3>2. Cardinality(G) = SumOf([j \in 1 .. n |-> IF j \in G THEN 1 ELSE 0])
      BY <2>2, CountIsSum, <1>h
    <3> QED BY <2>1, <2>3, <3>1, <3>2 DEF G
  <2>4. CASE rows[p[k]][key] = Null
    <3>1. [j \in 1 .. n |-> IF j \in G THEN v[j] ELSE 0] = [j \in 1 .. n |-> 0]
      BY <2>2, <2>4, <1>1
    <3> QED BY <2>1, <2>4, <3>1, SumZero, <1>h
  <2> QED BY <2>3, <2>4
<1>6. SumOver(lines, With(lines, key), Count) = SumOf(GroupSums(n, rows, keys, m, p, v))
  <2> DEFINE L == With(lines, key)
             u == [k \in 1 .. m |-> IF k \in L /\ lines[k][Count] # Null THEN lines[k][Count] ELSE 0]
  <2>1. SumOver(lines, L, Count) = SumOf(u)
    BY <1>h DEF SumOver
  <2>2. \A k \in 1 .. m : k \in L <=> rows[p[k]][key] # Null
    BY <1>h DEF With
  <2> HIDE DEF L
  <2>3. \A k \in 1 .. m : Cardinality(group(k)) \in Int /\ Cardinality(group(k)) # Null
    <3> TAKE k \in 1 .. m
    <3>1. Cardinality(group(k)) \in 0 .. n
      BY <1>4, SubsetCount, <1>h
    <3> QED BY <3>1, NullAssumption
  <2>4. \A k \in 1 .. m : u[k] = SumOf(InGroup(n, rows, keys, p[k], v))
    BY <1>h, <2>2, <2>3, <1>5
  <2>5. u = [k \in 1 .. m |-> u[k]]
    OBVIOUS
  <2> HIDE DEF u
  <2>6. u = [k \in 1 .. m |-> SumOf(InGroup(n, rows, keys, p[k], v))]
    BY <2>4, <2>5
  <2> QED BY <2>1, <2>6 DEF GroupSums, L
<1> HIDE DEF v
<1>7. SumOf(GroupSums(n, rows, keys, m, p, v)) = SumOf(v)
  BY <1>h, <1>2, SumByGroups
<1> QED BY <1>3, <1>6, <1>7 DEF S

\* What a frequency table is made of: its columns, and a line for each group.
LEMMA RankingIs ==
  ASSUME NEW f, FrameOK(f), NEW cols, NEW counts \in Counts(f), NEW headers, NEW aggs,
         Ranking(f, cols, counts, headers, aggs) # Refused
  PROVE  LET g == Ranking(f, cols, counts, headers, aggs)
             m == Cardinality(Firsts(f, cols))
             p == RankedOrder(f, cols, counts)
         IN  /\ Distinct(Grouped(f, cols, aggs))
             /\ g.columns = RankedColumns(f, headers, aggs)
             /\ g.df = Grouped(f, cols, aggs) \o SharesLeft(f, cols, aggs)
             /\ Lists(Visible(f), Range(NamesOf(f, cols)), m, p)
             /\ DOMAIN g.rows = 1 .. m
             /\ \A k \in 1 .. m : /\ g.rows[k] = RankedLine(f, cols, counts, aggs, p[k])
                                  /\ p[k] \in DOMAIN f.row_order
                                  /\ RankedLineOK(f, cols, counts, aggs, p[k])
<1> DEFINE g == Ranking(f, cols, counts, headers, aggs)
           m == Cardinality(Firsts(f, cols))
           p == RankedOrder(f, cols, counts)
<1>1. /\ Distinct(Grouped(f, cols, aggs))
      /\ g = FromParts(RankedColumns(f, headers, aggs),
                       Grouped(f, cols, aggs) \o SharesLeft(f, cols, aggs),
                       RankedRows(f, cols, counts, aggs))
  BY RankingParts
<1>2. /\ m \in Nat
      /\ \A a \in 1 .. m : p[a] \in Firsts(f, cols) /\ p[a] \in DOMAIN f.row_order
      /\ \A a, b \in 1 .. m : p[a] = p[b] => a = b
      /\ \A t \in Firsts(f, cols) : \E a \in 1 .. m : p[a] = t
  BY RankedOrderFacts
<1>3. Lists(Visible(f), Range(NamesOf(f, cols)), m, p)
  BY <1>2 DEF Lists, Firsts
<1>4. /\ g.columns = RankedColumns(f, headers, aggs)
      /\ g.df = Grouped(f, cols, aggs) \o SharesLeft(f, cols, aggs)
      /\ g.rows = RankedRows(f, cols, counts, aggs)
  BY <1>1 DEF FromParts
<1> HIDE DEF g, p
<1>5. DOMAIN g.rows = 1 .. m /\ \A k \in 1 .. m : g.rows[k] = RankedLine(f, cols, counts, aggs, p[k])
  BY <1>4 DEF RankedRows, p
<1>6. \A k \in 1 .. m : p[k] \in DOMAIN f.row_order /\ RankedLineOK(f, cols, counts, aggs, p[k])
  BY <1>2, FrequencyCells
<1> QED BY <1>1, <1>3, <1>4, <1>5, <1>6 DEF g, p

\* Every sum a table g holds beside the keys adds up to the column of f it is a sum of.
TotalsKept(f, keys, g) ==
    \A j \in DOMAIN f.columns :
        SumName(f.columns[j].name) \in Range(g.df) \ keys
        => Total(g.rows, SumName(f.columns[j].name)) = Total(Visible(f), f.columns[j].name)

\* A line holds the sums over its group.
HoldLines(f, cols, aggs, m, p, lines, x) ==
    /\ Lists(Visible(f), Range(NamesOf(f, cols)), m, p)
    /\ DOMAIN lines = 1 .. m
    /\ x \notin Range(NamesOf(f, cols))
    /\ \A k \in 1 .. m : lines[k][x] = LineOf(f, cols, aggs, p[k])[x]

LEMMA LinesOfGroups ==
  ASSUME NEW f, FrameOK(f), InStep(f), NEW cols \in SUBSET DOMAIN f.columns,
         NEW aggs \in SUBSET DOMAIN f.columns, \A j \in aggs : Numeric(f, j),
         NEW j \in aggs, NEW m, NEW p, NEW lines,
         HoldLines(f, cols, aggs, m, p, lines, SumName(f.columns[j].name))
  PROVE  Total(lines, SumName(f.columns[j].name)) = Total(Visible(f), f.columns[j].name)
<1> DEFINE keys == Range(NamesOf(f, cols))
           rows == Visible(f)
           name == f.columns[j].name
           cell == SumName(name)
           n == Len(f.row_order)
<1>h. /\ Lists(Visible(f), Range(NamesOf(f, cols)), m, p)
      /\ DOMAIN lines = 1 .. m
      /\ cell \notin Range(NamesOf(f, cols))
      /\ \A k \in 1 .. m : lines[k][cell] = LineOf(f, cols, aggs, p[k])[cell]
  BY DEF HoldLines
<1>1. DOMAIN rows = 1 .. n /\ n \in Nat /\ DOMAIN f.row_order = 1 .. n
  BY VisibleShape
<1>2. \A k \in 1 .. n : rows[k][name] \in Int \cup {Null}
  BY <1>1, NumberColumn
<1>3. \A k \in 1 .. m : p[k] \in DOMAIN f.row_order
  <2> TAKE k \in 1 .. m
  <2>1. p[k] \in FirstOfGroups(rows, keys)
    BY <1>h DEF Lists
  <2> QED BY <2>1, <1>1 DEF FirstOfGroups
<1>4. \A k \in 1 .. m : lines[k][cell] = SumOver(rows, GroupOf(rows, keys, p[k]), name)
  BY <1>h, <1>3, GroupCells
<1>5. Lists(rows, keys, m, p) /\ DOMAIN lines = 1 .. m
  BY <1>h
<1> HIDE DEF rows, keys, name, cell, n
<1>6. Total(lines, cell) = Total(rows, name)
  <2>1. AddsUpGroups(n, rows, keys, m, p, name, lines, cell)
    BY <1>1, <1>2, <1>4, <1>5 DEF AddsUpGroups
  <2> QED BY <2>1, TotalsByGroup
<1> QED BY <1>6 DEF rows, name, cell

LEMMA RankingSums ==
  ASSUME NEW f, FrameOK(f), InStep(f), NEW cols \in SUBSET DOMAIN f.columns,
         NEW aggs \in SUBSET DOMAIN f.columns, \A j \in aggs : Numeric(f, j),
         NEW counts \in Counts(f), NEW headers,
         Ranking(f, cols, counts, headers, aggs) # Refused
  PROVE  TotalsKept(f, Range(NamesOf(f, cols)), Ranking(f, cols, counts, headers, aggs))
<1> DEFINE g == Ranking(f, cols, counts, headers, aggs)
           names == NamesOf(f, cols)
           sums == Names(SumColumns(f, aggs))
           m == Cardinality(Firsts(f, cols))
           p == RankedOrder(f, cols, counts)
<1>1. /\ g.df = Grouped(f, cols, aggs) \o SharesLeft(f, cols, aggs)
      /\ Lists(Visible(f), Range(names), m, p)
      /\ DOMAIN g.rows = 1 .. m
      /\ \A k \in 1 .. m : /\ g.rows[k] = RankedLine(f, cols, counts, aggs, p[k])
                           /\ p[k] \in DOMAIN f.row_order
                           /\ RankedLineOK(f, cols, counts, aggs, p[k])
  BY RankingIs
<1> HIDE DEF g, m, p
<1>2. Range(g.df) \subseteq Range(names) \cup {Count, Pct, Bar} \cup Range(sums)
  <2> DEFINE a == Grouped(f, cols, aggs)
             b == SharesLeft(f, cols, aggs)
  <2>1. /\ a \in Seq(Texts) /\ b \in Seq(Texts)
        /\ Range(a) = Range(names) \cup {Count} \cup Range(sums)
        /\ Range(b) = {Pct, Bar} \ Range(a)
    BY GroupedShape
  <2> HIDE DEF a, b
  <2>2. Range(a \o b) = Range(a) \cup Range(b)
    BY <2>1, RangeJoined
  <2>3. g.df = a \o b
    BY <1>1 DEF a, b
  <2> HIDE DEF names, sums
  <2> QED BY <2>1, <2>2, <2>3
<1>3. \A x \in Range(sums) : \E i \in aggs : x = SumName(f.columns[i].name)
  BY SumColumnsShape
<1>3b. \A i \in aggs : SumName(f.columns[i].name) \in Range(sums)
  BY SumColumnsShape
<1>4. /\ \A i \in DOMAIN f.columns : f.columns[i].name \in Texts
      /\ \A i, j \in DOMAIN f.columns : f.columns[i].name = f.columns[j].name => i = j
  BY RegularShape
<1>5. ASSUME NEW j \in DOMAIN f.columns,
             SumName(f.columns[j].name) \in Range(g.df) \ Range(names)
      PROVE  Total(g.rows, SumName(f.columns[j].name)) = Total(Visible(f), f.columns[j].name)
  <2> DEFINE cell == SumName(f.columns[j].name)
             lines == g.rows
  <2>1. cell \notin {Count, Pct, Bar}
    BY <1>4, SumNameFacts
  <2>2. cell \in Range(sums)
    BY <2>1, <1>2, <1>5
  <2>3. PICK i \in aggs : cell = SumName(f.columns[i].name)
    BY <2>2, <1>3
  <2>4. i = j
    <3>1. f.columns[i].name = f.columns[j].name
      BY <2>3, <1>4, SumNameInjective
    <3> QED BY <3>1, <1>4
  <2>5. cell \notin Range(names) /\ j \in aggs
    BY <1>5, <2>4
  <2> HIDE DEF cell
  <2>6. \A k \in 1 .. m : lines[k][cell] = LineOf(f, cols, aggs, p[k])[cell]
    <3> TAKE k \in 1 .. m
    <3>1. lines[k] = RankedLine(f, cols, counts, aggs, p[k]) /\ RankedLineOK(f, cols, counts, aggs, p[k])
      BY <1>1
    <3>2. RankedLine(f, cols, counts, aggs, p[k])[cell] = LineOf(f, cols, aggs, p[k])[cell]
      BY <3>1, <2>1, <2>2 DEF RankedLineOK
    <3> QED BY <3>1, <3>2
  <2>7. DOMAIN lines = 1 .. m /\ Lists(Visible(f), Range(NamesOf(f, cols)), m, p)
    BY <1>1
  <2> HIDE DEF lines
  <2>8. Total(lines, SumName(f.columns[j].name)) = Total(Visible(f), f.columns[j].name)
    <3>1. HoldLines(f, cols, aggs, m, p, lines, cell)
      BY <2>5, <2>6, <2>7 DEF HoldLines
    <3> QED BY <2>5, <3>1, LinesOfGroups DEF cell
  <2> QED BY <2>8 DEF lines
<1> QED BY <1>5 DEF TotalsKept, g

\* The counts of the lines with a key add up to the rows with one.
CountsKept(f, key, g) ==
    SumOver(g.rows, With(g.rows, key), Count) = Cardinality(With(Visible(f), key))

\* The counts are of the whole groups where this key has a value.
CountsWhole(f, cols, counts, key) ==
    \A i \in DOMAIN f.row_order :
        Visible(f)[i][key] # Null
        => counts[i] = Cardinality(GroupOf(Visible(f), Range(NamesOf(f, cols)), i))

LEMMA RankingCounts ==
  ASSUME NEW f, FrameOK(f), InStep(f), NEW cols \in SUBSET DOMAIN f.columns,
         NEW aggs \in SUBSET DOMAIN f.columns, \A j \in aggs : Numeric(f, j),
         NEW counts \in Counts(f), NEW headers, KeyHeaders(f, cols, headers),
         Ranking(f, cols, counts, headers, aggs) # Refused,
         InStep(Ranking(f, cols, counts, headers, aggs)),
         NEW j \in cols, CountsWhole(f, cols, counts, f.columns[j].name)
  PROVE  CountsKept(f, f.columns[j].name, Ranking(f, cols, counts, headers, aggs))
<1> DEFINE g == Ranking(f, cols, counts, headers, aggs)
           names == NamesOf(f, cols)
           keys == Range(names)
           rows == Visible(f)
           key == f.columns[j].name
           lines == g.rows
           m == Cardinality(Firsts(f, cols))
           p == RankedOrder(f, cols, counts)
           n == Len(f.row_order)
<1>1. /\ Distinct(Grouped(f, cols, aggs))
      /\ g.columns = RankedColumns(f, headers, aggs)
      /\ Lists(rows, keys, m, p)
      /\ DOMAIN lines = 1 .. m
      /\ \A k \in 1 .. m : /\ lines[k] = RankedLine(f, cols, counts, aggs, p[k])
                           /\ p[k] \in DOMAIN f.row_order
                           /\ RankedLineOK(f, cols, counts, aggs, p[k])
  BY RankingIs
<1>2. FrameOK(g) /\ InStep(g)
  BY RankingKeeps
<1>3. n \in Nat /\ DOMAIN rows = 1 .. n /\ DOMAIN f.row_order = 1 .. n
  BY VisibleShape
<1>4. key \in keys
  BY NamesOfShape
<1> HIDE DEF g, lines, m, p, rows, n
<1>5. key \notin {Pct, Bar, Count}
  <2> DEFINE a == Grouped(f, cols, aggs)
             b == <<Pct, Bar>>
  <2>1. /\ a \in Seq(Texts)
        /\ Range(a) = keys \cup {Count} \cup Range(Names(SumColumns(f, aggs)))
        /\ Distinct(a) => Count \notin keys
    BY GroupedShape
  <2>2. Names(g.columns) = a \o b
    BY <1>1, RankedColumnsShape
  <2>3. b \in Seq(Texts) /\ Range(b) = {Pct, Bar}
    <3>1. Pct \in Texts /\ Bar \in Texts
      BY WordsAssumption DEF Pct, Bar, Texts, OwnWords
    <3> QED BY <3>1, OneAndTwo
  <2>4. Distinct(a \o b)
    BY <1>2, <2>2 DEF FrameOK, InStep
  <2> HIDE DEF a, b, keys, key
  <2>5. Range(a) \cap Range(b) = {}
    BY <2>1, <2>3, <2>4, DistinctJoined
  <2> QED BY <1>1, <1>4, <2>1, <2>3, <2>5 DEF a
<1>6. ASSUME NEW k \in 1 .. m
      PROVE  /\ lines[k][key] = rows[p[k]][key]
             /\ rows[p[k]][key] # Null => lines[k][Count] = Cardinality(GroupOf(rows, keys, p[k]))
  <2> DEFINE i == p[k]
             line == RankedLine(f, cols, counts, aggs, i)
  <2>1. lines[k] = line /\ i \in DOMAIN f.row_order /\ RankedLineOK(f, cols, counts, aggs, i)
    BY <1>1
  <2>2. line[key] = LineOf(f, cols, aggs, i)[key] /\ line[Count] = counts[i]
    BY <2>1, <1>4, <1>5 DEF RankedLineOK
  <2>3. LineOf(f, cols, aggs, i)[key] = rows[i][key]
    BY <2>1, GroupCells DEF rows
  <2>4. rows[i][key] # Null => counts[i] = Cardinality(GroupOf(rows, keys, i))
    BY <2>1 DEF CountsWhole, rows
  <2> HIDE DEF line, key, keys
  <2> QED BY <2>1, <2>2, <2>3, <2>4
<1> HIDE DEF key, keys
<1>7. CountsGroups(n, rows, keys, m, p, key, lines)
  BY <1>1, <1>3, <1>4, <1>6 DEF CountsGroups
<1>8. SumOver(lines, With(lines, key), Count) = Cardinality(With(rows, key))
  BY <1>7, CountsByGroup
<1> QED BY <1>8 DEF CountsKept, lines, key, rows, g

LEMMA GroupBySums ==
  ASSUME NEW f, FrameOK(f), InStep(f), NEW cols \in SUBSET DOMAIN f.columns,
         NEW aggs \in SUBSET DOMAIN f.columns, \A j \in aggs : Numeric(f, j),
         GroupBy(f, cols, aggs) # Refused
  PROVE  TotalsKept(f, Range(NamesOf(f, cols)), GroupBy(f, cols, aggs))
<1> DEFINE g == GroupBy(f, cols, aggs)
           names == NamesOf(f, cols)
           keys == Range(names)
           sums == Names(SumColumns(f, aggs))
           firsts == FirstOfGroups(Visible(f), keys)
           m == Cardinality(firsts)
           p == Listed(firsts)
           n == Len(f.row_order)
           r == [k \in 1 .. m |-> LineOf(f, cols, aggs, p[k])]
<1>1. g.df = names \o sums /\ g.rows = r
  BY DEF GroupBy, FromParts, LineOf
<1>2. DOMAIN g.rows = 1 .. m /\ \A k \in 1 .. m : g.rows[k] = LineOf(f, cols, aggs, p[k])
  BY <1>1
<1>3. Lists(Visible(f), keys, m, p)
  <2>1. n \in Nat /\ firsts \in SUBSET (1 .. n)
    BY FirstsFacts, VisibleShape
  <2>2. /\ m \in Nat
        /\ \A a \in 1 .. m : p[a] \in firsts
        /\ \A a, b \in 1 .. m : p[a] = p[b] => a = b
        /\ \A t \in firsts : \E a \in 1 .. m : p[a] = t
    <3> HIDE DEF n, firsts
    <3> QED BY <2>1, ListedFacts
  <2> QED BY <2>2 DEF Lists
<1>4. Range(g.df) = keys \cup Range(sums)
  <2>1. names \in Seq(Texts)
    BY NamesOfShape
  <2>2. sums \in Seq(Texts)
    <3>1. SumColumns(f, aggs) \in Seq(ColumnMeta)
      BY SumColumnsShape
    <3> QED BY <3>1, NamesType
  <2> HIDE DEF names, sums, g
  <2> QED BY <1>1, <2>1, <2>2, RangeJoined
<1>5. \A x \in Range(sums) : \E i \in aggs : x = SumName(f.columns[i].name)
  BY SumColumnsShape
<1>6. /\ \A i \in DOMAIN f.columns : f.columns[i].name \in Texts
      /\ \A i, j \in DOMAIN f.columns : f.columns[i].name = f.columns[j].name => i = j
  BY RegularShape
<1> HIDE DEF g, m, p, r, sums
<1>7. ASSUME NEW j \in DOMAIN f.columns, SumName(f.columns[j].name) \in Range(g.df) \ keys
      PROVE  Total(g.rows, SumName(f.columns[j].name)) = Total(Visible(f), f.columns[j].name)
  <2> DEFINE cell == SumName(f.columns[j].name)
             lines == g.rows
  <2>1. PICK i \in aggs : cell = SumName(f.columns[i].name)
    BY <1>4, <1>5, <1>7
  <2>2. i = j
    <3>1. f.columns[i].name = f.columns[j].name
      BY <2>1, <1>6, SumNameInjective
    <3> QED BY <3>1, <1>6
  <2>3. cell \notin keys
    BY <1>7
  <2> HIDE DEF cell
  <2>4. HoldLines(f, cols, aggs, m, p, lines, cell)
    BY <1>2, <1>3, <2>3 DEF HoldLines
  <2> HIDE DEF lines
  <2>5. Total(lines, SumName(f.columns[j].name)) = Total(Visible(f), f.columns[j].name)
    BY <2>2, <2>4, LinesOfGroups DEF cell
  <2> QED BY <2>5 DEF lines
<1> QED BY <1>7 DEF TotalsKept, g

\* What the two frequency tables are: a ranking by counts of whole groups, where the
\* first key has a value.
RankedBy(f, cols, counts, headers, aggs, g) ==
    /\ aggs \in SUBSET DOMAIN f.columns /\ \A j \in aggs : Numeric(f, j)
    /\ counts \in Counts(f) /\ KeyHeaders(f, cols, headers)
    /\ \E j \in cols : /\ f.columns[j].name = Head(NamesOf(f, cols))
                       /\ CountsWhole(f, cols, counts, f.columns[j].name)
    /\ g = Ranking(f, cols, counts, headers, aggs)

LEMMA FrequencyRanks ==
  ASSUME NEW f, FrameOK(f), InStep(f), NEW c \in DOMAIN f.columns
  PROVE  \E counts, headers, aggs : RankedBy(f, {c}, counts, headers, aggs, BuildFrequencyTable(f, c))
<1> DEFINE S == {c}
           key == f.columns[c].name
           keys == {key}
           counts == RowCounts(Visible(f), keys)
           headers == <<Plain(f.columns[c])>>
           none == {}
           aggs == Aggregated(f, none)
<1>1. BuildFrequencyTable(f, c) = Ranking(f, S, counts, headers, aggs)
  BY DEF BuildFrequencyTable
<1>2. DOMAIN Visible(f) = 1 .. Len(f.row_order) /\ DOMAIN f.row_order = 1 .. Len(f.row_order)
  BY VisibleShape
<1>3. counts = [i \in 1 .. Len(f.row_order) |-> Cardinality(GroupOf(Visible(f), keys, i))]
  BY <1>2 DEF RowCounts
<1>4. \A i \in 1 .. Len(f.row_order) : GroupOf(Visible(f), keys, i) \in SUBSET (1 .. Len(f.row_order))
  BY <1>2 DEF GroupOf
<1>k. NamesOf(f, S) = <<key>> /\ Range(NamesOf(f, S)) = keys /\ Head(NamesOf(f, S)) = key
  <2>1. NamesOf(f, S) = <<key>>
    BY PlainHeader
  <2>2. key \in Texts
    BY RegularShape
  <2> HIDE DEF key
  <2>3. Range(<<key>>) = keys
    BY <2>2, OneAndTwo
  <2> QED BY <2>1, <2>3
<1> HIDE DEF none, keys, key
<1>5. DOMAIN counts = DOMAIN f.row_order /\ counts = [i \in DOMAIN f.row_order |-> counts[i]]
      /\ \A i \in DOMAIN f.row_order : \E K \in SUBSET (1 .. Len(f.row_order)) : counts[i] = Cardinality(K)
  BY <1>2, <1>3, <1>4
<1>c. \A i \in DOMAIN f.row_order : counts[i] = Cardinality(GroupOf(Visible(f), keys, i))
  BY <1>2, <1>3
<1> HIDE DEF counts
<1>6. counts \in Counts(f)
  BY <1>5, CountsOfSubsets
<1>7. aggs \in SUBSET DOMAIN f.columns /\ \A j \in aggs : Numeric(f, j)
  BY AggregatedShape
<1>8. KeyHeaders(f, S, headers)
  BY PlainHeader
<1>9. S \in SUBSET DOMAIN f.columns /\ c \in S
  OBVIOUS
<1> HIDE DEF S, headers, aggs
<1>w. CountsWhole(f, S, counts, f.columns[c].name)
  BY <1>c, <1>k DEF CountsWhole
<1>10. RankedBy(f, S, counts, headers, aggs, BuildFrequencyTable(f, c))
  BY <1>1, <1>6, <1>7, <1>8, <1>9, <1>w, <1>k DEF RankedBy, key, S
<1> QED BY <1>10 DEF S

LEMMA MultiFrequencyRanks ==
  ASSUME NEW f, FrameOK(f), InStep(f), NEW cols \in SUBSET DOMAIN f.columns, cols # {}
  PROVE  \E counts, headers, aggs :
            RankedBy(f, cols, counts, headers, aggs, BuildMultiFrequencyTable(f, cols))
<1> DEFINE names == NamesOf(f, cols)
           keys == Range(names)
           first == names[1]
           counts == ValueCounts(Visible(f), keys, first)
           headers == PinnedKeys(f, cols)
           aggs == Aggregated(f, cols)
           valued(i) == {j \in GroupOf(Visible(f), keys, i) : Visible(f)[j][first] # Null}
<1>1. BuildMultiFrequencyTable(f, cols) = Ranking(f, cols, counts, headers, aggs)
  BY DEF BuildMultiFrequencyTable
<1>2. DOMAIN Visible(f) = 1 .. Len(f.row_order) /\ DOMAIN f.row_order = 1 .. Len(f.row_order)
  BY VisibleShape
<1>3. counts = [i \in 1 .. Len(f.row_order) |-> Cardinality(valued(i))]
  BY <1>2 DEF ValueCounts
<1>4. \A i \in 1 .. Len(f.row_order) : valued(i) \in SUBSET (1 .. Len(f.row_order))
  BY <1>2 DEF GroupOf
<1>k. \E c \in cols : f.columns[c].name = first
  <2>1. Cardinality(cols) \in Nat /\ DOMAIN names = 1 .. Cardinality(cols)
        /\ \A k \in 1 .. Cardinality(cols) : /\ Listed(cols)[k] \in cols
                                             /\ names[k] = f.columns[Listed(cols)[k]].name
        /\ \A i \in cols : f.columns[i].name \in Range(names)
    BY NamesOfShape
  <2>2. Cardinality(cols) # 0
    <3>1. PICK i \in cols : f.columns[i].name \in Range(names)
      BY NamesOfShape
    <3> HIDE DEF names
    <3>2. PICK k \in 1 .. Cardinality(cols) : TRUE
      BY <2>1, <3>1 DEF Range
    <3> QED BY <3>2, <2>1
  <2>3. 1 \in 1 .. Cardinality(cols)
    BY <2>1, <2>2
  <2> QED BY <2>1, <2>3
<1>h. Head(names) = first
  BY DEF Head
<1>n. first \in keys
  <2>1. PICK c \in cols : f.columns[c].name = first
    BY <1>k
  <2> QED BY <2>1, NamesOfShape
<1>v. \A i \in DOMAIN f.row_order :
          Visible(f)[i][first] # Null => valued(i) = GroupOf(Visible(f), keys, i)
  <2> SUFFICES ASSUME NEW i \in DOMAIN f.row_order, Visible(f)[i][first] # Null
               PROVE  \A j \in GroupOf(Visible(f), keys, i) : Visible(f)[j][first] # Null
    OBVIOUS
  <2> TAKE j \in GroupOf(Visible(f), keys, i)
  <2> HIDE DEF keys, first
  <2>1. KeyOf(Visible(f)[j], keys)[first] = KeyOf(Visible(f)[i], keys)[first]
    BY DEF GroupOf
  <2>2. Visible(f)[j][first] = Visible(f)[i][first]
    BY <2>1, <1>n DEF KeyOf
  <2> QED BY <2>2
<1> HIDE DEF names, keys, first, valued
<1>5. DOMAIN counts = DOMAIN f.row_order /\ counts = [i \in DOMAIN f.row_order |-> counts[i]]
      /\ \A i \in DOMAIN f.row_order : \E K \in SUBSET (1 .. Len(f.row_order)) : counts[i] = Cardinality(K)
  BY <1>2, <1>3, <1>4
<1>c. \A i \in DOMAIN f.row_order :
         Visible(f)[i][first] # Null => counts[i] = Cardinality(GroupOf(Visible(f), keys, i))
  BY <1>2, <1>3, <1>v
<1> HIDE DEF counts
<1>6. counts \in Counts(f)
  BY <1>5, CountsOfSubsets
<1>7. aggs \in SUBSET DOMAIN f.columns /\ \A j \in aggs : Numeric(f, j)
  BY AggregatedShape
<1>8. KeyHeaders(f, cols, headers)
  BY PinnedHeaders
<1> HIDE DEF headers, aggs
<1>9. PICK c \in cols : f.columns[c].name = first
  BY <1>k
<1>w. CountsWhole(f, cols, counts, f.columns[c].name)
  BY <1>c, <1>9 DEF CountsWhole, keys, names
<1>10. RankedBy(f, cols, counts, headers, aggs, BuildMultiFrequencyTable(f, cols))
  BY <1>1, <1>6, <1>7, <1>8, <1>9, <1>w, <1>h DEF RankedBy, names
<1> QED BY <1>10

-----------------------------------------------------------------------------
(* Nothing is lost between the cells of a pivot.                           *)

\* Addends in a grid: j belongs to line p[j] and column q[j].
GridCell(n, v, p, q, r, i) == SumOf([j \in 1 .. n |-> IF p[j] = r /\ q[j] = i THEN v[j] ELSE 0])
GridLine(n, v, p, q, w, r) == SumOf([i \in 1 .. w |-> GridCell(n, v, p, q, r, i)])
GridTotal(n, v, p, q, h, w) == SumOf([r \in 1 .. h |-> GridLine(n, v, p, q, w, r)])

LEMMA GridSum ==
  ASSUME NEW n \in Nat, NEW v \in [1 .. n -> Int], NEW h \in Nat, NEW w \in Nat,
         NEW p \in [1 .. n -> 1 .. h], NEW q \in [1 .. n -> 1 .. w]
  PROVE  GridTotal(n, v, p, q, h, w) = SumOf(v)
<1>1. \A r \in 1 .. h : GridLine(n, v, p, q, w, r) = PartSum(n, v, p, r)
  <2> TAKE r \in 1 .. h
  <2> DEFINE u == [j \in 1 .. n |-> IF p[j] = r THEN v[j] ELSE 0]
  <2>1. u \in [1 .. n -> Int]
    OBVIOUS
  <2>2. \A i \in 1 .. w : GridCell(n, v, p, q, r, i) = PartSum(n, u, q, i)
    <3> TAKE i \in 1 .. w
    <3>1. [j \in 1 .. n |-> IF p[j] = r /\ q[j] = i THEN v[j] ELSE 0]
          = [j \in 1 .. n |-> IF q[j] = i THEN u[j] ELSE 0]
      OBVIOUS
    <3> QED BY <3>1 DEF GridCell, PartSum
  <2>3. PartSum(n, v, p, r) = SumOf(u)
    BY DEF PartSum
  <2> HIDE DEF u
  <2>4. GridLine(n, v, p, q, w, r) = SumOf([i \in 1 .. w |-> PartSum(n, u, q, i)])
    BY <2>2 DEF GridLine
  <2>5. SumOf([i \in 1 .. w |-> PartSum(n, u, q, i)]) = SumOf(u)
    BY <2>1, SumByParts
  <2> QED BY <2>3, <2>4, <2>5
<1>2. [r \in 1 .. h |-> GridLine(n, v, p, q, w, r)] = [r \in 1 .. h |-> PartSum(n, v, p, r)]
  BY <1>1
<1>3. SumOf([r \in 1 .. h |-> PartSum(n, v, p, r)]) = SumOf(v)
  BY SumByParts
<1> QED BY <1>2, <1>3 DEF GridTotal

\* Every row has a line and a column of the pivot, and no line or column comes twice.
LEMMA PivotPlaces ==
  ASSUME NEW f, FrameOK(f), NEW index, NEW pivot, NEW order \in PivotGroups(f, index, pivot)
  PROVE  LET keys == Range(NamesOf(f, index))
             on == f.columns[pivot].name
             lines == PivotLines(f, index, order)
             values == PivotValues(f, pivot, order)
         IN  /\ DOMAIN lines = 1 .. Len(lines) /\ Len(lines) \in Nat
             /\ DOMAIN values = 1 .. Len(values) /\ Len(values) \in Nat
             /\ \A r, s \in DOMAIN lines : lines[r] = lines[s] => r = s
             /\ \A k, l \in DOMAIN values : values[k] = values[l] => k = l
             /\ \A j \in DOMAIN f.row_order :
                   /\ \E r \in DOMAIN lines : lines[r] = KeyOf(Visible(f)[j], keys)
                   /\ \E k \in DOMAIN values : values[k] = Visible(f)[j][on]
<1> DEFINE keys == Range(NamesOf(f, index))
           on == f.columns[pivot].name
           all == keys \cup {on}
           rows == Visible(f)
           n == Len(f.row_order)
           firsts == FirstOfGroups(rows, all)
           m == Cardinality(firsts)
           lineOf == [k \in DOMAIN order |-> KeyOf(rows[order[k]], keys)]
           valueOf == [k \in DOMAIN order |-> rows[order[k]][on]]
           lines == PivotLines(f, index, order)
           values == PivotValues(f, pivot, order)
<1>1. n \in Nat /\ DOMAIN rows = 1 .. n /\ DOMAIN f.row_order = 1 .. n
  BY VisibleShape
<1>2. m \in Nat /\ firsts \subseteq DOMAIN f.row_order
  BY FirstsFacts
<1>3. order \in Bijection(1 .. m, firsts)
  BY DEF PivotGroups
<1>4. \A j \in 1 .. n : \E i \in firsts : KeyOf(rows[i], all) = KeyOf(rows[j], all)
  <2> HIDE DEF rows, all, n
  <2> QED BY <1>1, FirstOfEach
<1>5. lines = Unique(lineOf) /\ values = Unique(valueOf)
  BY DEF PivotLines, PivotValues
<1> HIDE DEF firsts, m, lines, values
<1>6. DOMAIN order = 1 .. m /\ \A i \in firsts : \E k \in 1 .. m : order[k] = i
  BY <1>3 DEF Bijection, Injection, Surjection
<1>7. /\ DOMAIN lineOf = 1 .. m /\ DOMAIN valueOf = 1 .. m
      /\ \A k \in 1 .. m : lineOf[k] = KeyOf(rows[order[k]], keys) /\ valueOf[k] = rows[order[k]][on]
  BY <1>6
<1> HIDE DEF lineOf, valueOf
<1>8. /\ DOMAIN lines = 1 .. Len(lines) /\ Len(lines) \in 0 .. m
      /\ \A r, s \in DOMAIN lines : lines[r] = lines[s] => r = s
      /\ \A a \in 1 .. m : \E r \in DOMAIN lines : lines[r] = lineOf[a]
  <2>1. DOMAIN lineOf = 1 .. m /\ m \in Nat
    BY <1>2, <1>7
  <2>2. /\ DOMAIN Unique(lineOf) = 1 .. Len(Unique(lineOf)) /\ Len(Unique(lineOf)) \in 0 .. m
        /\ \A r, s \in DOMAIN Unique(lineOf) : Unique(lineOf)[r] = Unique(lineOf)[s] => r = s
        /\ \A a \in 1 .. m : \E r \in DOMAIN Unique(lineOf) : Unique(lineOf)[r] = lineOf[a]
    BY <2>1, UniqueShape
  <2> QED BY <2>2, <1>5
<1>9. /\ DOMAIN values = 1 .. Len(values) /\ Len(values) \in 0 .. m
      /\ \A r, s \in DOMAIN values : values[r] = values[s] => r = s
      /\ \A a \in 1 .. m : \E r \in DOMAIN values : values[r] = valueOf[a]
  <2>1. DOMAIN valueOf = 1 .. m /\ m \in Nat
    BY <1>2, <1>7
  <2>2. /\ DOMAIN Unique(valueOf) = 1 .. Len(Unique(valueOf)) /\ Len(Unique(valueOf)) \in 0 .. m
        /\ \A r, s \in DOMAIN Unique(valueOf) : Unique(valueOf)[r] = Unique(valueOf)[s] => r = s
        /\ \A a \in 1 .. m : \E r \in DOMAIN Unique(valueOf) : Unique(valueOf)[r] = valueOf[a]
    BY <2>1, UniqueShape
  <2> QED BY <2>2, <1>5
<1>10. ASSUME NEW j \in 1 .. n
       PROVE  /\ \E r \in DOMAIN lines : lines[r] = KeyOf(rows[j], keys)
              /\ \E k \in DOMAIN values : values[k] = rows[j][on]
  <2>1. PICK i \in firsts : KeyOf(rows[i], all) = KeyOf(rows[j], all)
    BY <1>4
  <2>2. PICK a \in 1 .. m : order[a] = i
    BY <1>6
  <2>3. \A x \in all : rows[i][x] = rows[j][x]
    <3> HIDE DEF all, rows
    <3> TAKE x \in all
    <3>1. KeyOf(rows[i], all)[x] = rows[i][x] /\ KeyOf(rows[j], all)[x] = rows[j][x]
      BY DEF KeyOf
    <3> QED BY <2>1, <3>1
  <2>4. KeyOf(rows[i], keys) = KeyOf(rows[j], keys)
    <3> HIDE DEF rows, keys, on
    <3> QED BY <2>3 DEF KeyOf
  <2>5. rows[i][on] = rows[j][on]
    BY <2>3
  <2>6. lineOf[a] = KeyOf(rows[j], keys) /\ valueOf[a] = rows[j][on]
    BY <1>7, <2>2, <2>4, <2>5
  <2> QED BY <2>6, <1>8, <1>9
<1>11. Len(lines) \in Nat /\ Len(values) \in Nat
  BY <1>2, <1>8, <1>9
<1> QED BY <1>1, <1>8, <1>9, <1>10, <1>11 DEF lines, values

\* What a pivot shows in a cell adds up to that cell of the grid.
LEMMA PivotCellSum ==
  ASSUME NEW n \in Nat, NEW rows, DOMAIN rows = 1 .. n, NEW keys, NEW on, NEW measure,
         \A k \in 1 .. n : rows[k][measure] \in Int \cup {Null}, NEW line, NEW v
  PROVE  LET cell == PivotCell(rows, keys, on, measure, line, v)
             S == {j \in 1 .. n : KeyOf(rows[j], keys) = line /\ rows[j][on] = v}
         IN  (IF cell = Null THEN 0 ELSE cell) = SumOf(Addends(rows, S, measure))
<1> DEFINE cell == PivotCell(rows, keys, on, measure, line, v)
           S == {j \in 1 .. n : KeyOf(rows[j], keys) = line /\ rows[j][on] = v}
<1>1. cell = IF S = {} THEN Null ELSE SumOver(rows, S, measure)
  BY DEF PivotCell
<1> HIDE DEF S, cell
<1>2. SumOver(rows, S, measure) = SumOf(Addends(rows, S, measure)) /\ SumOver(rows, S, measure) \in Int
  BY AddendsType
<1>3. \A x \in Int : x # Null
  BY NullAssumption
<1>4. S = {} => SumOf(Addends(rows, S, measure)) = 0
  <2> SUFFICES ASSUME S = {} PROVE SumOf(Addends(rows, S, measure)) = 0
    OBVIOUS
  <2>1. Addends(rows, S, measure) = [j \in 1 .. n |-> 0]
    BY DEF Addends
  <2> QED BY <2>1, SumZero
<1>5. (IF cell = Null THEN 0 ELSE cell) = SumOf(Addends(rows, S, measure))
  BY <1>1, <1>2, <1>3, <1>4
<1> QED BY <1>5 DEF S, cell

LEMMA PivotAddsUp ==
  ASSUME NEW f, FrameOK(f), InStep(f), NEW index \in SUBSET DOMAIN f.columns,
         NEW pivot \in DOMAIN f.columns, NEW measure, HasColumn(f, measure),
         Numeric(f, ColumnIndex(f, measure)), NEW order \in PivotGroups(f, index, pivot),
         CreatePivotTable(f, index, pivot, measure, order) # Refused
  PROVE  CellsTotal(CreatePivotTable(f, index, pivot, measure, order), Range(NamesOf(f, index)))
         = Total(Visible(f), measure)
<1> DEFINE g == CreatePivotTable(f, index, pivot, measure, order)
           names == NamesOf(f, index)
           keys == Range(names)
           on == f.columns[pivot].name
           rows == Visible(f)
           n == Len(f.row_order)
           lines == PivotLines(f, index, order)
           values == PivotValues(f, pivot, order)
           titles == PivotNames(f, pivot, order)
           a == Len(names)
           h == Len(lines)
           b == Len(values)
           all == 1 .. n
           v == Addends(rows, all, measure)
           p == [j \in 1 .. n |-> CHOOSE r \in 1 .. h : lines[r] = KeyOf(rows[j], keys)]
           c == [j \in 1 .. n |-> CHOOSE k \in 1 .. b : values[k] = rows[j][on]]
           q == [j \in 1 .. n |-> a + c[j]]
           entry(r, x) == PivotEntry(f, index, pivot, measure, order, r, x)
           shown(r, x) == IF x \in keys \/ g.rows[r][x] = Null THEN 0 ELSE g.rows[r][x]
<1>1. n \in Nat /\ DOMAIN rows = 1 .. n /\ DOMAIN f.row_order = 1 .. n
  BY VisibleShape
<1>2. \A k \in 1 .. n : rows[k][measure] \in Int \cup {Null}
  <2>1. ColumnIndex(f, measure) \in DOMAIN f.columns /\ f.columns[ColumnIndex(f, measure)].name = measure
    BY MeasureFacts
  <2> QED BY <1>1, <2>1, NumberColumn
<1>3. /\ DOMAIN lines = 1 .. h /\ h \in Nat
      /\ DOMAIN values = 1 .. b /\ b \in Nat
      /\ \A r, s \in DOMAIN lines : lines[r] = lines[s] => r = s
      /\ \A k, l \in DOMAIN values : values[k] = values[l] => k = l
      /\ \A j \in 1 .. n : /\ \E r \in DOMAIN lines : lines[r] = KeyOf(rows[j], keys)
                           /\ \E k \in DOMAIN values : values[k] = rows[j][on]
  BY <1>1, PivotPlaces
<1>4. /\ Distinct(names \o titles) /\ g.df = names \o titles
      /\ g.rows = PivotRows(f, index, pivot, measure, order)
  BY PivotParts DEF FromParts, PivotTitles
<1>5. /\ DOMAIN g.rows = 1 .. h
      /\ \A r \in 1 .. h : /\ DOMAIN g.rows[r] = Range(names \o titles)
                           /\ \A x \in Range(names \o titles) :
                                 g.rows[r][x] = IF x \in keys THEN lines[r][x] ELSE entry(r, x)
  <2> HIDE DEF entry, g
  <2> QED BY <1>3, <1>4 DEF PivotRows, PivotLine, PivotTitles, entry
<1>6. names \in Seq(Texts) /\ a \in Nat /\ DOMAIN names = 1 .. a
  BY NamesOfShape
<1>7. titles \in Seq(Texts) /\ DOMAIN titles = 1 .. b /\ Len(titles) = b
  <2>1. Listing(f, order)
    BY PivotGroupsListed
  <2>2. titles \in Seq(Texts) /\ DOMAIN titles = DOMAIN values
    BY <2>1, PivotNamesShape
  <2> HIDE DEF titles, values
  <2> QED BY <2>2, <1>3
<1>8. \A r, x : entry(r, x) = PivotCell(rows, keys, on, measure, lines[r],
                                        values[CHOOSE k \in DOMAIN titles : titles[k] = x])
  BY DEF PivotEntry
<1>9. v \in [1 .. n -> Int] /\ SumOver(rows, all, measure) = SumOf(v)
  <2> HIDE DEF rows, n, all
  <2> QED BY <1>1, <1>2, AddendsType
<1>10. \A j \in 1 .. n : v[j] = IF rows[j][measure] # Null THEN rows[j][measure] ELSE 0
  BY <1>1 DEF Addends
<1> HIDE DEF g, names, keys, rows, n, lines, values, titles, a, h, b, on, entry, v
<1>11. \A j \in 1 .. n : /\ p[j] \in 1 .. h /\ lines[p[j]] = KeyOf(rows[j], keys)
                         /\ c[j] \in 1 .. b /\ values[c[j]] = rows[j][on]
  BY <1>3
<1>12. p \in [1 .. n -> 1 .. h] /\ c \in [1 .. n -> 1 .. b]
  BY <1>11
<1> HIDE DEF p, c
<1>13. q \in [1 .. n -> 1 .. a + b] /\ \A j \in 1 .. n : q[j] = a + c[j] /\ q[j] > a
  BY <1>3, <1>6, <1>12
<1> HIDE DEF q
<1>14. ASSUME NEW r \in 1 .. h, NEW i \in 1 .. a
       PROVE  shown(r, g.df[i]) = GridCell(n, v, p, q, r, i)
  <2>1. g.df[i] = names[i]
    BY <1>4, <1>6, <1>7, RangeJoined
  <2>2. names[i] \in keys
    BY <1>6, InRange DEF keys
  <2>3. [j \in 1 .. n |-> IF p[j] = r /\ q[j] = i THEN v[j] ELSE 0] = [j \in 1 .. n |-> 0]
    <3>1. \A j \in 1 .. n : q[j] # i
      BY <1>6, <1>13
    <3> QED BY <3>1
  <2>4. GridCell(n, v, p, q, r, i) = 0
    BY <2>3, <1>1, SumZero DEF GridCell
  <2> QED BY <2>1, <2>2, <2>4
<1>15. ASSUME NEW r \in 1 .. h, NEW k \in 1 .. b
       PROVE  shown(r, g.df[a + k]) = GridCell(n, v, p, q, r, a + k)
  <2> DEFINE x == titles[k]
             cell == PivotCell(rows, keys, on, measure, lines[r], values[k])
             S == {j \in 1 .. n : KeyOf(rows[j], keys) = lines[r] /\ rows[j][on] = values[k]}
  <2>1. g.df[a + k] = x /\ x \in Range(titles) /\ Range(names \o titles) = keys \cup Range(titles)
    <3>1. g.df[a + k] = x /\ Range(names \o titles) = keys \cup Range(titles)
      BY <1>4, <1>6, <1>7, RangeJoined DEF a, keys
    <3> QED BY <3>1, <1>7, InRange
  <2>2. keys \cap Range(titles) = {} /\ Distinct(titles)
    BY <1>4, <1>6, <1>7, DistinctJoined DEF keys
  <2>3. x \notin keys /\ g.rows[r][x] = entry(r, x)
    BY <1>5, <2>1, <2>2
  <2>4. (CHOOSE l \in DOMAIN titles : titles[l] = x) = k
    BY <1>7, <2>2 DEF Distinct
  <2>5. entry(r, x) = cell
    BY <1>8, <2>4
  <2>6. shown(r, x) = IF cell = Null THEN 0 ELSE cell
    BY <2>3, <2>5
  <2>7. (IF cell = Null THEN 0 ELSE cell) = SumOf(Addends(rows, S, measure))
    BY <1>1, <1>2, PivotCellSum
  <2> HIDE DEF cell
  <2>8. \A j \in 1 .. n : j \in S <=> p[j] = r /\ q[j] = a + k
    <3> TAKE j \in 1 .. n
    <3>1. j \in S <=> lines[p[j]] = lines[r] /\ values[c[j]] = values[k]
      BY <1>11
    <3>2. lines[p[j]] = lines[r] <=> p[j] = r
      BY <1>3, <1>11
    <3>3. values[c[j]] = values[k] <=> c[j] = k
      BY <1>3, <1>11
    <3>4. c[j] = k <=> q[j] = a + k
      BY <1>3, <1>6, <1>11, <1>13
    <3> QED BY <3>1, <3>2, <3>3, <3>4
  <2> HIDE DEF S
  <2>9. Addends(rows, S, measure) = [j \in 1 .. n |-> IF p[j] = r /\ q[j] = a + k THEN v[j] ELSE 0]
    BY <1>1, <1>10, <2>8 DEF Addends
  <2> QED BY <2>1, <2>6, <2>7, <2>9 DEF GridCell
<1>16. \A r \in 1 .. h, i \in 1 .. a + b : shown(r, g.df[i]) = GridCell(n, v, p, q, r, i)
  <2> TAKE r \in 1 .. h, i \in 1 .. a + b
  <2>1. i \in 1 .. a \/ \E k \in 1 .. b : i = a + k
    <3>1. CASE i > a
      <4>1. i - a \in 1 .. b /\ i = a + (i - a)
        BY <3>1, <1>3, <1>6
      <4> QED BY <4>1
    <3> QED BY <3>1, <1>3, <1>6
  <2> HIDE DEF shown
  <2> QED BY <2>1, <1>14, <1>15
<1>17. DOMAIN g.df = 1 .. a + b /\ a + b \in Nat
  BY <1>3, <1>4, <1>6, <1>7 DEF a
<1> DEFINE line(r) == SumOf([i \in 1 .. a + b |-> shown(r, g.df[i])])
<1>18. CellsTotal(g, keys) = SumOf([r \in 1 .. h |-> line(r)])
  BY <1>5, <1>17 DEF CellsTotal
<1> HIDE DEF shown
<1>19. \A r \in 1 .. h : line(r) = GridLine(n, v, p, q, a + b, r)
  <2> TAKE r \in 1 .. h
  <2>1. [i \in 1 .. a + b |-> shown(r, g.df[i])] = [i \in 1 .. a + b |-> GridCell(n, v, p, q, r, i)]
    BY <1>16
  <2> QED BY <2>1 DEF GridLine
<1> HIDE DEF line
<1>20. CellsTotal(g, keys) = SumOf([r \in 1 .. h |-> GridLine(n, v, p, q, a + b, r)])
  BY <1>18, <1>19
<1>21. SumOf([r \in 1 .. h |-> GridLine(n, v, p, q, a + b, r)]) = SumOf(v)
  <2> DEFINE w == a + b
  <2>1. w \in Nat /\ q \in [1 .. n -> 1 .. w]
    BY <1>13, <1>17
  <2> HIDE DEF w
  <2>2. GridTotal(n, v, p, q, h, w) = SumOf(v)
    <3>1. n \in Nat /\ h \in Nat /\ v \in [1 .. n -> Int] /\ p \in [1 .. n -> 1 .. h]
      BY <1>1, <1>3, <1>9, <1>12
    <3> QED BY <2>1, <3>1, GridSum
  <2> QED BY <2>2 DEF w, GridTotal
<1>22. Total(rows, measure) = SumOf(v)
  BY <1>1, <1>9 DEF Total
<1> QED BY <1>20, <1>21, <1>22 DEF g, keys, names, rows

-----------------------------------------------------------------------------
(* The stack.                                                              *)

SheetOK(s) ==
    /\ s \in [ type : {"table", "frequency", "pivot"}, keys : Seq(Texts), on : Texts,
               frame : {s.frame}, made : Makes ]
    /\ FrameOK(s.frame)
    /\ InStep(s.frame) \/ CountsByPctOrBar(s)

\* A sheet whose headers are not in step with its columns can only be on top, and the
\* lowest is the table that was read.
StackOK(st) ==
    /\ Len(st) \in 1 .. MaxDepth
    /\ IsList(st)
    /\ \A i \in 1 .. Len(st) : SheetOK(st[i])
    /\ \A i \in 1 .. Len(st) - 1 : InStep(st[i].frame)
    /\ st[1].type = "table"

AInv ==
    /\ StackOK(stack)
    /\ changes \in 0 .. MaxChanges
    /\ panicked \in BOOLEAN

LEMMA StackSeq ==
  ASSUME NEW st, StackOK(st), NEW x
  PROVE  /\ st \in Seq({st[i] : i \in 1 .. Len(st)} \cup {x})
         /\ Len(st) \in Nat /\ DOMAIN st = 1 .. Len(st) /\ Len(st) \in 1 .. Len(st)
<1> DEFINE n == Len(st)
           T == {st[i] : i \in 1 .. n} \cup {x}
<1>1. n \in Nat /\ n > 0 /\ st = [i \in 1 .. n |-> st[i]]
  BY BoundsAssumption DEF StackOK, IsList
<1>2. \A i \in 1 .. n : st[i] \in T
  OBVIOUS
<1> HIDE DEF n, T
<1>3. st \in [1 .. n -> T] /\ DOMAIN st = 1 .. n
  BY <1>1, <1>2
<1>4. st \in Seq(T)
  BY <1>1, <1>3, SeqDef
<1> QED BY <1>1, <1>3, <1>4 DEF n, T

LEMMA PushedOK ==
  ASSUME NEW st, StackOK(st), InStep(Last(st).frame), Len(st) < MaxDepth, NEW s, SheetOK(s)
  PROVE  StackOK(Append(st, s))
<1> DEFINE n == Len(st)
           T == {st[i] : i \in 1 .. n} \cup {s}
           new == Append(st, s)
<1>1. st \in Seq(T) /\ n \in Nat /\ n \in 1 .. n /\ s \in T
  BY StackSeq
<1>2. /\ n \in 1 .. MaxDepth /\ st[1].type = "table"
      /\ \A i \in 1 .. n : SheetOK(st[i])
      /\ \A i \in 1 .. n - 1 : InStep(st[i].frame)
  BY DEF StackOK
<1>3. InStep(st[n].frame) /\ n < MaxDepth
  BY DEF Last
<1> HIDE DEF T
<1>4. /\ new \in Seq(T) /\ Len(new) = n + 1 /\ new[n + 1] = s
      /\ \A i \in 1 .. n : new[i] = st[i]
  BY <1>1
<1> HIDE DEF n, new
<1>5. IsList(new)
  BY <1>4, <1>1 DEF IsList
<1>6. \A i \in 1 .. n + 1 : SheetOK(new[i])
  <2> TAKE i \in 1 .. n + 1
  <2>1. i = n + 1 \/ i \in 1 .. n
    BY <1>1
  <2> QED BY <2>1, <1>2, <1>4
<1>7. \A i \in 1 .. n : InStep(new[i].frame)
  <2> TAKE i \in 1 .. n
  <2>1. i = n \/ i \in 1 .. n - 1
    BY <1>1
  <2> QED BY <2>1, <1>2, <1>3, <1>4
<1>8. Len(new) \in 1 .. MaxDepth /\ Len(new) - 1 = n
  BY <1>1, <1>3, <1>4, BoundsAssumption
<1>9. new[1].type = "table"
  <2>1. 1 \in 1 .. n
    BY <1>1
  <2> QED BY <1>2, <1>4, <2>1
<1>10. StackOK(new)
  BY <1>4, <1>5, <1>6, <1>7, <1>8, <1>9 DEF StackOK
<1> QED BY <1>10 DEF new

LEMMA PoppedOK ==
  ASSUME NEW st, StackOK(st), Len(st) > 1
  PROVE  StackOK(Front(st))
<1> DEFINE n == Len(st)
           T == {st[i] : i \in 1 .. n} \cup {0}
           new == Front(st)
<1>1. st \in Seq(T) /\ n \in Nat /\ n > 1
  BY StackSeq
<1>2. /\ n \in 1 .. MaxDepth /\ st[1].type = "table"
      /\ \A i \in 1 .. n : SheetOK(st[i])
      /\ \A i \in 1 .. n - 1 : InStep(st[i].frame)
  BY DEF StackOK
<1>3. new = SubSeq(st, 1, n - 1)
  BY DEF Front
<1> HIDE DEF T, new
<1>4. new \in Seq(T) /\ Len(new) = n - 1 /\ \A i \in 1 .. n - 1 : new[i] = st[i]
  BY <1>1, <1>3
<1> HIDE DEF n
<1>5. IsList(new)
  BY <1>4, <1>1 DEF IsList
<1>6. /\ \A i \in 1 .. n - 1 : SheetOK(new[i])
      /\ \A i \in 1 .. (n - 1) - 1 : InStep(new[i].frame)
      /\ new[1].type = "table" /\ n - 1 \in 1 .. MaxDepth
  BY <1>1, <1>2, <1>4, BoundsAssumption
<1>7. StackOK(new)
  BY <1>4, <1>5, <1>6 DEF StackOK
<1> QED BY <1>7 DEF new

LEMMA ReplacedOK ==
  ASSUME NEW st, StackOK(st), NEW s, SheetOK(s), s.type = Last(st).type
  PROVE  StackOK([st EXCEPT ![Len(st)] = s])
<1> DEFINE n == Len(st)
           new == [st EXCEPT ![n] = s]
<1>1. n \in Nat /\ n \in 1 .. n /\ DOMAIN st = 1 .. n
  BY StackSeq
<1>2. /\ n \in 1 .. MaxDepth /\ st[1].type = "table"
      /\ \A i \in 1 .. n : SheetOK(st[i])
      /\ \A i \in 1 .. n - 1 : InStep(st[i].frame)
  BY DEF StackOK
<1>3. s.type = st[n].type
  BY DEF Last
<1> HIDE DEF n
<1>4. /\ DOMAIN new = 1 .. n /\ new = [i \in 1 .. n |-> new[i]] /\ new[n] = s
      /\ \A i \in 1 .. n : i # n => new[i] = st[i]
  BY <1>1
<1> HIDE DEF new
<1>5. IsList(new) /\ Len(new) = n
  BY <1>1, <1>4, ListFromTo
<1>6. \A i \in 1 .. n : SheetOK(new[i])
  BY <1>2, <1>4
<1>7. \A i \in 1 .. n - 1 : InStep(new[i].frame)
  BY <1>1, <1>2, <1>4
<1>8. new[1].type = "table"
  BY <1>1, <1>2, <1>3, <1>4
<1>9. StackOK(new)
  BY <1>2, <1>5, <1>6, <1>7, <1>8 DEF StackOK
<1> QED BY <1>9 DEF new, n

\* The active sheet with another frame, and with another history too.
Reframed(st, f) == [st EXCEPT ![Len(st)].frame = f]
Remade(st, f) == [st EXCEPT ![Len(st)].frame = f, ![Len(st)].made = "reshaped"]

WithFrame(s, f) == [s EXCEPT !.frame = f]
Reshaped(s, f) == [s EXCEPT !.frame = f, !.made = "reshaped"]

LEMMA SheetParts ==
  ASSUME NEW s, SheetOK(s), NEW f, FrameOK(f), InStep(f)
  PROVE  /\ SheetOK(WithFrame(s, f)) /\ WithFrame(s, f).type = s.type
         /\ SheetOK(Reshaped(s, f)) /\ Reshaped(s, f).type = s.type
<1> DEFINE m == "reshaped"
           h == [s EXCEPT !.frame = f]
           i == [h EXCEPT !.made = m]
<1>1. Reshaped(s, f) = i /\ WithFrame(s, f) = h
  BY DEF Reshaped, WithFrame
<1>m. m \in Makes
  BY DEF Makes
<1> HIDE DEF m
<1>2. /\ s \in [ type : {"table", "frequency", "pivot"}, keys : Seq(Texts), on : Texts,
                 frame : {s.frame}, made : Makes ]
  BY DEF SheetOK
<1>3. /\ h \in [ type : {"table", "frequency", "pivot"}, keys : Seq(Texts), on : Texts,
                 frame : {f}, made : Makes ]
      /\ h.frame = f /\ h.type = s.type
  BY <1>2
<1> HIDE DEF h
<1>4. /\ i \in [ type : {"table", "frequency", "pivot"}, keys : Seq(Texts), on : Texts,
                 frame : {f}, made : Makes ]
      /\ i.frame = f /\ i.type = s.type
  BY <1>3, <1>m
<1> HIDE DEF i
<1>5. SheetOK(h) /\ SheetOK(i)
  BY <1>3, <1>4 DEF SheetOK
<1> QED BY <1>1, <1>3, <1>4, <1>5

LEMMA ExceptTop ==
  ASSUME NEW st, StackOK(st), NEW f
  PROVE  /\ Reframed(st, f) = [st EXCEPT ![Len(st)] = WithFrame(Last(st), f)]
         /\ Remade(st, f) = [st EXCEPT ![Len(st)] = Reshaped(Last(st), f)]
<1> DEFINE n == Len(st)
           m == "reshaped"
           s == st[n]
           a == WithFrame(s, f)
           b == Reshaped(s, f)
<1>1. n \in 1 .. n /\ DOMAIN st = 1 .. n /\ s = Last(st)
  BY StackSeq DEF Last
<1>4. Reframed(st, f) = [st EXCEPT ![n] = a]
  BY <1>1 DEF Reframed, WithFrame
<1>5. Remade(st, f) = [st EXCEPT ![n] = b]
  <2> DEFINE u == [st EXCEPT ![n].frame = f]
             v == [u EXCEPT ![n].made = m]
  <2>1. Remade(st, f) = v
    BY DEF Remade
  <2> HIDE DEF n
  <2>2. DOMAIN u = DOMAIN st /\ u[n] = a /\ \A i \in DOMAIN st : i # n => u[i] = st[i]
    BY <1>1 DEF WithFrame
  <2> HIDE DEF u
  <2>3. DOMAIN v = DOMAIN st /\ v[n] = [a EXCEPT !.made = m] /\ \A i \in DOMAIN st : i # n => v[i] = st[i]
    BY <1>1, <2>2
  <2>3b. v = [i \in DOMAIN st |-> v[i]]
    <3>1. DOMAIN v = DOMAIN st
      BY <2>2
    <3> QED BY <3>1
  <2>4. [a EXCEPT !.made = m] = b
    BY DEF WithFrame, Reshaped
  <2> HIDE DEF v, b, a
  <2>5. v = [i \in DOMAIN st |-> IF i = n THEN b ELSE st[i]]
    <3>1. \A i \in DOMAIN st : v[i] = IF i = n THEN b ELSE st[i]
      BY <2>3, <2>4
    <3>2. v = [i \in DOMAIN st |-> v[i]]
      BY <2>3b
    <3> QED BY <3>1, <3>2
  <2>6. [st EXCEPT ![n] = b] = [i \in DOMAIN st |-> IF i = n THEN b ELSE st[i]]
    OBVIOUS
  <2> QED BY <2>1, <2>5, <2>6
<1> QED BY <1>1, <1>4, <1>5

LEMMA ReframedOK ==
  ASSUME NEW st, StackOK(st), NEW f, FrameOK(f), InStep(f)
  PROVE  StackOK(Reframed(st, f)) /\ StackOK(Remade(st, f))
<1> DEFINE n == Len(st)
           s == Last(st)
           a == WithFrame(s, f)
           b == Reshaped(s, f)
<1>1. n \in 1 .. n /\ DOMAIN st = 1 .. n
  BY StackSeq
<1>2. SheetOK(s)
  BY <1>1 DEF StackOK, Last
<1>4. Reframed(st, f) = [st EXCEPT ![n] = a] /\ Remade(st, f) = [st EXCEPT ![n] = b]
  BY ExceptTop
<1> HIDE DEF s
<1>6. SheetOK(a) /\ a.type = s.type /\ SheetOK(b) /\ b.type = s.type
  BY <1>2, SheetParts
<1> HIDE DEF a, b
<1>7. StackOK([st EXCEPT ![Len(st)] = a]) /\ StackOK([st EXCEPT ![Len(st)] = b])
  BY <1>2, <1>6, ReplacedOK DEF s
<1> QED BY <1>4, <1>7 DEF n

LEMMA TopFacts ==
  ASSUME AInv
  PROVE  /\ SheetOK(Top) /\ FrameOK(frame) /\ (InStep(frame) \/ CountsByPctOrBar(Top))
         /\ Top = stack[Len(stack)] /\ Len(stack) \in Nat /\ Len(stack) > 0
         /\ Len(stack) = 1 => Top.type = "table"
         /\ Len(stack) > 1 => FrameOK(Under) /\ InStep(Under)
<1>1. StackOK(stack)
  BY DEF AInv
<1>2. Len(stack) \in Nat /\ Len(stack) > 0
  BY <1>1, BoundsAssumption DEF StackOK
<1>3. SheetOK(Top) /\ Top = stack[Len(stack)] /\ (Len(stack) = 1 => Top.type = "table")
  BY <1>1, <1>2 DEF Top, Last, StackOK
<1>4. Len(stack) > 1 => SheetOK(stack[Len(stack) - 1]) /\ InStep(stack[Len(stack) - 1].frame)
  BY <1>1, <1>2 DEF StackOK
<1>5. FrameOK(frame) /\ (InStep(frame) \/ CountsByPctOrBar(Top))
  BY <1>3 DEF SheetOK, frame
<1>6. Len(stack) > 1 => FrameOK(Under) /\ InStep(Under)
  BY <1>4 DEF SheetOK, Under
<1> QED BY <1>2, <1>3, <1>5, <1>6

LEMMA PushKeeps ==
  ASSUME AInv, Regular, NEW s, SheetOK(s), Push(s)
  PROVE  StackOK(stack')
<1>1. StackOK(stack) /\ Len(stack) < MaxDepth /\ stack' = Append(stack, s)
  BY DEF AInv, Push
<1>2. InStep(Last(stack).frame)
  BY DEF Regular, frame, Top
<1>3. StackOK(Append(stack, s))
  BY <1>1, <1>2, PushedOK
<1> QED BY <1>1, <1>3

LEMMA ReorderKeeps ==
  ASSUME AInv, NEW f, FrameOK(f), InStep(f), Reorder(f)
  PROVE  StackOK(stack')
<1>1. StackOK(stack) /\ stack' = Reframed(stack, f)
  BY DEF AInv, Reorder, Reframed
<1>2. StackOK(Reframed(stack, f))
  BY <1>1, ReframedOK
<1> QED BY <1>1, <1>2

LEMMA ReshapeKeeps ==
  ASSUME AInv, NEW f, f # Refused => FrameOK(f) /\ InStep(f), Reshape(f)
  PROVE  StackOK(stack')
<1>1. StackOK(stack)
  BY DEF AInv
<1>2. CASE f = Refused
  <2>1. stack' = stack
    BY <1>2 DEF Reshape
  <2> QED BY <1>1, <2>1
<1>3. CASE f # Refused
  <2>1. stack' = Remade(stack, f)
    BY <1>3 DEF Reshape, Remade
  <2>2. StackOK(Remade(stack, f))
    BY <1>1, <1>3, ReframedOK
  <2> QED BY <2>1, <2>2
<1> QED BY <1>2, <1>3

LEMMA DerivedOK ==
  ASSUME NEW f, FrameOK(f), InStep(f), NEW m \in Makes
  PROVE  SheetOK(Derived(m, f))
BY DEF SheetOK, Derived, Texts, Empty

LEMMA DrillKeeps ==
  ASSUME AInv, Regular, Len(stack) > 1, NEW names, NEW texts, DrillInto(names, texts)
  PROVE  StackOK(stack')
<1> DEFINE shown == Matching(Under, names, texts)
           f == Narrowed(Under, shown)
<1>1. FrameOK(Under) /\ InStep(Under)
  BY TopFacts
<1>2. shown \subseteq DOMAIN Under.row_order
  BY DEF Matching
<1>3. FrameOK(f) /\ InStep(f)
  <2> DEFINE g == Under
             s == shown
  <2>1. FrameOK(g) /\ InStep(g) /\ s \subseteq DOMAIN g.row_order
    BY <1>1, <1>2
  <2> HIDE DEF g, s
  <2>2. FrameOK(Narrowed(g, s)) /\ InStep(Narrowed(g, s))
    BY <2>1, NarrowedKeeps
  <2> QED BY <2>2 DEF g, s
<1>4. stack' = stack \/ Push(Derived("drilled", f))
  BY DEF DrillInto
<1> HIDE DEF f
<1>5. SheetOK(Derived("drilled", f))
  BY <1>3, DerivedOK DEF Makes
<1>6. StackOK(stack)
  BY DEF AInv
<1>7. CASE stack' = stack
  BY <1>6, <1>7
<1>8. CASE Push(Derived("drilled", f))
  BY <1>5, <1>8, PushKeeps
<1> QED BY <1>4, <1>7, <1>8

LEMMA InitOK ==
  ASSUME Init
  PROVE  AInv
<1>1. PICK f \in Tables : stack = <<Derived("loaded", f)>>
  BY DEF Init
<1>2. FrameOK(f) /\ InStep(f)
  BY TablesAssumption
<1> DEFINE s == Derived("loaded", f)
<1>3. SheetOK(s) /\ s.type = "table"
  <2>1. SheetOK(s)
    BY <1>2, DerivedOK DEF Makes
  <2> QED BY <2>1 DEF Derived
<1> HIDE DEF s
<1>4. stack = <<s>>
  BY <1>1 DEF s
<1>5. Len(stack) = 1 /\ stack[1] = s /\ IsList(stack)
  BY <1>4 DEF IsList
<1>6. StackOK(stack)
  BY <1>3, <1>5, BoundsAssumption DEF StackOK
<1>7. changes \in 0 .. MaxChanges /\ panicked \in BOOLEAN
  <2>1. changes = 0 /\ panicked = FALSE
    BY DEF Init
  <2>2. changes \in 0 .. MaxChanges
    BY <2>1, BoundsAssumption
  <2>3. panicked \in BOOLEAN
    BY <2>1, Zenon
  <2> QED BY <2>2, <2>3
<1> QED BY <1>6, <1>7 DEF AInv

\* The commands that leave the active sheet a table with the names of its columns.
LEMMA InPlaceKeeps ==
  ASSUME AInv, InStep(frame),
         \/ \E c \in Cols, desc \in BOOLEAN : SortCursorColumn(c, desc)
         \/ ResetSort
         \/ \E k \in Lines : ToggleSelected(k)
         \/ DeleteSelected
         \/ \E c \in Cols : TogglePin(c)
  PROVE  StackOK(stack')
<1>1. FrameOK(frame)
  BY TopFacts
<1>2. ASSUME NEW c \in Cols, NEW desc \in BOOLEAN, SortCursorColumn(c, desc) PROVE StackOK(stack')
  <2> DEFINE f == SortByKey(frame, c, desc)
  <2>1. Numeric(frame, c) /\ Reorder(f) /\ c \in DOMAIN frame.columns
    BY <1>2 DEF SortCursorColumn, Cols
  <2>2. FrameOK(f) /\ InStep(f)
    BY <1>1, <2>1, SortKeeps
  <2> HIDE DEF f
  <2> QED BY <2>1, <2>2, ReorderKeeps
<1>3. ASSUME ResetSort PROVE StackOK(stack')
  <2> DEFINE f == ResetSortOrder(frame)
  <2>1. Reorder(f)
    BY <1>3 DEF ResetSort
  <2>2. FrameOK(f) /\ InStep(f)
    BY <1>1, ResetSortKeeps
  <2> HIDE DEF f
  <2> QED BY <2>1, <2>2, ReorderKeeps
<1>4. ASSUME NEW k \in Lines, ToggleSelected(k) PROVE StackOK(stack')
  <2> DEFINE row == frame.row_order[k]
             s == IF row \in frame.selected_rows THEN frame.selected_rows \ {row}
                  ELSE frame.selected_rows \cup {row}
             f == [frame EXCEPT !.selected_rows = s]
  <2>1. Reorder(f)
    BY <1>4 DEF ToggleSelected
  <2>2. row \in DOMAIN frame.rows
    BY <1>1, VisibleShape DEF Lines
  <2>3. frame.selected_rows \subseteq DOMAIN frame.rows
    BY <1>1, FrameIsParts DEF ListsOK
  <2>4. s \subseteq DOMAIN frame.rows
    BY <2>2, <2>3
  <2> HIDE DEF s
  <2>5. FrameOK(f) /\ InStep(f)
    BY <1>1, <2>4, MarkKeeps
  <2> HIDE DEF f
  <2> QED BY <2>1, <2>5, ReorderKeeps
<1>5. ASSUME DeleteSelected PROVE StackOK(stack')
  <2> DEFINE f == DeleteSelectedRows(frame)
  <2>1. Reorder(f)
    BY <1>5 DEF DeleteSelected
  <2>2. FrameOK(f) /\ InStep(f)
    BY <1>1, DeleteKeeps
  <2> HIDE DEF f
  <2> QED BY <2>1, <2>2, ReorderKeeps
<1>6. ASSUME NEW c \in Cols, TogglePin(c) PROVE StackOK(stack')
  <2> DEFINE f == TogglePinColumn(frame, c)
  <2>1. Reorder(f) /\ c \in DOMAIN frame.columns
    BY <1>6 DEF TogglePin, Reorder, Cols
  <2>2. FrameOK(f) /\ InStep(f)
    BY <1>1, <2>1, PinKeeps
  <2> HIDE DEF f
  <2> QED BY <2>1, <2>2, ReorderKeeps
<1> QED BY <1>2, <1>3, <1>4, <1>5, <1>6

\* The commands that give the active sheet other columns.
LEMMA ColumnsKeep ==
  ASSUME AInv, InStep(frame),
         \/ \E c \in Cols, name \in NewNames : ApplyRenameColumn(c, name)
         \/ \E c \in Cols : DeleteColumn(c)
         \/ \E c \in Cols, name \in NewNames : ApplyInsertColumn(c, name)
         \/ \E c \in Cols : MoveColumn(c)
         \/ \E w \in WindowsOf(frame, Functions) : AddWindow(w)
         \/ TransposeWhole
  PROVE  StackOK(stack')
<1>1. FrameOK(frame) /\ NewNames \subseteq Texts
  BY TopFacts, NamesAssumption
<1>2. ASSUME NEW c \in Cols, NEW name \in NewNames, ApplyRenameColumn(c, name) PROVE StackOK(stack')
  <2> DEFINE f == RenameColumn(frame, c, name)
  <2>1. Reshape(f) /\ c \in DOMAIN frame.columns /\ name \in Texts
    BY <1>1, <1>2 DEF ApplyRenameColumn, Cols
  <2>2. FrameOK(f) /\ InStep(f)
    BY <1>1, <2>1, RenameKeeps
  <2> HIDE DEF f
  <2> QED BY <2>1, <2>2, ReshapeKeeps
<1>3. ASSUME NEW c \in Cols, DeleteColumn(c) PROVE StackOK(stack')
  <2> DEFINE f == DropColumn(frame, c)
  <2>1. Reshape(f) /\ c \in DOMAIN frame.columns /\ Len(frame.columns) > 1
    BY <1>3 DEF DeleteColumn, Cols
  <2>2. FrameOK(f) /\ InStep(f)
    BY <1>1, <2>1, DropKeeps
  <2> HIDE DEF f
  <2> QED BY <2>1, <2>2, ReshapeKeeps
<1>4. ASSUME NEW c \in Cols, NEW name \in NewNames, ApplyInsertColumn(c, name) PROVE StackOK(stack')
  <2> DEFINE f == InsertEmptyColumn(frame, c, name)
  <2>1. Reshape(f) /\ c \in DOMAIN frame.columns /\ name \in Texts
    BY <1>1, <1>4 DEF ApplyInsertColumn, Cols
  <2>2. FrameOK(f) /\ InStep(f)
    BY <1>1, <2>1, InsertKeeps
  <2> HIDE DEF f
  <2> QED BY <2>1, <2>2, ReshapeKeeps
<1>5. ASSUME NEW c \in Cols, MoveColumn(c) PROVE StackOK(stack')
  <2> DEFINE d == c + 1
             f == SwapColumns(frame, c, d)
  <2>1. Reshape(f) /\ c \in DOMAIN frame.columns /\ d \in DOMAIN frame.columns
    BY <1>5 DEF MoveColumn, Cols
  <2> HIDE DEF d
  <2>2. FrameOK(f) /\ InStep(f)
    BY <1>1, <2>1, SwapKeeps
  <2> HIDE DEF f
  <2> QED BY <2>1, <2>2, ReshapeKeeps
<1>6. ASSUME NEW w \in WindowsOf(frame, Functions), AddWindow(w) PROVE StackOK(stack')
  <2> DEFINE f == AddWindowColumn(frame, w)
  <2>1. Reshape(f)
    BY <1>6 DEF AddWindow
  <2>2. WindowOK(frame, w)
    BY WindowsOfOK
  <2>3. f # Refused => FrameOK(f) /\ InStep(f)
    BY <1>1, <2>2, WindowKeeps
  <2> HIDE DEF f
  <2> QED BY <2>1, <2>3, ReshapeKeeps
<1>7. ASSUME TransposeWhole PROVE StackOK(stack')
  <2> DEFINE f == TransposeTable(frame)
  <2>1. Reshape(f)
    BY <1>7 DEF TransposeWhole
  <2>2. f # Refused => FrameOK(f) /\ InStep(f)
    BY <1>1, TransposeKeeps
  <2> HIDE DEF f
  <2> QED BY <2>1, <2>2, ReshapeKeeps
<1> QED BY <1>2, <1>3, <1>4, <1>5, <1>6, <1>7

LEMMA FrequencyOK ==
  ASSUME FrameOK(frame), InStep(frame), NEW cols \in SUBSET Cols, NEW f, FrameOK(f),
         Range(NamesOf(frame, cols)) \cap {Pct, Bar} = {} => InStep(f)
  PROVE  SheetOK(Frequency(cols, f))
<1> DEFINE s == Frequency(cols, f)
           g == frame
<1>1. NamesOf(g, cols) \in Seq(Texts)
  <2>1. FrameOK(g) /\ InStep(g) /\ cols \in SUBSET DOMAIN g.columns
    BY DEF Cols
  <2> HIDE DEF g
  <2> QED BY <2>1, NamesOfShape
<1>2. Empty \in Texts /\ "frequency" \in Makes
  BY EmptyIsValue DEF Makes
<1> DEFINE names == NamesOf(g, cols)
<1>3. s = [type |-> "frequency", keys |-> names, on |-> Empty, frame |-> f, made |-> "frequency"]
  BY DEF Frequency
<1>4. names \in Seq(Texts)
  BY <1>1
<1>5. Range(names) \cap {Pct, Bar} = {} => InStep(f)
  OBVIOUS
<1> HIDE DEF names, s
<1>6. s.type = "frequency" /\ s.keys = names /\ s.frame = f
      /\ s \in [ type : {"table", "frequency", "pivot"}, keys : Seq(Texts), on : Texts,
                 frame : {s.frame}, made : Makes ]
  BY <1>2, <1>3, <1>4
<1>7. InStep(s.frame) \/ CountsByPctOrBar(s)
  BY <1>5, <1>6 DEF CountsByPctOrBar
<1>8. SheetOK(s)
  BY <1>6, <1>7 DEF SheetOK
<1> QED BY <1>8 DEF s

\* The commands that open a sheet computed from the active one.
LEMMA OpenKeeps ==
  ASSUME AInv, InStep(frame),
         \/ \E c \in Cols : OpenFrequencyTable(c)
         \/ OpenMultiFrequencyTable
         \/ OpenGroupBy
         \/ \E c \in Cols : ApplyPivotTable(c)
         \/ \E k \in Lines : OpenRow(k)
         \/ \E c \in Cols : \E label \in Bars(frame, c) : ChartDrillDown(c, label)
  PROVE  StackOK(stack')
<1>1. FrameOK(frame) /\ Regular
  BY TopFacts DEF Regular
<1>2. ASSUME UNCHANGED stack PROVE StackOK(stack')
  BY <1>2 DEF AInv
<1>p. Pinned(frame) \in SUBSET DOMAIN frame.columns
  BY DEF Pinned
<1>3. ASSUME NEW c \in Cols, OpenFrequencyTable(c) PROVE StackOK(stack')
  <2> DEFINE f == BuildFrequencyTable(frame, c)
             S == {c}
  <2>1. (f = Refused /\ UNCHANGED stack) \/ (f # Refused /\ Push(Frequency(S, f)))
    BY <1>3 DEF OpenFrequencyTable
  <2>2. f # Refused => FrameOK(f) /\ (Range(NamesOf(frame, S)) \cap {Pct, Bar} = {} => InStep(f))
    BY <1>1, FrequencyKeeps DEF Cols
  <2>3. S \in SUBSET Cols
    OBVIOUS
  <2> HIDE DEF f, S
  <2>4. f # Refused => SheetOK(Frequency(S, f))
    BY <1>1, <2>2, <2>3, FrequencyOK
  <2> QED BY <1>1, <1>2, <2>1, <2>4, PushKeeps
<1>4. ASSUME OpenMultiFrequencyTable PROVE StackOK(stack')
  <2> DEFINE S == Pinned(frame)
             f == BuildMultiFrequencyTable(frame, S)
  <2>1. (f = Refused /\ UNCHANGED stack) \/ (f # Refused /\ Push(Frequency(S, f)))
    BY <1>4 DEF OpenMultiFrequencyTable
  <2>2. S \in SUBSET DOMAIN frame.columns
    BY <1>p
  <2> HIDE DEF S
  <2>3. f # Refused => FrameOK(f) /\ (Range(NamesOf(frame, S)) \cap {Pct, Bar} = {} => InStep(f))
    BY <1>1, <2>2, MultiFrequencyKeeps
  <2>4. S \in SUBSET Cols
    BY <2>2 DEF Cols
  <2> HIDE DEF f
  <2>5. f # Refused => SheetOK(Frequency(S, f))
    BY <1>1, <2>3, <2>4, FrequencyOK
  <2> QED BY <1>1, <1>2, <2>1, <2>5, PushKeeps
<1>5. ASSUME OpenGroupBy PROVE StackOK(stack')
  <2> DEFINE S == Pinned(frame)
             A == Aggregated(frame, S)
             f == GroupBy(frame, S, A)
  <2>1. S # {} /\ ((f = Refused /\ UNCHANGED stack) \/ (f # Refused /\ Push(Derived("group", f))))
    BY <1>5 DEF OpenGroupBy
  <2>2. S \in SUBSET DOMAIN frame.columns
    BY <1>p
  <2>3. A \in SUBSET DOMAIN frame.columns /\ \A j \in A : Numeric(frame, j)
    BY AggregatedShape
  <2> HIDE DEF S, A
  <2>4. f # Refused => FrameOK(f) /\ InStep(f)
    BY <1>1, <2>1, <2>2, <2>3, GroupByKeeps
  <2> HIDE DEF f
  <2>5. f # Refused => SheetOK(Derived("group", f))
    BY <2>4, DerivedOK DEF Makes
  <2> QED BY <1>1, <1>2, <2>1, <2>5, PushKeeps
<1>6. ASSUME NEW c \in Cols, ApplyPivotTable(c) PROVE StackOK(stack')
  <2> DEFINE S == Pinned(frame)
             sheet(f) == [type |-> "pivot", keys |-> NamesOf(frame, S),
                          on |-> frame.columns[c].name, frame |-> f, made |-> "pivot"]
  <2>1. PICK order \in PivotGroups(frame, S, c) :
          LET f == CreatePivotTable(frame, S, c, Measure, order)
          IN  IF f = Refused THEN UNCHANGED stack ELSE Push(sheet(f))
    BY <1>6 DEF ApplyPivotTable
  <2> DEFINE f == CreatePivotTable(frame, S, c, Measure, order)
  <2>2. (f = Refused /\ UNCHANGED stack) \/ (f # Refused /\ Push(sheet(f)))
    BY <2>1
  <2>3. S # {} /\ HasColumn(frame, Measure) /\ Numeric(frame, ColumnIndex(frame, Measure))
        /\ c \in DOMAIN frame.columns
    BY <1>6 DEF ApplyPivotTable, Cols
  <2>4. S \in SUBSET DOMAIN frame.columns
    BY <1>p
  <2> HIDE DEF S
  <2>5. f # Refused => FrameOK(f) /\ InStep(f)
    BY <1>1, <2>3, <2>4, PivotKeeps
  <2>6. NamesOf(frame, S) \in Seq(Texts) /\ frame.columns[c].name \in Texts
    BY <1>1, <2>3, <2>4, NamesOfShape, RegularShape
  <2> HIDE DEF f
  <2>7. f # Refused => SheetOK(sheet(f))
    BY <2>5, <2>6 DEF SheetOK, Makes
  <2> HIDE DEF sheet
  <2> QED BY <1>1, <1>2, <2>2, <2>7, PushKeeps
<1>7. ASSUME NEW k \in Lines, OpenRow(k) PROVE StackOK(stack')
  <2> DEFINE f == TransposeRow(frame, frame.row_order[k])
  <2>1. Push(Derived("row", f)) /\ k \in DOMAIN frame.row_order
    BY <1>7 DEF OpenRow, Lines
  <2>2. FrameOK(f) /\ InStep(f)
    BY <1>1, <2>1, TransposeRowKeeps
  <2> HIDE DEF f
  <2>3. SheetOK(Derived("row", f))
    BY <2>2, DerivedOK DEF Makes
  <2> QED BY <1>1, <2>1, <2>3, PushKeeps
<1>8. ASSUME NEW c \in Cols, NEW label, ChartDrillDown(c, label) PROVE StackOK(stack')
  <2> DEFINE S == FindRowsByValue(frame, c, label)
             f == Narrowed(frame, S)
  <2>1. UNCHANGED stack \/ Push(Derived("bar", f))
    BY <1>8 DEF ChartDrillDown
  <2>2. S \subseteq DOMAIN frame.row_order
    BY DEF FindRowsByValue
  <2> HIDE DEF S
  <2>3. FrameOK(f) /\ InStep(f)
    BY <1>1, <2>2, NarrowedKeeps
  <2> HIDE DEF f
  <2>4. SheetOK(Derived("bar", f))
    BY <2>3, DerivedOK DEF Makes
  <2> QED BY <1>1, <1>2, <2>1, <2>4, PushKeeps
<1> QED BY <1>3, <1>4, <1>5, <1>6, <1>7, <1>8

LEMMA DrillDownsKeep ==
  ASSUME AInv, InStep(frame),
         \/ \E k \in Lines : DrillDownFrequency(k)
         \/ \E k \in Lines, c \in Cols : DrillDownPivot(k, c)
  PROVE  StackOK(stack')
<1>1. Regular /\ Len(stack) \in Nat /\ Len(stack) > 0 /\ (Len(stack) = 1 => Top.type = "table")
  BY TopFacts DEF Regular
<1>2. ASSUME UNCHANGED stack PROVE StackOK(stack')
  BY <1>2 DEF AInv
<1>3. ASSUME NEW k \in Lines, DrillDownFrequency(k) PROVE StackOK(stack')
  <2>1. Top.type = "frequency"
    BY <1>3 DEF DrillDownFrequency
  <2> DEFINE n == Len(stack)
  <2>a. n # 1
    BY <1>1, <2>1, Zenon
  <2>b. n \in Nat /\ n > 0
    BY <1>1
  <2> HIDE DEF n
  <2>c. n > 1
    BY <2>a, <2>b
  <2>2. Len(stack) > 1
    BY <2>c DEF n
  <2>3. \E names, texts : DrillInto(names, texts)
    BY <1>3 DEF DrillDownFrequency
  <2> QED BY <1>1, <2>2, <2>3, DrillKeeps
<1>4. ASSUME NEW k \in Lines, NEW c \in Cols, DrillDownPivot(k, c) PROVE StackOK(stack')
  <2>1. Top.type = "pivot"
    BY <1>4 DEF DrillDownPivot
  <2> DEFINE n == Len(stack)
  <2>a. n # 1
    BY <1>1, <2>1, Zenon
  <2>b. n \in Nat /\ n > 0
    BY <1>1
  <2> HIDE DEF n
  <2>c. n > 1
    BY <2>a, <2>b
  <2>2. Len(stack) > 1
    BY <2>c DEF n
  <2>3. UNCHANGED stack \/ \E names, texts : DrillInto(names, texts)
    BY <1>4 DEF DrillDownPivot
  <2> QED BY <1>1, <1>2, <2>2, <2>3, DrillKeeps
<1> QED BY <1>3, <1>4

LEMMA StepInStep ==
  ASSUME Next
  PROVE  Pop \/ InStep(frame)
<1>1. Running => InStep(frame)
  BY DEF Running, Regular
<1>2. (Command => InStep(frame)) /\ (Change => InStep(frame))
  BY <1>1 DEF Command, Change
<1> QED BY <1>1, <1>2 DEF Next, SortCursorColumn, ResetSort, ToggleSelected, DeleteSelected,
           TogglePin, ApplyRenameColumn, DeleteColumn, ApplyInsertColumn, MoveColumn, AddWindow,
           TransposeWhole, OpenFrequencyTable, OpenMultiFrequencyTable, OpenGroupBy,
           ApplyPivotTable, OpenRow, DrillDownFrequency, DrillDownPivot, ChartDrillDown, Regular

LEMMA StepStack ==
  ASSUME AInv, Next
  PROVE  StackOK(stack')
<1>1. CASE Pop
  <2>1. Len(stack) > 1 /\ stack' = Front(stack) /\ StackOK(stack)
    BY <1>1 DEF Pop, AInv
  <2> QED BY <2>1, PoppedOK
<1>2. CASE ~Pop
  <2>1. InStep(frame)
    BY <1>2, StepInStep
  <2>2. CASE \/ \E c \in Cols, desc \in BOOLEAN : SortCursorColumn(c, desc)
             \/ ResetSort
             \/ \E k \in Lines : ToggleSelected(k)
             \/ DeleteSelected
             \/ \E c \in Cols : TogglePin(c)
    BY <2>1, <2>2, InPlaceKeeps
  <2>3. CASE \/ \E c \in Cols, name \in NewNames : ApplyRenameColumn(c, name)
             \/ \E c \in Cols : DeleteColumn(c)
             \/ \E c \in Cols, name \in NewNames : ApplyInsertColumn(c, name)
             \/ \E c \in Cols : MoveColumn(c)
             \/ \E w \in WindowsOf(frame, Functions) : AddWindow(w)
             \/ TransposeWhole
    BY <2>1, <2>3, ColumnsKeep
  <2>4. CASE \/ \E c \in Cols : OpenFrequencyTable(c)
             \/ OpenMultiFrequencyTable
             \/ OpenGroupBy
             \/ \E c \in Cols : ApplyPivotTable(c)
             \/ \E k \in Lines : OpenRow(k)
             \/ \E c \in Cols : \E label \in Bars(frame, c) : ChartDrillDown(c, label)
    BY <2>1, <2>4, OpenKeeps
  <2>5. CASE \/ \E k \in Lines : DrillDownFrequency(k)
             \/ \E k \in Lines, c \in Cols : DrillDownPivot(k, c)
    BY <2>1, <2>5, DrillDownsKeep
  <2> QED BY <1>2, <2>2, <2>3, <2>4, <2>5 DEF Next
<1> QED BY <1>1, <1>2

LEMMA StepCounts ==
  ASSUME AInv, Next
  PROVE  changes' \in 0 .. MaxChanges /\ panicked' \in BOOLEAN
<1>1. changes \in 0 .. MaxChanges /\ panicked \in BOOLEAN
  BY DEF AInv
<1>2. Running => panicked' \in BOOLEAN
  BY <1>1 DEF Running
<1>3. Command => changes' \in 0 .. MaxChanges /\ panicked' \in BOOLEAN
  BY <1>1, <1>2 DEF Command
<1>4. Change => changes' \in 0 .. MaxChanges /\ panicked' \in BOOLEAN
  <2>1. Change => changes' \in 0 .. MaxChanges
    BY <1>1, BoundsAssumption DEF Change
  <2>2. Change => panicked' \in BOOLEAN
    BY <1>2 DEF Change
  <2> QED BY <2>1, <2>2
<1>5. ASSUME Pop PROVE changes' \in 0 .. MaxChanges /\ panicked' \in BOOLEAN
  BY <1>1, <1>5 DEF Pop
<1>6. ASSUME NEW w, AddWindow(w) PROVE changes' \in 0 .. MaxChanges /\ panicked' \in BOOLEAN
  <2>1. Running /\ changes' = MaxChanges
    BY <1>6 DEF AddWindow
  <2>2. MaxChanges \in 0 .. MaxChanges
    BY BoundsAssumption
  <2> QED BY <1>2, <2>1, <2>2
<1>7. ASSUME NEW k, NEW c, DrillDownPivot(k, c)
      PROVE  changes' \in 0 .. MaxChanges /\ panicked' \in BOOLEAN
  <2>1. changes' = changes
    BY <1>7 DEF DrillDownPivot
  <2>2. panicked' = panicked \/ panicked' \in BOOLEAN
    BY <1>7 DEF DrillDownPivot
  <2> QED BY <1>1, <2>1, <2>2
<1>8. Pop \/ Command \/ Change \/ (\E w : AddWindow(w)) \/ (\E k, c : DrillDownPivot(k, c))
  BY DEF Next, SortCursorColumn, ResetSort, ToggleSelected, DeleteSelected,
         TogglePin, ApplyRenameColumn, DeleteColumn, ApplyInsertColumn, MoveColumn,
         TransposeWhole, OpenFrequencyTable, OpenMultiFrequencyTable, OpenGroupBy,
         ApplyPivotTable, OpenRow, DrillDownFrequency, ChartDrillDown
<1> QED BY <1>3, <1>4, <1>5, <1>6, <1>7, <1>8

LEMMA AInvInductive == AInv /\ [Next]_vars => AInv'
<1> SUFFICES ASSUME AInv, [Next]_vars PROVE AInv'
  OBVIOUS
<1>1. CASE Next
  <2>1. StackOK(stack')
    BY <1>1, StepStack
  <2>2. changes' \in 0 .. MaxChanges /\ panicked' \in BOOLEAN
    BY <1>1, StepCounts
  <2> QED BY <2>1, <2>2 DEF AInv
<1>2. CASE UNCHANGED vars
  BY <1>2 DEF AInv, vars
<1> QED BY <1>1, <1>2

LEMMA AInvMeans == AInv => TypeOK /\ HeadersMatchColumns
<1> SUFFICES ASSUME AInv PROVE TypeOK /\ HeadersMatchColumns
  OBVIOUS
<1>1. /\ Len(stack) \in 1 .. MaxDepth /\ IsList(stack)
      /\ \A i \in 1 .. Len(stack) : SheetOK(stack[i])
      /\ changes \in 0 .. MaxChanges /\ panicked \in BOOLEAN
  BY DEF AInv, StackOK
<1>2. DOMAIN stack = 1 .. Len(stack)
  BY StackSeq DEF AInv
<1>3. TypeOK
  BY <1>1, <1>2 DEF TypeOK, SheetOK
<1>4. ASSUME NEW i \in DOMAIN stack
      PROVE  Distinct(stack[i].frame.df) /\ (InStep(stack[i].frame) \/ CountsByPctOrBar(stack[i]))
  <2>1. SheetOK(stack[i])
    BY <1>1, <1>2
  <2>2. FrameOK(stack[i].frame)
    BY <2>1 DEF SheetOK
  <2>3. Distinct(stack[i].frame.df)
    BY <2>2, FrameIsParts DEF TableOK
  <2> QED BY <2>1, <2>3 DEF SheetOK
<1> QED BY <1>3, <1>4 DEF HeadersMatchColumns

LEMMA AnalysisSoundness == Spec => []AInv
BY InitOK, AInvInductive, PTL DEF Spec

\* Every sheet is a rectangle whose cells have the types of their headers and whose
\* index lists name rows it has, whatever tables, names and windows it is given.
THEOREM AnalysisTypeCorrect == Spec => []TypeOK
<1>1. AInv => TypeOK
  BY AInvMeans
<1> QED BY <1>1, AnalysisSoundness, PTL

\* The headers name the columns of the Polars frame, in its order, after any sequence of
\* commands: the two lists that every command changes by hand stay in step.
THEOREM AnalysisHeadersMatch == Spec => []HeadersMatchColumns
<1>1. AInv => HeadersMatchColumns
  BY AInvMeans
<1> QED BY <1>1, AnalysisSoundness, PTL

LEMMA TopTable == AInv /\ Regular => FrameOK(frame) /\ InStep(frame)
BY TopFacts DEF AInv, Regular

\* Transposed twice, any table on screen is back as it was shown, headers and all: row
\* numbers are told apart as headers, and no header is taken for the corner's.
THEOREM TransposingTwiceIsNothing == Spec => []TransposedTwiceIsItself
<1>1. AInv => TransposedTwiceIsItself
  <2> SUFFICES ASSUME AInv, Regular, frame.row_order # <<>>, ~frame.transposed
               PROVE  LET twice == TransposeTable(TransposeTable(frame))
                      IN  /\ Names(twice.columns) = Names(frame.columns)
                          /\ Shown(twice) = Shown(frame)
                          /\ ~twice.transposed
    BY DEF TransposedTwiceIsItself
  <2> QED BY TopTable, TwiceTurned
<1> QED BY <1>1, AnalysisSoundness, PTL

LEMMA RemadeTop ==
  ASSUME AInv, NEW f, f # Refused, Reshape(f)
  PROVE  /\ Len(stack') = Len(stack) /\ Last(stack').frame = f /\ Last(stack').made = "reshaped"
         /\ \A i \in 1 .. Len(stack) - 1 : stack'[i] = stack[i]
<1> DEFINE b == Reshaped(Top, f)
           n == Len(stack)
<1>1. stack' = Remade(stack, f) /\ StackOK(stack)
  BY DEF Reshape, Remade, AInv
<1>2. stack' = [stack EXCEPT ![n] = b]
  BY <1>1, ExceptTop DEF Top
<1>3. stack \in Seq({stack[i] : i \in 1 .. n} \cup {b}) /\ n \in Nat /\ DOMAIN stack = 1 .. n
      /\ n \in 1 .. n
  BY <1>1, StackSeq
<1>4. SheetOK(Top)
  BY TopFacts
<1>5. b.frame = f /\ b.made = "reshaped"
  <2> DEFINE t == Top
             m == "reshaped"
             h == [t EXCEPT !.frame = f]
             i == [h EXCEPT !.made = m]
  <2>1. "frame" \in DOMAIN t /\ "made" \in DOMAIN t
    BY <1>4 DEF SheetOK
  <2>2. b = i
    BY DEF Reshaped
  <2> HIDE DEF t, m
  <2>3. "made" \in DOMAIN h /\ h.frame = f /\ "frame" \in DOMAIN h
    BY <2>1
  <2> HIDE DEF h
  <2>4. i.frame = f /\ i.made = m
    BY <2>3
  <2> HIDE DEF i
  <2> QED BY <2>2, <2>4 DEF m
<1> HIDE DEF b, n
<1>6. /\ Len(stack') = n /\ stack'[n] = b /\ \A i \in 1 .. n - 1 : stack'[i] = stack[i]
  BY <1>2, <1>3
<1> QED BY <1>5, <1>6 DEF Last, n

\* A window changes nothing but the columns, and those by one: not a row, not the order
\* that "reset sort" brings back, not a mark, whatever rows are hidden or sorted away.
THEOREM WindowsLeaveTheTable == Spec => WindowLeavesTableAlone
<1> DEFINE A == Widened => \A w \in Added : AddWindow(w) => SameTable(frame, Last(stack').frame)
<1>1. AInv => A
  <2> SUFFICES ASSUME AInv, Widened, NEW w \in Added, AddWindow(w)
               PROVE  SameTable(frame, Last(stack').frame)
    OBVIOUS
  <2> DEFINE f == frame
             g == AddWindowColumn(f, w)
  <2>1. FrameOK(f) /\ InStep(f)
    BY TopTable DEF AddWindow, Running
  <2>2. WindowOK(f, w)
    BY WindowsOfOK DEF Added
  <2>3. Reshape(g)
    BY DEF AddWindow
  <2> HIDE DEF f, g
  <2>4. g # Refused
    <3> SUFFICES ASSUME g = Refused PROVE FALSE
      OBVIOUS
    <3>1. stack' = stack
      BY <2>3 DEF Reshape
    <3>2. Len(f.columns) = Len(f.columns) + 1
      BY <3>1 DEF Widened, f, frame, Top
    <3>3. Len(f.columns) \in Nat
      BY <2>1, RegularShape
    <3> QED BY <3>2, <3>3
  <2>5. Last(stack').frame = g
    BY <2>3, <2>4, RemadeTop
  <2>6. SameTable(f, g)
    BY <2>1, <2>2, <2>4, WindowLeavesTable DEF g
  <2> QED BY <2>5, <2>6 DEF f
<1> HIDE DEF A
<1>2. AInv => [A]_vars
  BY <1>1
<1>3. Spec => [][A]_vars
  BY <1>2, AnalysisSoundness, PTL
<1> QED BY <1>3 DEF A, WindowLeavesTableAlone

-----------------------------------------------------------------------------
(* Window columns: what they mean.                                         *)

\* What the dialogs ask for: an order only of the functions that run along one.
WindowAsked(f, w) ==
    /\ WindowOK(f, w)
    /\ w.order_by # Null => UsesOrderBy(w.function)
    /\ w.function \in {"rank", "dense_rank"} => Numeric(f, w.col)

LEMMA WindowsOfAsked ==
  ASSUME NEW f, NEW w \in WindowsOf(f, Functions)
  PROVE  WindowAsked(f, w)
<1>1. /\ w.order_by # Null => UsesOrderBy(w.function)
      /\ w.function \in {"rank", "dense_rank", "min", "max"} => Numeric(f, w.col)
  BY DEF WindowsOf
<1> QED BY <1>1, WindowsOfOK DEF WindowAsked

\* The order in which a window takes the rows is the one its meaning speaks of.
LEMMA WindowOrderPrecedes ==
  ASSUME NEW f, FrameOK(f), InStep(f), NEW w, WindowOK(f, w)
  PROVE  \A j, k \in 1 .. Len(f.row_order) :
            j < k <=> Precedes(Visible(f), w, WindowOrder(f, w)[j], WindowOrder(f, w)[k])
<1> DEFINE n == Len(f.row_order)
           p == WindowOrder(f, w)
           rows == Visible(f)
<1>1. n \in Nat /\ DOMAIN rows = 1 .. n /\ DOMAIN f.row_order = 1 .. n
  BY VisibleShape
<1>2. CASE w.order_by = Null
  <2>1. p = [k \in 1 .. n |-> k]
    BY <1>1, <1>2 DEF WindowOrder
  <2> HIDE DEF p, n
  <2>2. \A j, k \in 1 .. n : Precedes(rows, w, p[j], p[k]) <=> p[j] < p[k]
    BY <1>2 DEF Precedes
  <2> QED BY <2>1, <2>2 DEF p, n
<1>3. CASE w.order_by # Null
  <2>1. PICK i \in DOMAIN f.columns : w.order_by = f.columns[i].name /\ Numeric(f, i)
    BY <1>3 DEF WindowOK
  <2> DEFINE name == f.columns[i].name
             R == RunsBefore(rows, name, w.desc)
             val == [k \in 1 .. n |-> rows[k][name]]
  <2>2. \A k \in 1 .. n : rows[k][name] \in Int \cup {Null}
    BY <1>1, <2>1, NumberColumn
  <2>3. w.desc \in BOOLEAN
    BY DEF WindowOK
  <2>4. p = InOrder(1 .. n, R)
    BY <1>1, <1>3, <2>1 DEF WindowOrder, Sorted
  <2>5. IsFiniteSet(1 .. n) /\ Cardinality(1 .. n) = n
    BY <1>1, FS_Interval
  <2>6. \A a, b \in 1 .. n : <<a, b>> \in R <=> Precedes(rows, w, a, b)
    <3>1. \A a, b \in 1 .. n : <<a, b>> \in R
             <=> \/ KeyBefore(val[a], val[b], w.desc)
                 \/ ~KeyBefore(val[b], val[a], w.desc) /\ a < b
      BY <1>1 DEF RunsBefore
    <3>2. \A a, b \in 1 .. n : Precedes(rows, w, a, b)
             <=> KeyBefore(val[a], val[b], w.desc) \/ (val[a] = val[b] /\ a < b)
      BY <1>1, <1>3, <2>1 DEF Precedes
    <3>3. val \in [1 .. n -> Int \cup {Null}]
      BY <2>2
    <3> HIDE DEF R, val
    <3> TAKE a, b \in 1 .. n
    <3>4. val[a] \in Int \cup {Null} /\ val[b] \in Int \cup {Null}
      BY <3>3
    <3>5. ~KeyBefore(val[b], val[a], w.desc) =>
             (KeyBefore(val[a], val[b], w.desc) \/ val[a] = val[b])
      BY <2>3, <3>4, NullAssumption DEF KeyBefore
    <3>6. val[a] = val[b] => ~KeyBefore(val[b], val[a], w.desc)
      BY <2>3, <3>4, NullAssumption DEF KeyBefore
    <3> QED BY <3>1, <3>2, <3>5, <3>6
  <2> HIDE DEF p, n, rows, name
  <2>7. StrictTotalOrder(R, 1 .. n)
    BY <1>1, <2>2, <2>3, RunsBeforeIsOrder
  <2> HIDE DEF R
  <2>8. \A a, b \in 1 .. n : a < b => <<p[a], p[b]>> \in R
    BY <2>4, <2>5, <2>7, InOrderAscends
  <2>9. \A a \in 1 .. n : p[a] \in 1 .. n
    BY WindowOrderBijection DEF p, n
  <2>10. ASSUME NEW a \in 1 .. n, NEW b \in 1 .. n PROVE a < b <=> <<p[a], p[b]>> \in R
    <3>1. a < b \/ a = b \/ b < a
      BY <1>1
    <3>2. ~(a < b) => <<p[a], p[b]>> \notin R
      BY <2>7, <2>8, <2>9, <3>1 DEF StrictTotalOrder
    <3> QED BY <2>8, <3>2
  <2>11. \A j, k \in 1 .. n : j < k <=> Precedes(rows, w, p[j], p[k])
    BY <2>6, <2>9, <2>10
  <2> QED BY <2>11 DEF p, n, rows
<1> QED BY <1>2, <1>3

\* Rows taken in the order of a window: all of them, each once.
Runs(n, rows, w, p) ==
    /\ n \in Nat /\ DOMAIN rows = 1 .. n
    /\ p \in [1 .. n -> 1 .. n]
    /\ \A j, k \in 1 .. n : p[j] = p[k] => j = k
    /\ \A k \in 1 .. n : \E j \in 1 .. n : p[j] = k
    /\ \A j, k \in 1 .. n : j < k <=> Precedes(rows, w, p[j], p[k])
Taken(n, rows, p) == [k \in 1 .. n |-> rows[p[k]]]

\* A row's partition, and the rows of it before and after the row.
Partition(rows, w, m) == {j \in DOMAIN rows : KeyOf(rows[j], w.over) = KeyOf(rows[m], w.over)}
PastOf(rows, w, m) == {j \in Partition(rows, w, m) : Precedes(rows, w, j, m)}
NextOf(rows, w, m) == {j \in Partition(rows, w, m) : Precedes(rows, w, m, j)}
BehindIn(rows, w, k) == {j \in GroupOf(rows, w.over, k) : j < k}
AheadIn(rows, w, k) == {j \in GroupOf(rows, w.over, k) : j > k}

LEMMA TakenSets ==
  ASSUME NEW n, NEW rows, NEW w, NEW p, Runs(n, rows, w, p), NEW k \in 1 .. n
  PROVE  /\ DOMAIN Taken(n, rows, p) = 1 .. n /\ p[k] \in 1 .. n
         /\ Taken(n, rows, p)[k] = rows[p[k]]
         /\ BehindIn(Taken(n, rows, p), w, k) \in SUBSET (1 .. n)
         /\ AheadIn(Taken(n, rows, p), w, k) \in SUBSET (1 .. n)
         /\ PastOf(rows, w, p[k]) \in SUBSET (1 .. n) /\ NextOf(rows, w, p[k]) \in SUBSET (1 .. n)
         /\ k \in GroupOf(Taken(n, rows, p), w.over, k)
         /\ \A j \in 1 .. n :
               /\ j \in BehindIn(Taken(n, rows, p), w, k) <=> p[j] \in PastOf(rows, w, p[k])
               /\ j \in AheadIn(Taken(n, rows, p), w, k) <=> p[j] \in NextOf(rows, w, p[k])
<1> DEFINE t == Taken(n, rows, p)
<1>1. /\ DOMAIN t = 1 .. n /\ \A j \in 1 .. n : t[j] = rows[p[j]]
      /\ n \in Nat /\ DOMAIN rows = 1 .. n
      /\ \A j \in 1 .. n : p[j] \in 1 .. n
      /\ \A j, i \in 1 .. n : j < i <=> Precedes(rows, w, p[j], p[i])
  BY DEF Runs, Taken
<1> HIDE DEF t
<1>2. \A j \in 1 .. n : j \in GroupOf(t, w.over, k) <=> p[j] \in Partition(rows, w, p[k])
  BY <1>1 DEF GroupOf, Partition
<1>3. GroupOf(t, w.over, k) \in SUBSET (1 .. n) /\ k \in GroupOf(t, w.over, k)
      /\ Partition(rows, w, p[k]) \in SUBSET (1 .. n)
  BY <1>1 DEF GroupOf, Partition
<1>4. \A j \in 1 .. n : /\ j \in BehindIn(t, w, k) <=> p[j] \in PastOf(rows, w, p[k])
                        /\ j \in AheadIn(t, w, k) <=> p[j] \in NextOf(rows, w, p[k])
  BY <1>1, <1>2 DEF BehindIn, AheadIn, PastOf, NextOf
<1>5. /\ BehindIn(t, w, k) \in SUBSET (1 .. n) /\ AheadIn(t, w, k) \in SUBSET (1 .. n)
      /\ PastOf(rows, w, p[k]) \in SUBSET (1 .. n) /\ NextOf(rows, w, p[k]) \in SUBSET (1 .. n)
  BY <1>3 DEF BehindIn, AheadIn, PastOf, NextOf
<1> QED BY <1>1, <1>3, <1>4, <1>5 DEF t

LEMMA CountsPast ==
  ASSUME NEW n, NEW rows, NEW w, NEW p, Runs(n, rows, w, p), NEW k \in 1 .. n
  PROVE  Cardinality({j \in GroupOf(Taken(n, rows, p), w.over, k) : j <= k})
         = Cardinality(PastOf(rows, w, p[k])) + 1
<1> DEFINE B == BehindIn(Taken(n, rows, p), w, k)
           P == PastOf(rows, w, p[k])
           C == {j \in GroupOf(Taken(n, rows, p), w.over, k) : j <= k}
           F == [j \in B |-> p[j]]
<1>1. /\ n \in Nat /\ p \in [1 .. n -> 1 .. n]
      /\ \A j, i \in 1 .. n : p[j] = p[i] => j = i
      /\ \A i \in 1 .. n : \E j \in 1 .. n : p[j] = i
  BY DEF Runs
<1>2. /\ B \in SUBSET (1 .. n) /\ P \in SUBSET (1 .. n)
      /\ \A j \in 1 .. n : j \in B <=> p[j] \in P
      /\ k \in GroupOf(Taken(n, rows, p), w.over, k)
  BY TakenSets
<1>3. C = B \cup {k} /\ k \notin B
  <2>1. GroupOf(Taken(n, rows, p), w.over, k) \subseteq 1 .. n
    BY DEF GroupOf, Taken
  <2> QED BY <1>1, <1>2, <2>1 DEF BehindIn
<1> HIDE DEF B, P, C
<1>4. IsFiniteSet(B) /\ Cardinality(B) \in Nat
  BY <1>1, <1>2, SubsetCount
<1>5. Cardinality(C) = Cardinality(B) + 1
  BY <1>3, <1>4, FS_AddElement
<1>6. F \in Bijection(B, P)
  <2>1. F \in [B -> P] /\ \A j \in B : F[j] = p[j]
    BY <1>2
  <2>2. \A i \in P : \E j \in B : p[j] = i
    BY <1>1, <1>2
  <2> HIDE DEF F
  <2> QED BY <1>1, <1>2, <2>1, <2>2 DEF Bijection, Injection, Surjection, IsInjective
<1> HIDE DEF F
<1>7. Cardinality(B) = Cardinality(P)
  BY <1>4, <1>6, FS_Bijection DEF ExistsBijection
<1> QED BY <1>5, <1>7 DEF B, P, C

LEMMA SumsPast ==
  ASSUME NEW n, NEW rows, NEW w, NEW p, Runs(n, rows, w, p), NEW k \in 1 .. n, NEW name,
         \A j \in 1 .. n : rows[j][name] \in Int \cup {Null}, rows[p[k]][name] # Null
  PROVE  SumOver(Taken(n, rows, p), {j \in GroupOf(Taken(n, rows, p), w.over, k) : j <= k}, name)
         = rows[p[k]][name] + SumOver(rows, PastOf(rows, w, p[k]), name)
<1> DEFINE t == Taken(n, rows, p)
           B == BehindIn(t, w, k)
           P == PastOf(rows, w, p[k])
           C == {j \in GroupOf(t, w.over, k) : j <= k}
           v == rows[p[k]][name]
           a == Addends(rows, P, name)
           b == [j \in 1 .. n |-> a[p[j]]]
           one == [j \in 1 .. n |-> IF j = k THEN v ELSE 0]
<1>1. /\ n \in Nat /\ p \in [1 .. n -> 1 .. n] /\ DOMAIN rows = 1 .. n
      /\ \A j, i \in 1 .. n : p[j] = p[i] => j = i
      /\ \A i \in 1 .. n : \E j \in 1 .. n : p[j] = i
  BY DEF Runs
<1>2. /\ B \in SUBSET (1 .. n) /\ P \in SUBSET (1 .. n)
      /\ \A j \in 1 .. n : j \in B <=> p[j] \in P
      /\ k \in GroupOf(t, w.over, k)
  BY TakenSets
<1>3. DOMAIN t = 1 .. n /\ \A j \in 1 .. n : t[j] = rows[p[j]]
  BY DEF Taken
<1>4. C = B \cup {k} /\ k \notin B
  <2>1. GroupOf(t, w.over, k) \subseteq 1 .. n
    BY <1>3 DEF GroupOf
  <2> QED BY <1>1, <1>2, <2>1 DEF BehindIn
<1>5. v \in Int
  BY <1>1
<1>6. a \in [1 .. n -> Int] /\ SumOver(rows, P, name) = SumOf(a)
  BY <1>1, AddendsType
<1>7. \A i \in 1 .. n : a[i] = IF i \in P /\ rows[i][name] # Null THEN rows[i][name] ELSE 0
  BY <1>1 DEF Addends
<1>8. t[k][name] = v /\ v # Null
  BY <1>3
<1> HIDE DEF t, B, P, C, v, a
<1>9. SumOver(t, C, name) = SumOf([j \in 1 .. n |-> b[j] + one[j]])
  <2>1. \A j \in 1 .. n : (IF j \in C /\ t[j][name] # Null THEN t[j][name] ELSE 0) = b[j] + one[j]
    <3> TAKE j \in 1 .. n
    <3>1. CASE j = k
      <4>1. b[k] = 0 /\ k \in C
        BY <1>1, <1>2, <1>4, <1>7
      <4> QED BY <1>5, <1>8, <3>1, <4>1
    <3>2. CASE j # k
      <4>1. j \in C <=> p[j] \in P
        BY <1>2, <1>4, <3>2
      <4>2. b[j] = IF p[j] \in P /\ t[j][name] # Null THEN t[j][name] ELSE 0
        <5>1. p[j] \in 1 .. n
          BY <1>1
        <5>2. t[j] = rows[p[j]] /\ b[j] = a[p[j]]
          BY <1>3
        <5> HIDE DEF b
        <5> QED BY <1>7, <5>1, <5>2
      <4>3. b[j] \in Int
        BY <1>1, <1>6
      <4> QED BY <3>2, <4>1, <4>2, <4>3
    <3> QED BY <3>1, <3>2
  <2> HIDE DEF b, one
  <2> QED BY <1>3, <2>1 DEF SumOver
<1>10. b \in [1 .. n -> Int] /\ one \in [1 .. n -> Int] /\ SumOf(one) = v
  <2>1. \A j \in 1 .. n : p[j] \in 1 .. n
    BY <1>1
  <2>2. \A j \in 1 .. n : a[j] \in Int
    BY <1>6
  <2>3. \A j \in 1 .. n : a[p[j]] \in Int
    BY <2>1, <2>2
  <2>4. b \in [1 .. n -> Int]
    BY <2>3
  <2>5. one \in [1 .. n -> Int]
    BY <1>5
  <2>6. SumOf([j \in 1 .. n |-> IF j = k THEN v ELSE 0]) = v
    <3>1. n \in Nat /\ k \in 1 .. n /\ v \in Int
      BY <1>1, <1>5
    <3> HIDE DEF b, one
    <3> QED BY <3>1, SumOne
  <2> QED BY <2>4, <2>5, <2>6
<1>11. SumOf(b) = SumOf(a)
  <2> DEFINE c == [i \in 1 .. n |-> IF \E j \in 1 .. n : p[j] = i THEN a[i] ELSE 0]
  <2>1. SumOf([j \in 1 .. n |-> a[p[j]]])
        = SumOf([i \in 1 .. n |-> IF \E j \in 1 .. n : p[j] = i THEN a[i] ELSE 0])
    <3>1. /\ n \in Nat /\ a \in [1 .. n -> Int] /\ p \in [1 .. n -> 1 .. n]
          /\ \A j, i \in 1 .. n : p[j] = p[i] => j = i
      BY <1>1, <1>6
    <3> QED BY <3>1, SumListed
  <2>2. c = a
    BY <1>1, <1>6
  <2> QED BY <2>1, <2>2
<1> HIDE DEF b, one
<1>12. SumOf([j \in 1 .. n |-> b[j] + one[j]]) = SumOf(a) + v
  <2>1. n \in Nat
    BY <1>1
  <2>2. SumOf([j \in 1 .. n |-> b[j] + one[j]]) = SumOf(b) + SumOf(one)
    BY <1>10, <2>1, SumPlus
  <2> QED BY <1>10, <1>11, <2>2
<1>13. SumOf(a) \in Int
  BY <1>1, <1>6, SumType
<1> QED BY <1>5, <1>6, <1>9, <1>12, <1>13 DEF t, C, P, v

\* The row before, and the row after, in the order of the window.
LatestOf(rows, w, S) == CHOOSE j \in S : \A i \in S \ {j} : Precedes(rows, w, i, j)
EarliestOf(rows, w, S) == CHOOSE j \in S : \A i \in S \ {j} : Precedes(rows, w, j, i)
LatestShown(n, rows, w, p, k, name) ==
    LET behind == BehindIn(Taken(n, rows, p), w, k)
        past == PastOf(rows, w, p[k])
    IN  (IF behind = {} THEN Null ELSE Taken(n, rows, p)[Max(behind)][name])
        = IF past = {} THEN Null ELSE rows[LatestOf(rows, w, past)][name]
EarliestShown(n, rows, w, p, k, name) ==
    LET ahead == AheadIn(Taken(n, rows, p), w, k)
        next == NextOf(rows, w, p[k])
    IN  (IF ahead = {} THEN Null ELSE Taken(n, rows, p)[Min(ahead)][name])
        = IF next = {} THEN Null ELSE rows[EarliestOf(rows, w, next)][name]

LEMMA PastLast ==
  ASSUME NEW n, NEW rows, NEW w, NEW p, Runs(n, rows, w, p), NEW k \in 1 .. n, NEW name
  PROVE  LatestShown(n, rows, w, p, k, name)
<1> DEFINE t == Taken(n, rows, p)
           B == BehindIn(t, w, k)
           P == PastOf(rows, w, p[k])
<1>1. /\ n \in Nat /\ p \in [1 .. n -> 1 .. n]
      /\ \A j, i \in 1 .. n : p[j] = p[i] => j = i
      /\ \A i \in 1 .. n : \E j \in 1 .. n : p[j] = i
      /\ \A j, i \in 1 .. n : j < i <=> Precedes(rows, w, p[j], p[i])
  BY DEF Runs
<1>2. /\ B \in SUBSET (1 .. n) /\ P \in SUBSET (1 .. n)
      /\ \A j \in 1 .. n : j \in B <=> p[j] \in P
  BY TakenSets
<1>3. \A j \in 1 .. n : t[j] = rows[p[j]]
  BY DEF Taken
<1> HIDE DEF t, B, P
<1>4. B = {} <=> P = {}
  BY <1>1, <1>2
<1>5. CASE P # {}
  <2> DEFINE b == Max(B)
  <2>1. B \in SUBSET (0 .. n) /\ B # {}
    <3>1. \A y \in B : y \in 0 .. n
      BY <1>1, <1>2
    <3> QED BY <1>4, <1>5, <3>1
  <2>2. b \in B /\ \A y \in B : b >= y
    BY <1>1, <2>1, Greatest
  <2> HIDE DEF b
  <2>3. b \in 1 .. n /\ p[b] \in P
    BY <1>2, <2>2
  <2>4. \A i \in P \ {p[b]} : Precedes(rows, w, i, p[b])
    <3> TAKE i \in P \ {p[b]}
    <3>1. PICK j \in 1 .. n : p[j] = i
      BY <1>1, <1>2
    <3>2. j \in B /\ j # b
      BY <1>2, <3>1
    <3>3. j < b
      BY <1>1, <2>2, <2>3, <3>2
    <3> QED BY <1>1, <2>3, <3>1, <3>3
  <2>5. \A x \in P : (\A i \in P \ {x} : Precedes(rows, w, i, x)) => x = p[b]
    <3> SUFFICES ASSUME NEW x \in P, \A i \in P \ {x} : Precedes(rows, w, i, x), x # p[b]
                 PROVE  FALSE
      OBVIOUS
    <3>1. PICK j \in 1 .. n : p[j] = x
      BY <1>1, <1>2
    <3>2. b < j
      BY <1>1, <2>3, <3>1
    <3>3. j \in B
      BY <1>2, <3>1
    <3> QED BY <1>1, <2>2, <2>3, <3>2, <3>3
  <2>6. LatestOf(rows, w, P) = p[b]
    BY <2>3, <2>4, <2>5 DEF LatestOf
  <2>7. t[Max(B)][name] = rows[p[b]][name]
    BY <1>3, <2>3 DEF b
  <2> QED BY <1>5, <2>1, <2>6, <2>7 DEF t, B, P, LatestShown
<1>6. CASE P = {}
  BY <1>4, <1>6 DEF t, B, P, LatestShown
<1> QED BY <1>5, <1>6

LEMMA NextFirst ==
  ASSUME NEW n, NEW rows, NEW w, NEW p, Runs(n, rows, w, p), NEW k \in 1 .. n, NEW name
  PROVE  EarliestShown(n, rows, w, p, k, name)
<1> DEFINE t == Taken(n, rows, p)
           A == AheadIn(t, w, k)
           N == NextOf(rows, w, p[k])
<1>1. /\ n \in Nat /\ p \in [1 .. n -> 1 .. n]
      /\ \A j, i \in 1 .. n : p[j] = p[i] => j = i
      /\ \A i \in 1 .. n : \E j \in 1 .. n : p[j] = i
      /\ \A j, i \in 1 .. n : j < i <=> Precedes(rows, w, p[j], p[i])
  BY DEF Runs
<1>2. /\ A \in SUBSET (1 .. n) /\ N \in SUBSET (1 .. n)
      /\ \A j \in 1 .. n : j \in A <=> p[j] \in N
  BY TakenSets
<1>3. \A j \in 1 .. n : t[j] = rows[p[j]]
  BY DEF Taken
<1> HIDE DEF t, A, N
<1>4. A = {} <=> N = {}
  BY <1>1, <1>2
<1>5. CASE N # {}
  <2> DEFINE b == Min(A)
  <2>1. A \in SUBSET Int /\ IsFiniteSet(A) /\ A # {}
    <3>1. n \in Nat /\ A \in SUBSET (1 .. n)
      BY <1>1, <1>2
    <3>2. IsFiniteSet(A)
      BY <3>1, SubsetCount
    <3>3. A \in SUBSET Int
      BY <3>1
    <3> QED BY <1>4, <1>5, <3>2, <3>3
  <2>2. b \in A /\ \A y \in A : b <= y
    BY <2>1, Extremes
  <2> HIDE DEF b
  <2>3. b \in 1 .. n /\ p[b] \in N
    BY <1>2, <2>2
  <2>4. \A i \in N \ {p[b]} : Precedes(rows, w, p[b], i)
    <3> TAKE i \in N \ {p[b]}
    <3>1. PICK j \in 1 .. n : p[j] = i
      BY <1>1, <1>2
    <3>2. j \in A /\ j # b
      BY <1>2, <3>1
    <3>3. b < j
      BY <1>1, <2>2, <2>3, <3>2
    <3> QED BY <1>1, <2>3, <3>1, <3>3
  <2>5. \A x \in N : (\A i \in N \ {x} : Precedes(rows, w, x, i)) => x = p[b]
    <3> SUFFICES ASSUME NEW x \in N, \A i \in N \ {x} : Precedes(rows, w, x, i), x # p[b]
                 PROVE  FALSE
      OBVIOUS
    <3>1. PICK j \in 1 .. n : p[j] = x
      BY <1>1, <1>2
    <3>2. j < b
      BY <1>1, <2>3, <3>1
    <3>3. j \in A
      BY <1>2, <3>1
    <3> QED BY <1>1, <2>2, <2>3, <3>2, <3>3
  <2>6. EarliestOf(rows, w, N) = p[b]
    BY <2>3, <2>4, <2>5 DEF EarliestOf
  <2>7. t[Min(A)][name] = rows[p[b]][name]
    BY <1>3, <2>3 DEF b
  <2> QED BY <1>5, <2>1, <2>6, <2>7 DEF t, A, N, EarliestShown
<1>6. CASE N = {}
  BY <1>4, <1>6 DEF t, A, N, EarliestShown
<1> QED BY <1>5, <1>6

\* The functions of a whole partition.
LEMMA MeansOfAll ==
  ASSUME NEW n \in Nat, NEW rows, DOMAIN rows = 1 .. n, NEW name, NEW w, w.desc \in BOOLEAN,
         w.function \in {"rank", "dense_rank", "sum", "min", "max", "count"},
         w.function # "count" => \A j \in 1 .. n : rows[j][name] \in Int \cup {Null},
         NEW k \in 1 .. n
  PROVE  Evaluate(rows, name, w, GroupOf(rows, w.over, k), k) = Meant(rows, name, w, k)
<1> DEFINE S == GroupOf(rows, w.over, k)
           v == rows[k][name]
           held == {j \in S : rows[j][name] # Null}
           values == {rows[j][name] : j \in held}
           better == {j \in held : KeyBefore(rows[j][name], v, w.desc)}
           above == {j \in held : IF w.desc THEN rows[j][name] > v ELSE rows[j][name] < v}
           value == Evaluate(rows, name, w, S, k)
           meant == Meant(rows, name, w, k)
<1>1. S = {j \in DOMAIN rows : KeyOf(rows[j], w.over) = KeyOf(rows[k], w.over)}
  BY DEF GroupOf
<1>2. S \in SUBSET (1 .. n) /\ held \in SUBSET (1 .. n)
  BY <1>1
<1>3. CASE w.function \in {"rank", "dense_rank"}
  <2>1. value = IF v = Null THEN Null
                ELSE IF w.function = "rank" THEN Cardinality(better) + 1
                ELSE Cardinality({rows[j][name] : j \in better}) + 1
    BY <1>3 DEF Evaluate
  <2>2. meant = IF v = Null THEN Null
                ELSE IF w.function = "rank" THEN Cardinality(above) + 1
                ELSE Cardinality({rows[j][name] : j \in above}) + 1
    BY <1>1, <1>3 DEF Meant
  <2>3. v # Null => better = above
    <3> SUFFICES ASSUME v # Null, NEW j \in held
                 PROVE  KeyBefore(rows[j][name], v, w.desc)
                        <=> IF w.desc THEN rows[j][name] > v ELSE rows[j][name] < v
      OBVIOUS
    <3>1. rows[j][name] \in Int /\ v \in Int /\ rows[j][name] # Null
      BY <1>2, <1>3
    <3> HIDE DEF v, held
    <3> QED BY <3>1 DEF KeyBefore
  <2>4. (v = Null => value = meant) /\ (v # Null => value = meant)
    <3> HIDE DEF value, meant, v, better, above
    <3> QED BY <2>1, <2>2, <2>3
  <2> HIDE DEF value, meant
  <2> QED BY <2>4 DEF value, meant
<1>4. CASE w.function = "sum"
  <2>1. value = SumOver(rows, S, name)
    BY <1>4 DEF Evaluate
  <2>2. meant = SumOver(rows, held, name)
    BY <1>1, <1>4 DEF Meant
  <2>3. SumOver(rows, S, name) = SumOver(rows, held, name)
    BY DEF SumOver
  <2> HIDE DEF value, meant
  <2> QED BY <2>1, <2>2, <2>3 DEF value, meant
<1>5. CASE w.function = "count"
  <2>1. value = Cardinality(held)
    BY <1>5 DEF Evaluate
  <2>2. meant = Cardinality(held)
    BY <1>1, <1>5 DEF Meant
  <2> HIDE DEF value, meant
  <2> QED BY <2>1, <2>2 DEF value, meant
<1>6. CASE w.function \in {"min", "max"}
  <2>1. value = IF values = {} THEN Null
                ELSE IF w.function = "min" THEN Min(values) ELSE Max(values)
    BY <1>6 DEF Evaluate
  <2>2. meant = IF held = {} THEN Null
                ELSE IF w.function = "min"
                     THEN rows[CHOOSE j \in held : \A i \in held : rows[j][name] <= rows[i][name]][name]
                     ELSE rows[CHOOSE j \in held : \A i \in held : rows[j][name] >= rows[i][name]][name]
    BY <1>1, <1>6 DEF Meant
  <2>3. \A j \in held : rows[j][name] \in Int
    BY <1>2, <1>6
  <2>4. IsFiniteSet(values)
    <3>1. values = Seen(rows, name, held)
      BY DEF Seen
    <3> HIDE DEF held, values
    <3>2. IsFiniteSet(Seen(rows, name, held))
      BY <1>2, ImageFinite
    <3> QED BY <3>1, <3>2
  <2>5. values \in SUBSET Int /\ (values = {} <=> held = {})
        /\ (\A x : x \in values <=> \E j \in held : rows[j][name] = x)
    BY <2>3
  <2> HIDE DEF values, held
  <2>6. held # {} =>
          rows[CHOOSE j \in held : \A i \in held : rows[j][name] <= rows[i][name]][name] = Min(values)
    <3> SUFFICES ASSUME held # {}
                 PROVE  rows[CHOOSE j \in held : \A i \in held : rows[j][name] <= rows[i][name]][name]
                        = Min(values)
      OBVIOUS
    <3>1. Min(values) \in values /\ \A y \in values : Min(values) <= y
      BY <2>4, <2>5, Extremes
    <3>2. PICK a \in held : rows[a][name] = Min(values)
      BY <2>5, <3>1
    <3>3. \A i \in held : rows[a][name] <= rows[i][name]
      BY <2>5, <3>1, <3>2
    <3> DEFINE c == CHOOSE j \in held : \A i \in held : rows[j][name] <= rows[i][name]
    <3>4. c \in held /\ \A i \in held : rows[c][name] <= rows[i][name]
      BY <3>3
    <3> HIDE DEF c
    <3>5. rows[c][name] = Min(values)
      BY <2>3, <2>5, <3>1, <3>2, <3>3, <3>4
    <3> QED BY <3>5 DEF c
  <2>7. held # {} =>
          rows[CHOOSE j \in held : \A i \in held : rows[j][name] >= rows[i][name]][name] = Max(values)
    <3> SUFFICES ASSUME held # {}
                 PROVE  rows[CHOOSE j \in held : \A i \in held : rows[j][name] >= rows[i][name]][name]
                        = Max(values)
      OBVIOUS
    <3>1. Max(values) \in values /\ \A y \in values : Max(values) >= y
      BY <2>4, <2>5, Extremes
    <3>2. PICK a \in held : rows[a][name] = Max(values)
      BY <2>5, <3>1
    <3>3. \A i \in held : rows[a][name] >= rows[i][name]
      BY <2>5, <3>1, <3>2
    <3> DEFINE c == CHOOSE j \in held : \A i \in held : rows[j][name] >= rows[i][name]
    <3>4. c \in held /\ \A i \in held : rows[c][name] >= rows[i][name]
      BY <3>3
    <3> HIDE DEF c
    <3>5. rows[c][name] = Max(values)
      BY <2>3, <2>5, <3>1, <3>2, <3>3, <3>4
    <3> QED BY <3>5 DEF c
  <2> HIDE DEF value, meant
  <2>8. value = meant
    BY <1>6, <2>1, <2>2, <2>5, <2>6, <2>7
  <2> QED BY <2>8 DEF value, meant
<1> QED BY <1>3, <1>4, <1>5, <1>6

LEMMA ComputedMeans ==
  ASSUME NEW f, FrameOK(f), InStep(f), NEW w, WindowAsked(f, w),
         NeedsNumbers(w.function) => Numeric(f, w.col), NEW k \in 1 .. Len(f.row_order)
  PROVE  Computed(f, w, k)
         = Meant(Visible(f), f.columns[w.col].name, w, WindowOrder(f, w)[k])
<1> DEFINE n == Len(f.row_order)
           p == WindowOrder(f, w)
           rows == Visible(f)
           name == f.columns[w.col].name
           t == Taken(n, rows, p)
           m == p[k]
           v == rows[m][name]
           past == PastOf(rows, w, m)
           next == NextOf(rows, w, m)
           meant == Meant(rows, name, w, m)
           value == Computed(f, w, k)
<1>1. /\ n \in Nat /\ DOMAIN rows = 1 .. n /\ DOMAIN f.row_order = 1 .. n
  BY VisibleShape
<1>2. WindowOK(f, w) /\ w.col \in DOMAIN f.columns /\ w.function \in WindowFns /\ w.desc \in BOOLEAN
  BY DEF WindowAsked, WindowOK
<1>3. Runs(n, rows, w, p)
  <2>1. /\ DOMAIN p = 1 .. n /\ p \in Bijection(1 .. n, 1 .. n)
        /\ \A j \in 1 .. n : p[j] \in 1 .. n
        /\ \A j, i \in 1 .. n : p[j] = p[i] => j = i
        /\ \A i \in 1 .. n : \E j \in 1 .. n : p[j] = i
    BY <1>2, WindowOrderBijection
  <2>2. \A j, i \in 1 .. n : j < i <=> Precedes(rows, w, p[j], p[i])
    BY <1>2, WindowOrderPrecedes
  <2>3. p \in [1 .. n -> 1 .. n]
    <3> DEFINE K == 1 .. n
    <3>1. p \in Bijection(K, K)
      BY <2>1
    <3> HIDE DEF K, p
    <3>2. p \in [K -> K]
      BY <3>1, Fun_BijectionProperties
    <3> QED BY <3>2 DEF K
  <2> HIDE DEF p, n, rows
  <2> QED BY <1>1, <2>1, <2>2, <2>3 DEF Runs
<1>4. value = Evaluate(t, name, w, GroupOf(t, w.over, k), k)
  BY <1>1 DEF Computed, Staged, Taken
<1>5. Numeric(f, w.col) => \A j \in 1 .. n : rows[j][name] \in Int \cup {Null}
  BY <1>1, <1>2, NumberColumn
<1>6. past = {j \in {i \in DOMAIN rows : KeyOf(rows[i], w.over) = KeyOf(rows[m], w.over)} :
                Precedes(rows, w, j, m)}
      /\ next = {j \in {i \in DOMAIN rows : KeyOf(rows[i], w.over) = KeyOf(rows[m], w.over)} :
                Precedes(rows, w, m, j)}
  BY DEF PastOf, NextOf, Partition
<1>0. k \in 1 .. n
  OBVIOUS
<1> HIDE DEF n, p, rows, name
<1>7. t[k] = rows[m]
  BY <1>0 DEF Taken
<1>8. CASE w.function = "row_number"
  <2>1. value = Cardinality({j \in GroupOf(t, w.over, k) : j <= k})
    BY <1>4, <1>8 DEF Evaluate
  <2>2. meant = Cardinality(past) + 1
    BY <1>6, <1>8 DEF Meant
  <2>3. Cardinality({j \in GroupOf(t, w.over, k) : j <= k}) = Cardinality(past) + 1
    BY <1>0, <1>3, CountsPast
  <2> HIDE DEF value, meant
  <2> QED BY <2>1, <2>2, <2>3 DEF value, meant, m, p, rows, name
<1>9. CASE w.function = "cum_sum"
  <2>1. value = IF v = Null THEN Null ELSE SumOver(t, {j \in GroupOf(t, w.over, k) : j <= k}, name)
    BY <1>4, <1>7, <1>9 DEF Evaluate
  <2>2. meant = IF v = Null THEN Null ELSE v + SumOver(rows, past, name)
    BY <1>6, <1>9 DEF Meant
  <2>3. \A j \in 1 .. n : rows[j][name] \in Int \cup {Null}
    BY <1>5, <1>9 DEF NeedsNumbers
  <2>4. v # Null => SumOver(t, {j \in GroupOf(t, w.over, k) : j <= k}, name)
                    = v + SumOver(rows, past, name)
    BY <1>0, <1>3, <2>3, SumsPast
  <2> HIDE DEF value, meant
  <2> QED BY <2>1, <2>2, <2>4 DEF value, meant, m, p, rows, name
<1>10. CASE w.function = "lag"
  <2> DEFINE behind == BehindIn(t, w, k)
  <2>1. value = IF behind = {} THEN Null ELSE t[Max(behind)][name]
    BY <1>4, <1>10 DEF Evaluate, BehindIn, At
  <2>2. meant = IF past = {} THEN Null ELSE rows[LatestOf(rows, w, past)][name]
    BY <1>6, <1>10 DEF Meant, LatestOf
  <2>3. (IF behind = {} THEN Null ELSE t[Max(behind)][name])
        = IF past = {} THEN Null ELSE rows[LatestOf(rows, w, past)][name]
    <3>1. LatestShown(n, rows, w, p, k, name)
      BY <1>0, <1>3, PastLast
    <3> HIDE DEF value, meant
    <3> QED BY <3>1 DEF LatestShown
  <2> HIDE DEF value, meant
  <2> QED BY <2>1, <2>2, <2>3 DEF value, meant, m, p, rows, name
<1>11. CASE w.function = "lead"
  <2> DEFINE ahead == AheadIn(t, w, k)
  <2>1. value = IF ahead = {} THEN Null ELSE t[Min(ahead)][name]
    BY <1>4, <1>11 DEF Evaluate, AheadIn
  <2>2. meant = IF next = {} THEN Null
                ELSE rows[EarliestOf(rows, w, next)][name]
    BY <1>6, <1>11 DEF Meant, EarliestOf
  <2>3. (IF ahead = {} THEN Null ELSE t[Min(ahead)][name])
        = IF next = {} THEN Null
          ELSE rows[EarliestOf(rows, w, next)][name]
    <3>1. EarliestShown(n, rows, w, p, k, name)
      BY <1>0, <1>3, NextFirst
    <3> HIDE DEF value, meant
    <3> QED BY <3>1 DEF EarliestShown
  <2> HIDE DEF value, meant
  <2> QED BY <2>1, <2>2, <2>3 DEF value, meant, m, p, rows, name
<1>12. CASE w.function \in {"rank", "dense_rank", "sum", "min", "max", "count"}
  <2>1. w.order_by = Null
    BY <1>12 DEF WindowAsked, UsesOrderBy
  <2>2. p = [j \in 1 .. n |-> j]
    BY <1>1, <2>1 DEF WindowOrder, p, n, rows
  <2>3. t = rows /\ m = k
    <3>1. rows = [j \in 1 .. n |-> rows[j]]
      BY <1>1 DEF rows, Visible
    <3>2. t = [j \in 1 .. n |-> rows[j]]
      BY <2>2 DEF Taken
    <3> QED BY <2>2, <3>1, <3>2 DEF n
  <2>4. w.function # "count" => \A j \in 1 .. n : rows[j][name] \in Int \cup {Null}
    <3>1. w.function # "count" => Numeric(f, w.col)
      BY <1>12 DEF WindowAsked, WindowOK, NeedsNumbers
    <3> QED BY <1>5, <3>1
  <2> HIDE DEF t, m
  <2>5. Evaluate(rows, name, w, GroupOf(rows, w.over, k), k) = Meant(rows, name, w, k)
    BY <1>1, <1>2, <1>12, <2>4, MeansOfAll DEF n
  <2> HIDE DEF value
  <2>6. value = Meant(rows, name, w, m)
    BY <1>4, <2>3, <2>5
  <2> QED BY <2>6 DEF value, m, p, rows, name
<1> QED BY <1>2, <1>8, <1>9, <1>10, <1>11, <1>12 DEF WindowFns

\* The new column shows at each row what its window means there.
LEMMA WindowMeans ==
  ASSUME NEW f, FrameOK(f), InStep(f), NEW w, WindowAsked(f, w), AddWindowColumn(f, w) # Refused,
         NEW k \in DOMAIN f.row_order
  PROVE  Visible(AddWindowColumn(f, w))[k][WindowName(f, w)]
         = Meant(Visible(f), f.columns[w.col].name, w, k)
<1> DEFINE g == AddWindowColumn(f, w)
           n == Len(f.row_order)
           name == WindowName(f, w)
           v == WindowValues(f, w)
           r == WidenedVisible(f, w)
           p == WindowOrder(f, w)
           names == Range(f.df)
           meant(j) == Meant(Visible(f), f.columns[w.col].name, w, j)
<1>0. WindowOK(f, w)
  BY DEF WindowAsked
<1>1. name \notin names /\ DOMAIN r = DOMAIN f.row_order
  BY <1>0, WindowWidens
<1>2. /\ NeedsNumbers(w.function) => Numeric(f, w.col)
      /\ g = Framed(WindowColumns(f, w), Names(WindowColumns(f, w)), r, [j \in DOMAIN r |-> j],
                    CarriedOrder(f), CarriedMarks(f), f.transposed)
  BY AddWindowParts
<1>3. DOMAIN f.row_order = 1 .. n /\ DOMAIN Visible(f)[k] = names
  BY VisibleShape
<1>4. r[k] = Wider(Visible(f)[k], name, v[k])
  <2>1. DOMAIN v = 1 .. n
    BY <1>0, WindowValuesAre
  <2> QED BY <1>3, <2>1 DEF WidenedVisible
<1>5. v[k] = meant(k)
  <2>1. PICK j \in 1 .. n : p[j] = k
    BY <1>0, <1>3, WindowOrderBijection
  <2>2. v[p[j]] = Computed(f, w, j)
    BY <1>0, WindowValuesAre
  <2>3. Computed(f, w, j) = meant(p[j])
    BY <1>2, ComputedMeans
  <2> HIDE DEF v, p, meant
  <2> QED BY <2>1, <2>2, <2>3
<1> HIDE DEF g, n, name, v, r, p, names, meant
<1>6. Visible(g)[k] = r[k]
  <2>1. g.rows = r /\ g.row_order = [j \in DOMAIN r |-> j]
    BY <1>2 DEF Framed
  <2> QED BY <1>1, <2>1 DEF Visible
<1>7. Wider(Visible(f)[k], name, v[k])[name] = v[k]
  BY <1>1, <1>3 DEF Wider
<1> QED BY <1>4, <1>5, <1>6, <1>7 DEF g, name, meant

\* A window's value at a row is what the rows of its partition, taken one by one, make it,
\* wherever the window's own order puts the row: the values come back to the rows they
\* were computed for, which the marker column of data/window.rs is there to see to.
THEOREM WindowsMeanThatAlways == Spec => WindowsMeanThat
<1> DEFINE means(w) ==
              LET rows == Visible(frame)
                  new == Visible(Last(stack').frame)
              IN  \A k \in Lines : new[k][WindowName(frame, w)]
                                  = Meant(rows, frame.columns[w.col].name, w, k)
           A == Widened => \A w \in Added : AddWindow(w) => means(w)
<1>1. AInv => A
  <2> SUFFICES ASSUME AInv, Widened, NEW w \in Added, AddWindow(w)
               PROVE  means(w)
    OBVIOUS
  <2> DEFINE f == frame
             g == AddWindowColumn(f, w)
  <2>1. FrameOK(f) /\ InStep(f)
    BY TopTable DEF AddWindow, Running
  <2>2. WindowAsked(f, w)
    BY WindowsOfAsked DEF Added
  <2>3. Reshape(g)
    BY DEF AddWindow
  <2> HIDE DEF f, g
  <2>4. g # Refused
    <3> SUFFICES ASSUME g = Refused PROVE FALSE
      OBVIOUS
    <3>1. stack' = stack
      BY <2>3 DEF Reshape
    <3>2. Len(f.columns) = Len(f.columns) + 1
      BY <3>1 DEF Widened, f, frame, Top
    <3>3. Len(f.columns) \in Nat
      BY <2>1, RegularShape
    <3> QED BY <3>2, <3>3
  <2>5. Last(stack').frame = g
    BY <2>3, <2>4, RemadeTop
  <2>6. \A k \in DOMAIN f.row_order :
           Visible(g)[k][WindowName(f, w)] = Meant(Visible(f), f.columns[w.col].name, w, k)
    BY <2>1, <2>2, <2>4, WindowMeans DEF g
  <2> QED BY <2>5, <2>6 DEF f, Lines
<1> HIDE DEF A
<1>2. AInv => [A]_vars
  BY <1>1
<1>3. Spec => [][A]_vars
  BY <1>2, AnalysisSoundness, PTL
<1> QED BY <1>3 DEF A, WindowsMeanThat

-----------------------------------------------------------------------------
(* What a summary says of the table under it, for as long as its columns   *)
(* are as it was made.                                                     *)

AddsUp(s, u) ==
    /\ s.made \in {"frequency", "group"} => SumsAgree(s, u)
    /\ s.made = "frequency" /\ InStep(s.frame) => CountsAgree(s, u)
    /\ s.made = "pivot" => CellsTotal(s.frame, Range(s.keys)) = Total(Visible(u), Measure)

\* The keys are columns of both tables, with the same type.
TypeIn(f, name) == f.columns[ColumnIndex(f, name)].type
KeysAlike(s, u) ==
    \A x \in Range(s.keys) :
        HasColumn(s.frame, x) /\ HasColumn(u, x) /\ TypeIn(s.frame, x) = TypeIn(u, x)

\* The rows under a line, the ones of them under a cell, and what the cell shows of them.
RowsUnder(s, u, r) ==
    {j \in DOMAIN u.row_order :
        \A x \in Range(s.keys) : Visible(u)[j][x] = s.frame.rows[r][x]}
CellRows(s, u, r, x) ==
    {j \in RowsUnder(s, u, r) :
        Visible(u)[j][s.on] # Null /\ Cast(TypeIn(u, s.on), Visible(u)[j][s.on]) = x}
SumUnder(u, S) == IF S = {} THEN Null ELSE SumOver(Visible(u), S, Measure)
LineHeld(s, r) == \A x \in Range(s.keys) : s.frame.rows[r][x] # Null
\* And each key is spelt by the program as Polars spells it.
LineFindable(s, r) ==
    /\ LineHeld(s, r)
    /\ \A x \in Range(s.keys) : Cast(TypeIn(s.frame, x), s.frame.rows[r][x])
                                = Text(TypeIn(s.frame, x), s.frame.rows[r][x])

\* The keys are the columns before Count.
KeysLead(s) ==
    /\ Len(s.keys) + 1 \in DOMAIN s.frame.columns
    /\ \A i \in DOMAIN s.keys :
          i \in DOMAIN s.frame.columns /\ s.frame.columns[i].name = s.keys[i]
    /\ s.frame.columns[Len(s.keys) + 1].name = Count
CountsHold(s, u) ==
    /\ KeysAlike(s, u) /\ KeysLead(s)
    /\ \A r \in DOMAIN s.frame.rows :
          LineHeld(s, r) => s.frame.rows[r][Count] = Cardinality(RowsUnder(s, u, r))
CellsHold(s, u) ==
    /\ KeysAlike(s, u) /\ HasColumn(u, s.on)
    /\ HasColumn(u, Measure) /\ TypeIn(u, Measure) # "text"
    /\ \A r \in DOMAIN s.frame.rows, x \in Range(s.frame.df) \ (Range(s.keys) \cup {<<"null">>}) :
          LineHeld(s, r) => s.frame.rows[r][x] = SumUnder(u, CellRows(s, u, r, x))

Summarises(s, u) ==
    /\ AddsUp(s, u)
    /\ s.made = "frequency" /\ InStep(s.frame) => CountsHold(s, u)
    /\ s.made = "pivot" => CellsHold(s, u)

\* The same table with its rows in another order, or some of them hidden or marked.
SameCells(f, g) ==
    /\ g.rows = f.rows /\ g.df = f.df
    /\ DOMAIN g.columns = DOMAIN f.columns
    /\ \A i \in DOMAIN f.columns : /\ g.columns[i].name = f.columns[i].name
                                   /\ g.columns[i].type = f.columns[i].type

LEMMA SameColumns ==
  ASSUME NEW f, NEW g, SameCells(f, g)
  PROVE  /\ InStep(g) = InStep(f)
         /\ \A x : HasColumn(g, x) = HasColumn(f, x) /\ ColumnIndex(g, x) = ColumnIndex(f, x)
<1>1. Names(g.columns) = Names(f.columns)
  BY DEF SameCells, Names
<1>2. \A x : Positions(g, x) = Positions(f, x)
  BY DEF SameCells, Positions
<1> QED BY <1>1, <1>2 DEF SameCells, InStep, HasColumn, ColumnIndex

LEMMA SameTypes ==
  ASSUME NEW f, FrameOK(f), InStep(f), NEW g, SameCells(f, g), NEW x, HasColumn(f, x)
  PROVE  TypeIn(g, x) = TypeIn(f, x)
<1>1. ColumnIndex(f, x) \in DOMAIN f.columns
  BY MeasureFacts
<1>2. ColumnIndex(g, x) = ColumnIndex(f, x)
  BY SameColumns
<1> QED BY <1>1, <1>2 DEF SameCells, TypeIn

LEMMA SameSummary ==
  ASSUME NEW s, NEW u, NEW t, FrameOK(s.frame), InStep(s.frame), Summarises(s, u),
         t.made = s.made, t.keys = s.keys, t.on = s.on, SameCells(s.frame, t.frame)
  PROVE  Summarises(t, u)
<1>1. /\ t.frame.rows = s.frame.rows /\ t.frame.df = s.frame.df /\ InStep(t.frame)
      /\ \A x : HasColumn(t.frame, x) = HasColumn(s.frame, x)
  BY SameColumns DEF SameCells
<1>2. GroupedBy(t, u) = GroupedBy(s, u)
  BY DEF GroupedBy
<1>3. SumsAgree(s, u) => SumsAgree(t, u)
  BY <1>1, <1>2 DEF SumsAgree
<1>4. CountsAgree(s, u) => CountsAgree(t, u)
  BY <1>1 DEF CountsAgree
<1>5. CellsTotal(t.frame, Range(t.keys)) = CellsTotal(s.frame, Range(s.keys))
  BY <1>1 DEF CellsTotal
<1>6. AddsUp(t, u)
  BY <1>1, <1>3, <1>4, <1>5 DEF AddsUp, Summarises
<1>7. KeysAlike(s, u) => KeysAlike(t, u)
  <2> SUFFICES ASSUME KeysAlike(s, u), NEW x \in Range(s.keys)
               PROVE  /\ HasColumn(t.frame, x) /\ HasColumn(u, x)
                      /\ TypeIn(t.frame, x) = TypeIn(u, x)
    BY DEF KeysAlike
  <2>1. HasColumn(s.frame, x) /\ HasColumn(u, x) /\ TypeIn(s.frame, x) = TypeIn(u, x)
    BY DEF KeysAlike
  <2>2. TypeIn(t.frame, x) = TypeIn(s.frame, x)
    BY <2>1, SameTypes
  <2> QED BY <1>1, <2>1, <2>2
<1>8. \A r : RowsUnder(t, u, r) = RowsUnder(s, u, r) /\ LineHeld(t, r) = LineHeld(s, r)
  BY <1>1 DEF RowsUnder, LineHeld
<1>9. \A r, x : CellRows(t, u, r, x) = CellRows(s, u, r, x)
  BY <1>8 DEF CellRows
<1>10. CountsHold(s, u) => CountsHold(t, u)
  <2> SUFFICES ASSUME CountsHold(s, u) PROVE CountsHold(t, u)
    OBVIOUS
  <2>1. KeysLead(s) => KeysLead(t)
    BY DEF KeysLead, SameCells
  <2> QED BY <1>1, <1>7, <1>8, <2>1 DEF CountsHold
<1>11. CellsHold(s, u) => CellsHold(t, u)
  BY <1>1, <1>7, <1>8, <1>9 DEF CellsHold
<1> QED BY <1>1, <1>6, <1>10, <1>11 DEF Summarises

\* Every sheet of the stack summarises the one under it, and the first none.
SummaryMakes == {"frequency", "group", "pivot"}
Chained(st) ==
    /\ st[1].made \notin SummaryMakes
    /\ \A i \in 2 .. Len(st) : Summarises(st[i], st[i - 1].frame)
SInv == AInv /\ Chained(stack)

LEMMA ChainPushed ==
  ASSUME SInv, NEW s, Push(s), Summarises(s, frame)
  PROVE  Chained(stack')
<1> DEFINE n == Len(stack)
           T == {stack[i] : i \in 1 .. n} \cup {s}
           new == Append(stack, s)
<1>1. stack \in Seq(T) /\ n \in Nat /\ n > 0
  <2>1. StackOK(stack)
    BY DEF SInv, AInv
  <2>2. stack \in Seq(T) /\ n \in Nat /\ n \in 1 .. n
    BY <2>1, StackSeq
  <2> HIDE DEF T, n
  <2> QED BY <2>2
<1>2. /\ stack' = new /\ Summarises(s, stack[n].frame) /\ stack[1].made \notin SummaryMakes
      /\ \A i \in 2 .. n : Summarises(stack[i], stack[i - 1].frame)
  BY DEF Push, frame, Top, Last, SInv, Chained
<1> HIDE DEF T
<1>3. Len(new) = n + 1 /\ new[n + 1] = s /\ \A i \in 1 .. n : new[i] = stack[i]
  BY <1>1, <1>2 DEF T
<1> HIDE DEF n, new
<1>4. \A i \in 2 .. n + 1 : Summarises(new[i], new[i - 1].frame)
  <2> TAKE i \in 2 .. n + 1
  <2>1. CASE i = n + 1
    <3>1. new[i] = s /\ i - 1 = n /\ n \in 1 .. n
      BY <2>1, <1>1, <1>3
    <3> QED BY <3>1, <1>2, <1>3
  <2>2. CASE i # n + 1
    <3>1. i \in 2 .. n /\ i \in 1 .. n /\ i - 1 \in 1 .. n
      BY <2>2, <1>1
    <3>2. new[i] = stack[i] /\ new[i - 1] = stack[i - 1]
      BY <3>1, <1>3
    <3> QED BY <3>1, <3>2, <1>2
  <2> QED BY <2>1, <2>2
<1>5. new[1].made \notin SummaryMakes
  <2>1. 1 \in 1 .. n
    BY <1>1
  <2>2. new[1] = stack[1]
    BY <2>1, <1>3
  <2> QED BY <2>2, <1>2
<1> QED BY <1>2, <1>3, <1>4, <1>5 DEF Chained

LEMMA ChainPopped ==
  ASSUME SInv, Pop
  PROVE  Chained(stack')
<1> DEFINE n == Len(stack)
           T == {stack[i] : i \in 1 .. n} \cup {0}
           new == Front(stack)
<1>1. stack \in Seq(T) /\ n \in Nat /\ n > 1 /\ stack' = new
  BY StackSeq DEF SInv, AInv, Pop
<1>2. /\ \A i \in 2 .. n : Summarises(stack[i], stack[i - 1].frame)
      /\ stack[1].made \notin SummaryMakes
  BY DEF SInv, Chained
<1>3. new = SubSeq(stack, 1, n - 1)
  BY DEF Front
<1> HIDE DEF T, new
<1>4. Len(new) = n - 1 /\ \A i \in 1 .. n - 1 : new[i] = stack[i]
  BY <1>1, <1>3
<1> HIDE DEF n
<1>5. \A i \in 2 .. n - 1 : Summarises(new[i], new[i - 1].frame)
  <2> TAKE i \in 2 .. n - 1
  <2>1. i \in 2 .. n /\ i \in 1 .. n - 1 /\ i - 1 \in 1 .. n - 1
    BY <1>1
  <2> QED BY <2>1, <1>2, <1>4
<1>6. new[1].made \notin SummaryMakes
  <2>1. 1 \in 1 .. n - 1
    BY <1>1
  <2>2. new[1] = stack[1]
    BY <2>1, <1>4
  <2> QED BY <2>2, <1>2
<1> QED BY <1>1, <1>4, <1>5, <1>6 DEF Chained

\* The sheet on top in place of another.
LEMMA ChainReplaced ==
  ASSUME SInv, NEW st, Len(st) = Len(stack),
         \A i \in 1 .. Len(stack) - 1 : st[i] = stack[i],
         Len(stack) > 1 => (Summarises(Top, Under) => Summarises(st[Len(stack)], Under)),
         Top.made \notin SummaryMakes => st[Len(stack)].made \notin SummaryMakes
  PROVE  Chained(st)
<1> DEFINE n == Len(stack)
<1>1. n \in Nat /\ n > 0 /\ Top = stack[n]
  BY TopFacts DEF SInv
<1>2. /\ \A i \in 2 .. n : Summarises(stack[i], stack[i - 1].frame)
      /\ stack[1].made \notin SummaryMakes
  BY DEF SInv, Chained
<1>0. st[1].made \notin SummaryMakes
  <2>1. CASE n = 1
    BY <2>1, <1>1, <1>2
  <2>2. CASE n # 1
    <3>1. 1 \in 1 .. n - 1
      BY <2>2, <1>1
    <3>2. st[1] = stack[1]
      BY <3>1
    <3> QED BY <3>2, <1>2
  <2> QED BY <2>1, <2>2
<1>3. n > 1 => (Summarises(stack[n], stack[n - 1].frame) => Summarises(st[n], stack[n - 1].frame))
  BY <1>1 DEF Under
<1> HIDE DEF n
<1>4. \A i \in 2 .. n : Summarises(st[i], st[i - 1].frame)
  <2> TAKE i \in 2 .. n
  <2>1. i - 1 \in 1 .. n - 1 /\ st[i - 1] = stack[i - 1]
    BY <1>1 DEF n
  <2>2. CASE i = n
    <3>1. Summarises(stack[n], stack[n - 1].frame) /\ n > 1
      BY <2>2, <1>2
    <3> QED BY <3>1, <1>3, <2>1, <2>2
  <2>3. CASE i # n
    <3>1. i \in 1 .. n - 1 /\ st[i] = stack[i]
      BY <2>3, <1>1 DEF n
    <3> QED BY <3>1, <2>1, <1>2
  <2> QED BY <2>2, <2>3
<1> QED BY <1>0, <1>4 DEF Chained, n

\* Its rows in another order, or other columns than it was made with.
LEMMA ChainReordered ==
  ASSUME SInv, InStep(frame), NEW f, SameCells(frame, f), Reorder(f)
  PROVE  Chained(stack')
<1> DEFINE n == Len(stack)
           a == WithFrame(Top, f)
<1>1. FrameOK(frame) /\ Top = stack[n] /\ n \in Nat /\ n > 0 /\ StackOK(stack)
  BY TopFacts DEF SInv, AInv
<1>2. stack' = [stack EXCEPT ![n] = a]
  <2>1. stack' = Reframed(stack, f)
    BY DEF Reorder, Reframed
  <2>2. Reframed(stack, f) = [stack EXCEPT ![n] = WithFrame(Last(stack), f)]
    BY <1>1, ExceptTop
  <2> QED BY <2>1, <2>2 DEF Top
<1>3. DOMAIN stack = 1 .. n
  BY <1>1, StackSeq
<1>4. /\ a.frame = f /\ a.made = Top.made /\ a.keys = Top.keys /\ a.on = Top.on
  <2>1. SheetOK(Top)
    BY TopFacts DEF SInv
  <2> QED BY <2>1 DEF WithFrame, SheetOK
<1> HIDE DEF a, n
<1>5. stack'[n] = a /\ DOMAIN stack' = 1 .. n /\ \A i \in 1 .. n - 1 : stack'[i] = stack[i]
  BY <1>1, <1>2, <1>3
<1>6. Len(stack') = n
  BY <1>1, <1>2, <1>3, ListFromTo
<1>7. ASSUME Summarises(Top, Under) PROVE Summarises(a, Under)
  <2> DEFINE s == Top
             u == Under
  <2>1. FrameOK(s.frame) /\ InStep(s.frame) /\ SameCells(s.frame, a.frame)
    BY <1>1, <1>4 DEF frame
  <2>2. Summarises(s, u) /\ a.made = s.made /\ a.keys = s.keys /\ a.on = s.on
    BY <1>4, <1>7
  <2> HIDE DEF s, u
  <2>3. Summarises(a, u)
    BY <2>1, <2>2, SameSummary
  <2> QED BY <2>3 DEF u
<1> DEFINE st == stack'
<1>8. /\ Len(st) = Len(stack) /\ \A i \in 1 .. Len(stack) - 1 : st[i] = stack[i]
      /\ Summarises(Top, Under) => Summarises(st[Len(stack)], Under)
      /\ st[Len(stack)].made = Top.made
  BY <1>4, <1>5, <1>6, <1>7 DEF n
<1> HIDE DEF st
<1>9. Chained(st)
  BY <1>8, ChainReplaced
<1> QED BY <1>9 DEF st

LEMMA ReshapedSaysNothing ==
  ASSUME NEW s, NEW u, s.made \notin {"frequency", "group", "pivot"}
  PROVE  Summarises(s, u)
BY Zenon DEF Summarises, AddsUp

LEMMA ChainReshaped ==
  ASSUME SInv, NEW f, Reshape(f)
  PROVE  Chained(stack')
<1>1. CASE f = Refused
  BY <1>1 DEF Reshape, SInv
<1>2. CASE f # Refused
  <2> DEFINE st == stack'
             n == Len(stack)
  <2>1. /\ Len(st) = n /\ Last(st).made = "reshaped"
        /\ \A i \in 1 .. n - 1 : st[i] = stack[i]
    BY <1>2, RemadeTop DEF SInv
  <2>2. Last(st) = st[n]
    BY <2>1 DEF Last
  <2>3. "reshaped" \notin {"frequency", "group", "pivot"}
    OBVIOUS
  <2>4. Summarises(st[n], Under)
    BY <2>1, <2>2, <2>3, ReshapedSaysNothing
  <2>c. st[n].made \notin SummaryMakes
    BY <2>1, <2>2, <2>3 DEF SummaryMakes
  <2> HIDE DEF st
  <2>5. Chained(st)
    BY <2>1, <2>4, <2>c, ChainReplaced
  <2> QED BY <2>5 DEF st
<1> QED BY <1>1, <1>2

-----------------------------------------------------------------------------
(* The tables that are opened summarise the one on screen.                 *)

LEMMA SameKeys ==
  ASSUME NEW a, NEW b, NEW keys
  PROVE  KeyOf(a, keys) = KeyOf(b, keys) <=> \A x \in keys : a[x] = b[x]
<1>1. ASSUME KeyOf(a, keys) = KeyOf(b, keys) PROVE \A x \in keys : a[x] = b[x]
  <2> TAKE x \in keys
  <2>1. KeyOf(a, keys)[x] = a[x] /\ KeyOf(b, keys)[x] = b[x]
    BY DEF KeyOf
  <2> QED BY <1>1, <2>1
<1>2. ASSUME \A x \in keys : a[x] = b[x] PROVE KeyOf(a, keys) = KeyOf(b, keys)
  BY <1>2 DEF KeyOf
<1> QED BY <1>1, <1>2

LEMMA JoinedShape ==
  ASSUME NEW T, NEW a \in Seq(T), NEW b \in Seq(T)
  PROVE  a \o b \in Seq(T) /\ Len(a \o b) = Len(a) + Len(b) /\ Len(a) \in Nat /\ Len(b) \in Nat
OBVIOUS

\* The headers of a table of counts: the keys, then Count.
LEMMA RankedHeaders ==
  ASSUME NEW f, FrameOK(f), InStep(f), NEW cols \in SUBSET DOMAIN f.columns,
         NEW counts, NEW headers, NEW aggs, NEW g, RankedBy(f, cols, counts, headers, aggs, g),
         g # Refused, InStep(g)
  PROVE  LET names == NamesOf(f, cols)
         IN  /\ FrameOK(g)
             /\ Len(names) + 1 \in DOMAIN g.columns
             /\ \A i \in DOMAIN names : i \in DOMAIN g.columns /\ g.columns[i].name = names[i]
             /\ g.columns[Len(names) + 1].name = Count
             /\ Range(names) \cap {Count, Pct, Bar} = {}
             /\ Range(names) \cap Range(Names(SumColumns(f, aggs))) = {}
<1> DEFINE names == NamesOf(f, cols)
           sums == Names(SumColumns(f, aggs))
           one == <<Count>>
           x == names \o one
           y == x \o sums
           end == <<Pct, Bar>>
           c == g.columns
<1>0. /\ aggs \in SUBSET DOMAIN f.columns /\ \A j \in aggs : Numeric(f, j)
      /\ counts \in Counts(f) /\ KeyHeaders(f, cols, headers)
      /\ g = Ranking(f, cols, counts, headers, aggs)
  BY DEF RankedBy
<1>1. /\ Distinct(Grouped(f, cols, aggs)) /\ c = RankedColumns(f, headers, aggs)
  <2>0. counts \in Counts(f)
    BY <1>0
  <2>1. Ranking(f, cols, counts, headers, aggs) # Refused
    BY <1>0
  <2>2. /\ Distinct(Grouped(f, cols, aggs))
        /\ Ranking(f, cols, counts, headers, aggs).columns = RankedColumns(f, headers, aggs)
    BY <2>0, <2>1, RankingIs
  <2> QED BY <1>0, <2>2
<1>2. FrameOK(g)
  BY <1>0, RankingKeeps
<1>3. Names(c) = Grouped(f, cols, aggs) \o end /\ c \in Seq(ColumnMeta)
  <2> DEFINE d == RankedColumns(f, headers, aggs)
  <2>1. Names(d) = Grouped(f, cols, aggs) \o end /\ d \in Seq(ColumnMeta)
    BY <1>0, RankedColumnsShape
  <2> QED BY <1>1, <2>1
<1>4. Grouped(f, cols, aggs) = y
  BY DEF Grouped
<1>5. names \in Seq(Texts) /\ one \in Seq(Texts) /\ Len(one) = 1 /\ end \in Seq(Texts)
      /\ Range(one) = {Count} /\ Range(end) = {Pct, Bar}
  <2>1. Count \in Texts /\ Pct \in Texts /\ Bar \in Texts
    BY WordsAssumption DEF Count, Pct, Bar, Texts, OwnWords
  <2>2. names \in Seq(Texts)
    BY NamesOfShape
  <2> QED BY <2>1, <2>2, OneAndTwo
<1>6. sums \in Seq(Texts)
  BY <1>0, SumColumnsShape, NamesType
<1>7. /\ Distinct(y) => Count \notin Range(names) /\ Range(names) \cap Range(sums) = {}
      /\ Range(y) = Range(names) \cup {Count} \cup Range(sums)
  <2> DEFINE d == Grouped(f, cols, aggs)
  <2>1. /\ Distinct(d) => Count \notin Range(names) /\ Range(names) \cap Range(sums) = {}
        /\ Range(d) = Range(names) \cup {Count} \cup Range(sums)
    BY <1>0, GroupedShape
  <2> HIDE DEF d, names, sums, y
  <2>2. d = y
    BY <1>4 DEF d
  <2> QED BY <2>1, <2>2
<1>8. Distinct(y \o end)
  BY <1>2, <1>3, <1>4 DEF FrameOK, InStep
<1>9. one[1] = Count
  OBVIOUS
<1> HIDE DEF names, sums, one, end
<1>10. /\ x \in Seq(Texts) /\ Len(x) = Len(names) + 1 /\ DOMAIN names \subseteq DOMAIN x
       /\ Len(names) + 1 \in DOMAIN x /\ x[Len(names) + 1] = Count
       /\ \A i \in DOMAIN names : x[i] = names[i]
  <2>1. x \in Seq(Texts) /\ Len(x) = Len(names) + 1 /\ Len(names) \in Nat
    BY <1>5, JoinedShape
  <2>2. /\ \A k \in DOMAIN names : k \in DOMAIN x /\ x[k] = names[k]
        /\ \A k \in DOMAIN one : Len(names) + k \in DOMAIN x /\ x[Len(names) + k] = one[k]
    BY <1>5, RangeJoined
  <2>3. 1 \in DOMAIN one
    BY <1>5
  <2> QED BY <2>1, <2>2, <2>3, <1>9
<1> HIDE DEF x
<1>11. y \in Seq(Texts) /\ \A k \in DOMAIN x : k \in DOMAIN y /\ y[k] = x[k]
  BY <1>6, <1>10, RangeJoined
<1> HIDE DEF y
<1>12. \A k \in DOMAIN y : k \in DOMAIN (y \o end) /\ (y \o end)[k] = y[k]
  BY <1>5, <1>11, RangeJoined
<1>13. DOMAIN Names(c) = DOMAIN c /\ \A i \in DOMAIN c : Names(c)[i] = c[i].name
  BY <1>3, NamesType
<1>14. \A k \in DOMAIN x : k \in DOMAIN c /\ c[k].name = x[k]
  BY <1>3, <1>4, <1>11, <1>12, <1>13
<1>15. Range(y) \cap {Pct, Bar} = {} /\ Distinct(y)
  BY <1>5, <1>8, <1>11, DistinctJoined
<1> QED BY <1>2, <1>7, <1>10, <1>14, <1>15 DEF names, sums

\* The columns and the lines of a table of counts.
LEMMA RankedParts ==
  ASSUME NEW f, FrameOK(f), NEW cols, NEW counts, NEW headers, NEW aggs, NEW g,
         RankedBy(f, cols, counts, headers, aggs, g), g # Refused
  PROVE  /\ g.columns = RankedColumns(f, headers, aggs)
         /\ DOMAIN g.rows = 1 .. Cardinality(Firsts(f, cols))
         /\ \A k \in 1 .. Cardinality(Firsts(f, cols)) :
               \E i \in DOMAIN f.row_order : /\ g.rows[k] = RankedLine(f, cols, counts, aggs, i)
                                            /\ RankedLineOK(f, cols, counts, aggs, i)
<1> DEFINE h == Ranking(f, cols, counts, headers, aggs)
           m == Cardinality(Firsts(f, cols))
           p == RankedOrder(f, cols, counts)
<1>0. counts \in Counts(f)
  BY DEF RankedBy
<1>1. h # Refused /\ g = h
  BY DEF RankedBy
<1>2. /\ h.columns = RankedColumns(f, headers, aggs)
      /\ DOMAIN h.rows = 1 .. m
      /\ \A k \in 1 .. m : /\ h.rows[k] = RankedLine(f, cols, counts, aggs, p[k])
                           /\ p[k] \in DOMAIN f.row_order
                           /\ RankedLineOK(f, cols, counts, aggs, p[k])
  <2>1. h = FromParts(RankedColumns(f, headers, aggs),
                      Grouped(f, cols, aggs) \o SharesLeft(f, cols, aggs),
                      RankedRows(f, cols, counts, aggs))
    BY <1>1, RankingParts
  <2>2. h.columns = RankedColumns(f, headers, aggs) /\ h.rows = RankedRows(f, cols, counts, aggs)
    BY <2>1 DEF FromParts
  <2>3. \A k \in 1 .. m : p[k] \in DOMAIN f.row_order
    BY <1>0, RankedOrderFacts
  <2> HIDE DEF h, p
  <2>4. DOMAIN h.rows = 1 .. m /\ \A k \in 1 .. m : h.rows[k] = RankedLine(f, cols, counts, aggs, p[k])
    BY <2>2 DEF RankedRows, p
  <2>5. \A k \in 1 .. m : RankedLineOK(f, cols, counts, aggs, p[k])
    BY <1>0, <2>3, FrequencyCells
  <2> QED BY <2>2, <2>3, <2>4, <2>5
<1> HIDE DEF h, m, p
<1>3. /\ DOMAIN g.rows = 1 .. m
      /\ \A k \in 1 .. m :
            \E i \in DOMAIN f.row_order : /\ g.rows[k] = RankedLine(f, cols, counts, aggs, i)
                                         /\ RankedLineOK(f, cols, counts, aggs, i)
  BY <1>1, <1>2
<1> QED BY <1>1, <1>2, <1>3 DEF m

LEMMA RankedTypes ==
  ASSUME NEW f, FrameOK(f), InStep(f), NEW cols \in SUBSET DOMAIN f.columns,
         NEW counts, NEW headers, NEW aggs, NEW g, RankedBy(f, cols, counts, headers, aggs, g),
         g # Refused, InStep(g), NEW x \in Range(NamesOf(f, cols))
  PROVE  HasColumn(g, x) /\ HasColumn(f, x) /\ TypeIn(g, x) = TypeIn(f, x)
<1> DEFINE names == NamesOf(f, cols)
           sums == Names(SumColumns(f, aggs))
           k == ColumnIndex(g, x)
           c == g.columns
<1>0. /\ aggs \in SUBSET DOMAIN f.columns /\ \A j \in aggs : Numeric(f, j)
      /\ counts \in Counts(f) /\ KeyHeaders(f, cols, headers)
      /\ g = Ranking(f, cols, counts, headers, aggs)
  BY DEF RankedBy
<1>1. /\ FrameOK(g)
      /\ \A i \in DOMAIN names : i \in DOMAIN c /\ c[i].name = names[i]
      /\ Range(names) \cap {Count, Pct, Bar} = {} /\ Range(names) \cap Range(sums) = {}
  BY RankedHeaders
<1>2. c = RankedColumns(f, headers, aggs)
  BY RankedParts
<1>3. HasColumn(g, x)
  <2>1. PICK i \in DOMAIN names : names[i] = x
    BY InRange
  <2> QED BY <1>1, <2>1 DEF HasColumn, Positions
<1>4. k \in DOMAIN c /\ c[k].name = x
  BY <1>1, <1>3, MeasureFacts
<1>5. PICK i \in cols : f.columns[i].name = x
  BY NamesOfShape
<1>6. HasColumn(f, x)
  BY <1>5 DEF HasColumn, Positions
<1>7. ColumnIndex(f, x) = i
  BY <1>5, <1>6, MeasureFacts, RegularShape
<1>8. \A j \in aggs : SumName(f.columns[j].name) \in Range(sums)
  BY <1>0, SumColumnsShape
<1>9. \/ \E j \in cols : c[k].name = f.columns[j].name /\ c[k].type = f.columns[j].type
      \/ c[k].name = Count
      \/ \E j \in aggs : c[k].name = SumName(f.columns[j].name)
      \/ c[k].name = Pct
      \/ c[k].name = Bar
  <2> DEFINE d == RankedColumns(f, headers, aggs)
  <2>1. \A l \in DOMAIN d :
           \/ \E j \in cols : d[l].name = f.columns[j].name /\ d[l].type = f.columns[j].type
           \/ d[l].name = Count
           \/ \E j \in aggs : d[l].name = SumName(f.columns[j].name)
           \/ d[l].name = Pct
           \/ d[l].name = Bar
    BY <1>0, RankedColumnsShape
  <2> HIDE DEF d
  <2>2. c = d /\ k \in DOMAIN d
    BY <1>2, <1>4 DEF d
  <2> HIDE DEF c, k
  <2> QED BY <2>1, <2>2
<1> HIDE DEF names, sums, k, c
<1>10. PICK j \in cols : x = f.columns[j].name /\ c[k].type = f.columns[j].type
  BY <1>1, <1>4, <1>8, <1>9 DEF names
<1>11. j = i
  BY <1>5, <1>10, RegularShape
<1> QED BY <1>3, <1>6, <1>7, <1>10, <1>11 DEF TypeIn, k, c

LEMMA RankingSummarises ==
  ASSUME NEW f, FrameOK(f), InStep(f), NEW cols \in SUBSET DOMAIN f.columns,
         NEW counts, NEW headers, NEW aggs, NEW s, RankedBy(f, cols, counts, headers, aggs, s.frame),
         s.frame # Refused, s.made = "frequency", s.keys = NamesOf(f, cols)
  PROVE  Summarises(s, f)
<1> DEFINE g == s.frame
           names == NamesOf(f, cols)
           keys == Range(names)
           rows == Visible(f)
           m == Cardinality(Firsts(f, cols))
<1>0. /\ aggs \in SUBSET DOMAIN f.columns /\ \A j \in aggs : Numeric(f, j)
      /\ counts \in Counts(f) /\ KeyHeaders(f, cols, headers)
      /\ g = Ranking(f, cols, counts, headers, aggs)
  BY DEF RankedBy
<1>1. PICK j \in cols : f.columns[j].name = Head(names) /\ CountsWhole(f, cols, counts, f.columns[j].name)
  BY DEF RankedBy
<1>2. TotalsKept(f, keys, g)
  BY <1>0, RankingSums
<1>3. SumsAgree(s, f)
  <2> SUFFICES ASSUME NEW c \in Range(f.columns), SumName(c.name) \in Range(g.df) \ keys
               PROVE  Total(g.rows, SumName(c.name)) = Total(rows, c.name)
    BY DEF SumsAgree, GroupedBy
  <2>1. PICK i \in DOMAIN f.columns : f.columns[i] = c
    BY InRange
  <2> QED BY <2>1, <1>2 DEF TotalsKept
<1>4. InStep(g) => CountsAgree(s, f)
  <2>1. InStep(g) => CountsKept(f, f.columns[j].name, g)
    BY <1>0, <1>1, RankingCounts
  <2> QED BY <2>1, <1>1 DEF CountsKept, CountsAgree
<1>5. AddsUp(s, f)
  BY <1>3, <1>4 DEF AddsUp
<1>6. ASSUME InStep(g) PROVE CountsHold(s, f)
  <2>1. KeysAlike(s, f)
    BY <1>6, RankedTypes DEF KeysAlike
  <2>2. KeysLead(s) /\ Range(names) \cap {Count, Pct, Bar} = {}
    BY <1>6, RankedHeaders DEF KeysLead
  <2>3. /\ DOMAIN g.rows = 1 .. m
        /\ \A k \in 1 .. m :
              \E i \in DOMAIN f.row_order : /\ g.rows[k] = RankedLine(f, cols, counts, aggs, i)
                                           /\ RankedLineOK(f, cols, counts, aggs, i)
    BY RankedParts
  <2>4. DOMAIN rows = DOMAIN f.row_order
    BY VisibleShape
  <2> HIDE DEF m, g
  <2>5. ASSUME NEW r \in 1 .. m, LineHeld(s, r)
        PROVE  s.frame.rows[r][Count] = Cardinality(RowsUnder(s, f, r))
    <3>0. PICK i \in DOMAIN f.row_order : /\ g.rows[r] = RankedLine(f, cols, counts, aggs, i)
                                          /\ RankedLineOK(f, cols, counts, aggs, i)
      BY <2>3
    <3> DEFINE line == RankedLine(f, cols, counts, aggs, i)
    <3>1. s.frame.rows[r] = line /\ i \in DOMAIN f.row_order /\ RankedLineOK(f, cols, counts, aggs, i)
      BY <3>0 DEF g
    <3>2. \A x \in keys : line[x] = rows[i][x]
      <4> TAKE x \in keys
      <4>1. line[x] = LineOf(f, cols, aggs, i)[x]
        BY <3>1, <2>2 DEF RankedLineOK
      <4>2. PICK q \in cols : x = f.columns[q].name
        BY NamesOfShape
      <4>3. LineOf(f, cols, aggs, i)[x] = rows[i][x]
        BY <1>0, <3>1, <4>2, GroupCells
      <4> QED BY <4>1, <4>3
    <3>3. line[Count] = counts[i]
      BY <3>1 DEF RankedLineOK
    <3> HIDE DEF line, rows
    <3>4. f.columns[j].name \in keys
      BY NamesOfShape
    <3>5. rows[i][f.columns[j].name] # Null
      BY <1>1, <3>1, <3>2, <3>4, <2>5 DEF LineHeld
    <3>6. counts[i] = Cardinality(GroupOf(rows, keys, i))
      BY <1>1, <3>1, <3>5 DEF CountsWhole, rows
    <3>7. GroupOf(rows, keys, i) = RowsUnder(s, f, r)
      <4>1. GroupOf(rows, keys, i) = {l \in DOMAIN rows : \A x \in keys : rows[l][x] = rows[i][x]}
        BY SameKeys DEF GroupOf
      <4>2. RowsUnder(s, f, r) = {l \in DOMAIN rows : \A x \in keys : rows[l][x] = line[x]}
        BY <3>1, <2>4 DEF RowsUnder, rows
      <4> HIDE DEF keys
      <4> QED BY <4>1, <4>2, <3>2
    <3> QED BY <3>1, <3>3, <3>6, <3>7
  <2> QED BY <2>1, <2>2, <2>3, <2>5 DEF CountsHold, g
<1> QED BY <1>5, <1>6 DEF Summarises

LEMMA RelistedAlike ==
  ASSUME NEW f, NEW o, NEW g, NEW s, NEW t
  PROVE  SameCells(f, Framed(f.columns, f.df, f.rows, o, g, s, t))
BY DEF SameCells, Framed

LEMMA ExceptAlike ==
  ASSUME NEW f, FrameOK(f), NEW o, NEW s
  PROVE  SameCells(f, [f EXCEPT !.row_order = o]) /\ SameCells(f, [f EXCEPT !.selected_rows = s])
<1>1. [f EXCEPT !.row_order = o]
      = Framed(f.columns, f.df, f.rows, o, f.original_order, f.selected_rows, f.transposed)
  BY ExceptLists
<1>2. [f EXCEPT !.selected_rows = s]
      = Framed(f.columns, f.df, f.rows, f.row_order, f.original_order, s, f.transposed)
  BY ExceptLists
<1> QED BY <1>1, <1>2, RelistedAlike

LEMMA PinAlike ==
  ASSUME NEW f, FrameOK(f), InStep(f), NEW i \in DOMAIN f.columns
  PROVE  SameCells(f, TogglePinColumn(f, i))
<1> DEFINE m == [f.columns[i] EXCEPT !.pinned = ~f.columns[i].pinned]
           c == [f.columns EXCEPT ![i] = m]
<1>1. PICK a, b, e, o, g, s, t : f = Framed(a, b, e, o, g, s, t)
  BY FrameIsParts
<1>2. f.columns = a /\ f.df = b /\ f.rows = e
  BY <1>1 DEF Framed
<1>3. TogglePinColumn(f, i) = [f EXCEPT !.columns = c]
  BY DEF TogglePinColumn
<1>4. f.columns \in Seq(ColumnMeta) /\ i \in 1 .. Len(f.columns) /\ f.columns[i] \in ColumnMeta
  BY RegularShape
<1>5. m.name = f.columns[i].name /\ m.type = f.columns[i].type
  BY <1>4 DEF ColumnMeta
<1> HIDE DEF m
<1>6. DOMAIN c = DOMAIN f.columns
      /\ \A k \in DOMAIN c : c[k].name = f.columns[k].name /\ c[k].type = f.columns[k].type
  BY <1>4, <1>5
<1> HIDE DEF c
<1>7. [f EXCEPT !.columns = c] = Framed(c, b, e, o, g, s, t)
  BY <1>1 DEF Framed
<1>8. TogglePinColumn(f, i) = Framed(c, b, e, o, g, s, t)
  BY <1>3, <1>7
<1> QED BY <1>2, <1>6, <1>8 DEF SameCells, Framed

LEMMA InPlaceChains ==
  ASSUME SInv, InStep(frame),
         \/ \E c \in Cols, desc \in BOOLEAN : SortCursorColumn(c, desc)
         \/ ResetSort
         \/ \E k \in Lines : ToggleSelected(k)
         \/ DeleteSelected
         \/ \E c \in Cols : TogglePin(c)
  PROVE  Chained(stack')
<1>1. FrameOK(frame)
  BY TopFacts DEF SInv
<1>2. ASSUME NEW c \in Cols, NEW desc \in BOOLEAN, SortCursorColumn(c, desc) PROVE Chained(stack')
  <2> DEFINE f == SortByKey(frame, c, desc)
             p == Sorted(Visible(frame), frame.columns[c].name, desc)
             o == [k \in DOMAIN p |-> frame.row_order[p[k]]]
  <2>1. Reorder(f)
    BY <1>2 DEF SortCursorColumn
  <2>2. f = [frame EXCEPT !.row_order = o]
    BY DEF SortByKey
  <2> HIDE DEF f, o
  <2>3. SameCells(frame, f)
    <3>1. SameCells(frame, [frame EXCEPT !.row_order = o])
      BY <1>1, ExceptAlike
    <3> QED BY <2>2, <3>1
  <2> QED BY <2>1, <2>3, ChainReordered
<1>3. ASSUME ResetSort PROVE Chained(stack')
  <2> DEFINE f == ResetSortOrder(frame)
             o == frame.original_order
  <2>1. Reorder(f)
    BY <1>3 DEF ResetSort
  <2>2. f = [frame EXCEPT !.row_order = o]
    BY DEF ResetSortOrder
  <2> HIDE DEF f, o
  <2>3. SameCells(frame, f)
    <3>1. SameCells(frame, [frame EXCEPT !.row_order = o])
      BY <1>1, ExceptAlike
    <3> QED BY <2>2, <3>1
  <2> QED BY <2>1, <2>3, ChainReordered
<1>4. ASSUME NEW k \in Lines, ToggleSelected(k) PROVE Chained(stack')
  <2> DEFINE row == frame.row_order[k]
             s == IF row \in frame.selected_rows THEN frame.selected_rows \ {row}
                  ELSE frame.selected_rows \cup {row}
             f == [frame EXCEPT !.selected_rows = s]
  <2>1. Reorder(f)
    BY <1>4 DEF ToggleSelected
  <2> HIDE DEF s
  <2>2. SameCells(frame, f)
    BY <1>1, ExceptAlike
  <2> HIDE DEF f
  <2> QED BY <2>1, <2>2, ChainReordered
<1>5. ASSUME DeleteSelected PROVE Chained(stack')
  <2> DEFINE f == DeleteSelectedRows(frame)
             kept == DOMAIN frame.rows \ frame.selected_rows
             o == Retain(frame.row_order, kept)
             g == Retain(frame.original_order, kept)
             none == {}
  <2>1. Reorder(f)
    BY <1>5 DEF DeleteSelected
  <2>2. f = [frame EXCEPT !.row_order = o, !.original_order = g, !.selected_rows = none]
    BY DEF DeleteSelectedRows
  <2> HIDE DEF f, o, g, none
  <2>3. f = Relisted(frame, o, g, none)
    BY <2>2 DEF Relisted
  <2>4. SameCells(frame, f)
    BY <1>1, <2>3, RelistedIs, RelistedAlike
  <2> QED BY <2>1, <2>4, ChainReordered
<1>6. ASSUME NEW c \in Cols, TogglePin(c) PROVE Chained(stack')
  <2> DEFINE f == TogglePinColumn(frame, c)
  <2>1. Reorder(f) /\ c \in DOMAIN frame.columns
    BY <1>6 DEF TogglePin, Reorder, Cols
  <2>2. SameCells(frame, f)
    BY <1>1, <2>1, PinAlike
  <2> HIDE DEF f
  <2> QED BY <2>1, <2>2, ChainReordered
<1> QED BY <1>2, <1>3, <1>4, <1>5, <1>6

LEMMA ColumnsChain ==
  ASSUME SInv,
         \/ \E c \in Cols, name \in NewNames : ApplyRenameColumn(c, name)
         \/ \E c \in Cols : DeleteColumn(c)
         \/ \E c \in Cols, name \in NewNames : ApplyInsertColumn(c, name)
         \/ \E c \in Cols : MoveColumn(c)
         \/ \E w \in WindowsOf(frame, Functions) : AddWindow(w)
         \/ TransposeWhole
  PROVE  Chained(stack')
<1>1. \E f : Reshape(f)
  BY DEF ApplyRenameColumn, DeleteColumn, ApplyInsertColumn, MoveColumn, AddWindow, TransposeWhole
<1> QED BY <1>1, ChainReshaped

\* A table that says nothing of the one under it.
LEMMA ChainDerived ==
  ASSUME SInv, NEW made, made \notin {"frequency", "group", "pivot"}, NEW f, Push(Derived(made, f))
  PROVE  Chained(stack')
<1> DEFINE s == Derived(made, f)
<1>1. s.made = made
  BY DEF Derived
<1> HIDE DEF s
<1>2. Summarises(s, frame)
  BY <1>1, ReshapedSaysNothing
<1> QED BY <1>2, ChainPushed DEF s

LEMMA DrillsChain ==
  ASSUME SInv,
         \/ \E k \in Lines : DrillDownFrequency(k)
         \/ \E k \in Lines, c \in Cols : DrillDownPivot(k, c)
         \/ \E k \in Lines : OpenRow(k)
         \/ \E c \in Cols : \E label \in Bars(frame, c) : ChartDrillDown(c, label)
  PROVE  Chained(stack')
<1>1. \/ UNCHANGED stack
      \/ \E names, texts : DrillInto(names, texts)
      \/ \E f : Push(Derived("row", f))
      \/ \E f : Push(Derived("bar", f))
  BY DEF DrillDownFrequency, DrillDownPivot, OpenRow, ChartDrillDown
<1>2. UNCHANGED stack \/ \E f : \E made \in {"drilled", "row", "bar"} : Push(Derived(made, f))
  BY <1>1 DEF DrillInto
<1>3. \A made \in {"drilled", "row", "bar"} : made \notin {"frequency", "group", "pivot"}
  OBVIOUS
<1>4. CASE UNCHANGED stack
  BY <1>4 DEF SInv
<1> QED BY <1>2, <1>3, <1>4, ChainDerived

LEMMA FrequencyChains ==
  ASSUME SInv, InStep(frame),
         (\E c \in Cols : OpenFrequencyTable(c)) \/ OpenMultiFrequencyTable
  PROVE  Chained(stack')
<1>1. FrameOK(frame)
  BY TopFacts DEF SInv
<1>2. ASSUME UNCHANGED stack PROVE Chained(stack')
  BY <1>2 DEF SInv
<1>3. ASSUME NEW S \in SUBSET DOMAIN frame.columns, NEW f, f # Refused, Push(Frequency(S, f)),
             \E counts, headers, aggs : RankedBy(frame, S, counts, headers, aggs, f)
      PROVE  Chained(stack')
  <2> DEFINE s == Frequency(S, f)
             u == frame
  <2>1. s.frame = f /\ s.made = "frequency" /\ s.keys = NamesOf(u, S)
    BY DEF Frequency
  <2>2. PICK counts, headers, aggs : RankedBy(u, S, counts, headers, aggs, f)
    BY <1>3
  <2>3. FrameOK(u) /\ InStep(u) /\ S \in SUBSET DOMAIN u.columns
    BY <1>1
  <2> HIDE DEF s, u
  <2>4. RankedBy(u, S, counts, headers, aggs, s.frame) /\ s.frame # Refused
    BY <2>1, <2>2, <1>3
  <2>5. Summarises(s, u)
    BY <2>1, <2>3, <2>4, RankingSummarises
  <2>6. Summarises(s, frame)
    BY <2>5 DEF u
  <2> QED BY <2>6, <1>3, ChainPushed DEF s
<1>4. ASSUME NEW c \in Cols, OpenFrequencyTable(c) PROVE Chained(stack')
  <2> DEFINE f == BuildFrequencyTable(frame, c)
             S == {c}
  <2>1. (f = Refused /\ UNCHANGED stack) \/ (f # Refused /\ Push(Frequency(S, f)))
    BY <1>4 DEF OpenFrequencyTable
  <2>2. \E counts, headers, aggs : RankedBy(frame, S, counts, headers, aggs, f)
    BY <1>1, FrequencyRanks DEF Cols
  <2>3. S \in SUBSET DOMAIN frame.columns
    BY DEF Cols
  <2> HIDE DEF f, S
  <2> QED BY <1>2, <1>3, <2>1, <2>2, <2>3
<1>5. ASSUME OpenMultiFrequencyTable PROVE Chained(stack')
  <2> DEFINE S == Pinned(frame)
             f == BuildMultiFrequencyTable(frame, S)
  <2>1. S # {} /\ ((f = Refused /\ UNCHANGED stack) \/ (f # Refused /\ Push(Frequency(S, f))))
    BY <1>5 DEF OpenMultiFrequencyTable
  <2>2. S \in SUBSET DOMAIN frame.columns
    BY DEF Pinned
  <2> HIDE DEF S
  <2>3. \E counts, headers, aggs : RankedBy(frame, S, counts, headers, aggs, f)
    BY <1>1, <2>1, <2>2, MultiFrequencyRanks
  <2> HIDE DEF f
  <2> QED BY <1>2, <1>3, <2>1, <2>2, <2>3
<1> QED BY <1>4, <1>5

\* The names of the columns a table is grouped by.
LEMMA PinnedNames ==
  ASSUME NEW f, FrameOK(f), InStep(f)
  PROVE  {f.columns[i].name : i \in Pinned(f)} = Range(NamesOf(f, Pinned(f)))
<1> DEFINE S == Pinned(f)
           A == {f.columns[i].name : i \in S}
           B == Range(NamesOf(f, S))
<1>1. S \in SUBSET DOMAIN f.columns
  BY DEF Pinned
<1> HIDE DEF S
<1>2. (\A i \in S : f.columns[i].name \in B) /\ (\A x \in B : \E i \in S : x = f.columns[i].name)
  BY <1>1, NamesOfShape
<1> HIDE DEF B
<1>3. A = B
  BY <1>2
<1> QED BY <1>3 DEF S, B

LEMMA GroupSummarises ==
  ASSUME NEW f, FrameOK(f), InStep(f), NEW aggs \in SUBSET DOMAIN f.columns,
         \A j \in aggs : Numeric(f, j), NEW s, s.frame = GroupBy(f, Pinned(f), aggs),
         s.frame # Refused, s.made = "group"
  PROVE  Summarises(s, f)
<1> DEFINE S == Pinned(f)
           keys == Range(NamesOf(f, S))
           g == GroupBy(f, S, aggs)
<1>1. S \in SUBSET DOMAIN f.columns
  BY DEF Pinned
<1>2. TotalsKept(f, keys, g)
  BY <1>1, GroupBySums
<1>3. GroupedBy(s, f) = keys
  BY PinnedNames DEF GroupedBy
<1> HIDE DEF keys, S
<1>4. SumsAgree(s, f)
  <2> SUFFICES ASSUME NEW c \in Range(f.columns), SumName(c.name) \in Range(g.df) \ keys
               PROVE  Total(g.rows, SumName(c.name)) = Total(Visible(f), c.name)
    BY <1>3 DEF SumsAgree, S
  <2>1. PICK i \in DOMAIN f.columns : f.columns[i] = c
    BY InRange
  <2> QED BY <2>1, <1>2 DEF TotalsKept
<1> QED BY <1>4 DEF Summarises, AddsUp

LEMMA GroupChains ==
  ASSUME SInv, InStep(frame), OpenGroupBy
  PROVE  Chained(stack')
<1> DEFINE u == frame
           S == Pinned(frame)
           A == Aggregated(frame, S)
           f == GroupBy(frame, S, A)
           s == Derived("group", f)
<1>1. (f = Refused /\ UNCHANGED stack) \/ (f # Refused /\ Push(s))
  BY DEF OpenGroupBy
<1>2. FrameOK(u) /\ InStep(u)
  BY TopFacts DEF SInv
<1>3. A \in SUBSET DOMAIN u.columns /\ \A j \in A : Numeric(u, j)
  BY AggregatedShape
<1>4. s.frame = f /\ s.made = "group"
  BY DEF Derived
<1>5. f = GroupBy(u, Pinned(u), A)
  OBVIOUS
<1>6. UNCHANGED stack => Chained(stack')
  BY DEF SInv
<1> HIDE DEF u, S, A, f, s
<1>7. f # Refused => Summarises(s, u)
  BY <1>2, <1>3, <1>4, <1>5, GroupSummarises
<1> QED BY <1>1, <1>6, <1>7, ChainPushed DEF u

LEMMA TextInjective ==
  ASSUME NEW type \in Types, NEW v \in Values(type), NEW w \in Values(type), v # Null, w # Null,
         Text(type, v) = Text(type, w)
  PROVE  v = w
<1>1. CASE type = "text"
  BY <1>1 DEF Text
<1>2. CASE type # "text"
  <2>1. v \in Int /\ w \in Int
    BY <1>2 DEF Values
  <2>2. Text(type, v) = Numeral(v) /\ Text(type, w) = Numeral(w)
    BY <1>2 DEF Text
  <2> QED BY <2>1, <2>2, NumeralInjective
<1> QED BY <1>1, <1>2

\* No numeral ends as a cast does.
LEMMA CastApart ==
  ASSUME NEW m \in Int, NEW n \in Int
  PROVE  /\ Append(Numeral(m), ".0") # Numeral(n)
         /\ Append(Numeral(m), ".0") = Append(Numeral(n), ".0") => m = n
<1> DEFINE a == Numeral(m)
           b == Numeral(n)
<1>1. \A i \in DOMAIN b : b[i] # ".0"
  BY DEF Numeral
<1>2. a \in Seq(Words) /\ b \in Seq(Words)
  BY NumeralIsText DEF Texts
<1>3. a = b => m = n
  BY NumeralInjective
<1>4. ".0" \in Words
  BY WordsAssumption DEF OwnWords
<1> HIDE DEF a, b
<1>5. Append(a, ".0") # b
  <2>1. Len(a) + 1 \in DOMAIN Append(a, ".0") /\ Append(a, ".0")[Len(a) + 1] = ".0"
    BY <1>2, <1>4
  <2> QED BY <1>1, <2>1
<1>6. Append(a, ".0") = Append(b, ".0") => a = b
  <2> SUFFICES ASSUME Append(a, ".0") = Append(b, ".0") PROVE a = b
    OBVIOUS
  <2>1. Len(a) = Len(b) /\ Len(a) \in Nat
    BY <1>2, <1>4
  <2>2. \A i \in 1 .. Len(a) : Append(a, ".0")[i] = a[i] /\ Append(b, ".0")[i] = b[i]
    BY <1>2, <1>4, <2>1
  <2> QED BY <1>2, <2>1, <2>2
<1> QED BY <1>3, <1>5, <1>6 DEF a, b

LEMMA CastInjective ==
  ASSUME NEW type \in Types, NEW v \in Values(type), NEW w \in Values(type), v # Null, w # Null,
         Cast(type, v) = Cast(type, w)
  PROVE  v = w
<1>1. CASE type = "text"
  BY <1>1, TextInjective DEF Cast, Whole
<1>2. CASE type # "text"
  <2>1. v \in Int /\ w \in Int
    BY <1>2 DEF Values
  <2>2. /\ Cast(type, v) = IF Whole(type, v) THEN Append(Numeral(v), ".0") ELSE Numeral(v)
        /\ Cast(type, w) = IF Whole(type, w) THEN Append(Numeral(w), ".0") ELSE Numeral(w)
    BY <1>2 DEF Cast, Text
  <2>3. CASE Whole(type, v) /\ Whole(type, w)
    BY <2>1, <2>2, <2>3, CastApart
  <2>4. CASE ~Whole(type, v) /\ ~Whole(type, w)
    BY <2>1, <2>2, <2>4, NumeralInjective
  <2>5. CASE Whole(type, v) /\ ~Whole(type, w)
    BY <2>1, <2>2, <2>5, CastApart
  <2>6. CASE ~Whole(type, v) /\ Whole(type, w)
    BY <2>1, <2>2, <2>6, CastApart
  <2> QED BY <2>3, <2>4, <2>5, <2>6
<1> QED BY <1>1, <1>2

\* The lines and the values of a pivot are those of rows.
LEMMA PivotSources ==
  ASSUME NEW f, FrameOK(f), NEW index, NEW pivot, NEW order, Listing(f, order)
  PROVE  /\ \A r \in DOMAIN PivotLines(f, index, order) : \E j \in DOMAIN f.row_order :
               PivotLines(f, index, order)[r] = KeyOf(Visible(f)[j], Range(NamesOf(f, index)))
         /\ \A k \in DOMAIN PivotValues(f, pivot, order) : \E j \in DOMAIN f.row_order :
               PivotValues(f, pivot, order)[k] = Visible(f)[j][f.columns[pivot].name]
<1> DEFINE keys == Range(NamesOf(f, index))
           on == f.columns[pivot].name
           rows == Visible(f)
           s == [k \in DOMAIN order |-> KeyOf(rows[order[k]], keys)]
           t == [k \in DOMAIN order |-> rows[order[k]][on]]
           u == PivotLines(f, index, order)
           v == PivotValues(f, pivot, order)
<1>1. PICK m \in Nat : DOMAIN order = 1 .. m /\ \A k \in 1 .. m : order[k] \in DOMAIN f.row_order
  BY DEF Listing
<1>2. u = Unique(s) /\ v = Unique(t)
  BY DEF PivotLines, PivotValues
<1>3. DOMAIN s = 1 .. m /\ \A k \in 1 .. m : s[k] = KeyOf(rows[order[k]], keys)
  BY <1>1
<1>4. DOMAIN t = 1 .. m /\ \A k \in 1 .. m : t[k] = rows[order[k]][on]
  BY <1>1
<1> HIDE DEF s, t, u, v, rows, keys, on
<1>5. \A k \in DOMAIN u : \E a \in 1 .. m : u[k] = s[a]
  BY <1>2, <1>3, UniqueShape
<1>6. \A k \in DOMAIN v : \E a \in 1 .. m : v[k] = t[a]
  BY <1>2, <1>4, UniqueShape
<1>7. \A k \in DOMAIN u : \E j \in DOMAIN f.row_order : u[k] = KeyOf(rows[j], keys)
  BY <1>1, <1>3, <1>5
<1>8. \A k \in DOMAIN v : \E j \in DOMAIN f.row_order : v[k] = rows[j][on]
  BY <1>1, <1>4, <1>6
<1> QED BY <1>7, <1>8 DEF u, v, rows, keys, on

\* What a pivot is made of.
LEMMA PivotIs ==
  ASSUME NEW f, FrameOK(f), InStep(f), NEW index \in SUBSET DOMAIN f.columns,
         NEW pivot \in DOMAIN f.columns, NEW measure, NEW order \in PivotGroups(f, index, pivot),
         NEW g, g = CreatePivotTable(f, index, pivot, measure, order), g # Refused
  PROVE  LET names == NamesOf(f, index)
             titles == PivotNames(f, pivot, order)
             lines == PivotLines(f, index, order)
         IN  /\ names \in Seq(Texts) /\ titles \in Seq(Texts)
             /\ Range(names) \cap Range(titles) = {} /\ Distinct(titles)
             /\ g.df = names \o titles /\ Range(g.df) = Range(names) \cup Range(titles)
             /\ g.columns = PinnedKeys(f, index) \o PivotHeaders(f, pivot, measure, order)
             /\ DOMAIN g.rows = DOMAIN lines
             /\ \A r \in DOMAIN lines, x \in Range(names) : g.rows[r][x] = lines[r][x]
             /\ \A r \in DOMAIN lines, x \in Range(titles) :
                   g.rows[r][x] = PivotEntry(f, index, pivot, measure, order, r, x)
<1> DEFINE names == NamesOf(f, index)
           titles == PivotNames(f, pivot, order)
           lines == PivotLines(f, index, order)
           h == CreatePivotTable(f, index, pivot, measure, order)
<1>1. /\ Distinct(names \o titles) /\ h.df = names \o titles
      /\ h.columns = PinnedKeys(f, index) \o PivotHeaders(f, pivot, measure, order)
      /\ h.rows = PivotRows(f, index, pivot, measure, order)
  BY PivotParts DEF FromParts, PivotTitles
<1>2. names \in Seq(Texts)
  BY NamesOfShape
<1>3. titles \in Seq(Texts)
  <2>1. Listing(f, order)
    BY PivotGroupsListed
  <2> QED BY <2>1, PivotNamesShape
<1>h. h = g
  OBVIOUS
<1> HIDE DEF names, titles, lines, h
<1>4. Range(names) \cap Range(titles) = {} /\ Distinct(titles)
  BY <1>1, <1>2, <1>3, DistinctJoined
<1>5. Range(names \o titles) = Range(names) \cup Range(titles)
  BY <1>2, <1>3, RangeJoined
<1>6. /\ DOMAIN h.rows = DOMAIN lines
      /\ \A r \in DOMAIN lines, x \in Range(names \o titles) :
            h.rows[r][x] = IF x \in Range(names) THEN lines[r][x]
                           ELSE PivotEntry(f, index, pivot, measure, order, r, x)
  BY <1>1 DEF PivotRows, PivotLine, PivotTitles, names, titles, lines
<1>7. \A x \in Range(titles) : x \notin Range(names)
  BY <1>4
<1>8. /\ \A r \in DOMAIN lines, x \in Range(names) : h.rows[r][x] = lines[r][x]
      /\ \A r \in DOMAIN lines, x \in Range(titles) :
            h.rows[r][x] = PivotEntry(f, index, pivot, measure, order, r, x)
  BY <1>5, <1>6, <1>7
<1> QED BY <1>1, <1>2, <1>3, <1>4, <1>5, <1>6, <1>8, <1>h DEF names, titles, lines

LEMMA PivotKeysAlike ==
  ASSUME NEW f, FrameOK(f), InStep(f), NEW index \in SUBSET DOMAIN f.columns,
         NEW pivot \in DOMAIN f.columns, NEW measure, NEW order \in PivotGroups(f, index, pivot),
         NEW g, g = CreatePivotTable(f, index, pivot, measure, order), g # Refused,
         FrameOK(g), InStep(g), NEW x \in Range(NamesOf(f, index))
  PROVE  HasColumn(g, x) /\ HasColumn(f, x) /\ TypeIn(g, x) = TypeIn(f, x)
<1> DEFINE names == NamesOf(f, index)
           heads == PinnedKeys(f, index)
           tails == PivotHeaders(f, pivot, measure, order)
           m == Cardinality(index)
           c == g.columns
<1>1. c = heads \o tails
  BY PivotIs
<1>2. heads \in Seq(ColumnMeta) /\ Names(heads) = names
      /\ \A k \in DOMAIN heads : heads[k].type = f.columns[Listed(index)[k]].type
  BY PinnedHeaders DEF KeyHeaders
<1>3. /\ DOMAIN names = 1 .. m
      /\ \A k \in 1 .. m : /\ Listed(index)[k] \in DOMAIN f.columns
                           /\ names[k] = f.columns[Listed(index)[k]].name
  BY NamesOfShape
<1>4. PICK k \in DOMAIN names : names[k] = x
  BY InRange
<1> HIDE DEF names, heads, c, m
<1>5. k \in DOMAIN heads /\ heads[k].name = x
  BY <1>2, <1>4 DEF Names
<1>6. k \in DOMAIN c /\ c[k] = heads[k]
  <2> DEFINE T == Range(heads) \cup Range(tails)
  <2>1. DOMAIN heads = 1 .. Len(heads) /\ Len(heads) \in Nat
    BY <1>2
  <2>2. DOMAIN tails = 1 .. Len(tails) /\ Len(tails) \in Nat
    <3>1. Listing(f, order)
      BY PivotGroupsListed
    <3>2. PivotNames(f, pivot, order) \in Seq(Texts)
      BY <3>1, PivotNamesShape
    <3>3. DOMAIN tails = 1 .. Len(PivotNames(f, pivot, order)) /\ Len(PivotNames(f, pivot, order)) \in Nat
      BY <3>2 DEF PivotHeaders
    <3> QED BY <3>3 DEF PivotHeaders
  <2>3. heads \in Seq(T)
    <3>1. heads = [l \in 1 .. Len(heads) |-> heads[l]]
      BY <1>2
    <3>2. \A l \in 1 .. Len(heads) : heads[l] \in T
      BY <2>1, InRange
    <3> HIDE DEF T
    <3> QED BY <2>1, <3>1, <3>2
  <2>4. tails \in Seq(T)
    <3>1. tails = [l \in 1 .. Len(tails) |-> tails[l]]
      BY <2>2 DEF PivotHeaders
    <3> HIDE DEF tails
    <3>2. \A l \in 1 .. Len(tails) : tails[l] \in T
      BY <2>2, InRange
    <3> HIDE DEF T
    <3> QED BY <2>2, <3>1, <3>2
  <2> HIDE DEF T, tails
  <2>5. k \in DOMAIN (heads \o tails) /\ (heads \o tails)[k] = heads[k]
    BY <1>5, <2>3, <2>4, RangeJoined
  <2> QED BY <2>5, <1>1
<1>7. HasColumn(g, x)
  BY <1>5, <1>6 DEF HasColumn, Positions, c
<1>8. ColumnIndex(g, x) = k
  <2>1. ColumnIndex(g, x) \in DOMAIN c /\ c[ColumnIndex(g, x)].name = x
    BY <1>7, MeasureFacts DEF c
  <2>2. \A i, j \in DOMAIN c : c[i].name = c[j].name => i = j
    BY RegularShape DEF c
  <2> QED BY <2>1, <2>2, <1>5, <1>6
<1> DEFINE i == Listed(index)[k]
<1>9. i \in DOMAIN f.columns /\ f.columns[i].name = x
  BY <1>3, <1>4
<1> HIDE DEF i
<1>10. HasColumn(f, x)
  BY <1>9 DEF HasColumn, Positions
<1>11. ColumnIndex(f, x) = i
  BY <1>9, <1>10, MeasureFacts, RegularShape
<1>12. heads[k].type = f.columns[i].type
  BY <1>2, <1>5 DEF i
<1> QED BY <1>6, <1>7, <1>8, <1>10, <1>11, <1>12 DEF TypeIn, c

\* Each cell of a pivot shows the sum over the rows of its line with the text of its title.
LEMMA PivotCellsHold ==
  ASSUME NEW f, FrameOK(f), InStep(f), NEW index \in SUBSET DOMAIN f.columns,
         NEW pivot \in DOMAIN f.columns, NEW order \in PivotGroups(f, index, pivot),
         NEW s, s.frame = CreatePivotTable(f, index, pivot, Measure, order), s.frame # Refused,
         s.keys = NamesOf(f, index), s.on = f.columns[pivot].name, HasColumn(f, s.on),
         NEW r \in DOMAIN s.frame.rows,
         NEW x \in Range(s.frame.df) \ (Range(s.keys) \cup {<<"null">>})
  PROVE  s.frame.rows[r][x] = SumUnder(f, CellRows(s, f, r, x))
<1> DEFINE g == s.frame
           names == NamesOf(f, index)
           keys == Range(names)
           on == f.columns[pivot].name
           type == f.columns[pivot].type
           rows == Visible(f)
           lines == PivotLines(f, index, order)
           values == PivotValues(f, pivot, order)
           titles == PivotNames(f, pivot, order)
           S(v) == {i \in DOMAIN rows : KeyOf(rows[i], keys) = lines[r] /\ rows[i][on] = v}
<1>1. /\ Distinct(titles) /\ Range(g.df) = keys \cup Range(titles)
      /\ DOMAIN g.rows = DOMAIN lines
      /\ \A q \in DOMAIN lines, y \in keys : g.rows[q][y] = lines[q][y]
      /\ \A q \in DOMAIN lines, y \in Range(titles) :
            g.rows[q][y] = PivotEntry(f, index, pivot, Measure, order, q, y)
  BY PivotIs
<1>2. Listing(f, order)
  BY PivotGroupsListed
<1>3. DOMAIN titles = DOMAIN values /\ \A k \in DOMAIN values : titles[k] = PivotName(type, values[k])
  BY DEF PivotNames
<1>4. \A k \in DOMAIN values : \E j \in DOMAIN f.row_order : values[k] = rows[j][on]
  BY <1>2, PivotSources
<1>5. \A q \in DOMAIN lines : \E j \in DOMAIN f.row_order : lines[q] = KeyOf(rows[j], keys)
  BY <1>2, PivotSources
<1>6. DOMAIN rows = DOMAIN f.row_order
  BY VisibleShape
<1>7. \A j \in DOMAIN f.row_order : rows[j][on] \in Values(type)
  BY CellTypes
<1>8. type \in Types
  BY RegularShape
<1>9. \A q, y, k : y = titles[k] /\ k \in DOMAIN titles
         => PivotEntry(f, index, pivot, Measure, order, q, y)
            = PivotCell(rows, keys, on, Measure, lines[q], values[k])
  <2> SUFFICES ASSUME NEW q, NEW y, NEW k \in DOMAIN titles, y = titles[k]
               PROVE  PivotEntry(f, index, pivot, Measure, order, q, y)
                      = PivotCell(rows, keys, on, Measure, lines[q], values[k])
    OBVIOUS
  <2>1. PivotEntry(f, index, pivot, Measure, order, q, y)
        = PivotCell(rows, keys, on, Measure, lines[q], values[CHOOSE l \in DOMAIN titles : titles[l] = y])
    BY DEF PivotEntry
  <2> HIDE DEF titles, values, rows, keys, lines, on
  <2>2. (CHOOSE l \in DOMAIN titles : titles[l] = y) = k
    BY <1>1 DEF Distinct
  <2> QED BY <2>1, <2>2
<1>10. r \in DOMAIN lines /\ x \in Range(titles) /\ x # <<"null">>
  BY <1>1
<1>11. PICK k \in DOMAIN titles : titles[k] = x
  BY <1>10, InRange
<1>12. g.rows[r][x] = PivotCell(rows, keys, on, Measure, lines[r], values[k])
  BY <1>1, <1>9, <1>10, <1>11
<1> DEFINE v == values[k]
<1>13. PivotCell(rows, keys, on, Measure, lines[r], v)
       = IF S(v) = {} THEN Null ELSE SumOver(rows, S(v), Measure)
  BY DEF PivotCell
<1>14. PICK i \in DOMAIN f.row_order : lines[r] = KeyOf(rows[i], keys)
  BY <1>5, <1>10
<1>15. TypeIn(f, s.on) = type
  <2>1. ColumnIndex(f, s.on) \in DOMAIN f.columns /\ f.columns[ColumnIndex(f, s.on)].name = s.on
    BY MeasureFacts
  <2>2. ColumnIndex(f, s.on) = pivot
    BY <2>1, RegularShape
  <2> QED BY <2>2 DEF TypeIn
<1>16. v # Null /\ x = Cast(type, v) /\ v \in Values(type)
  <2>1. x = PivotName(type, v)
    BY <1>3, <1>11
  <2>2. v # Null
    BY <2>1, <1>10 DEF PivotName
  <2>3. x = Cast(type, v)
    BY <2>1, <2>2 DEF PivotName
  <2>4. PICK j \in DOMAIN f.row_order : v = rows[j][on]
    BY <1>3, <1>4, <1>11
  <2> QED BY <2>2, <2>3, <2>4, <1>7
<1>17. CellRows(s, f, r, x)
       = {j \in DOMAIN f.row_order : /\ \A y \in keys : rows[j][y] = g.rows[r][y]
                                     /\ rows[j][on] # Null /\ Cast(type, rows[j][on]) = x}
  BY <1>15 DEF CellRows, RowsUnder
<1>18. \A y \in keys : g.rows[r][y] = rows[i][y]
  <2> TAKE y \in keys
  <2>1. g.rows[r][y] = lines[r][y]
    BY <1>1, <1>10
  <2>2. lines[r][y] = KeyOf(rows[i], keys)[y]
    BY <1>14
  <2> HIDE DEF keys, rows, lines
  <2>3. KeyOf(rows[i], keys)[y] = rows[i][y]
    BY DEF KeyOf
  <2> QED BY <2>1, <2>2, <2>3
<1> HIDE DEF g, keys, names, lines, values, titles, on, type, rows, v
<1>19. \A j \in DOMAIN f.row_order :
          (KeyOf(rows[j], keys) = lines[r] /\ rows[j][on] = v)
          <=> (/\ \A y \in keys : rows[j][y] = g.rows[r][y]
               /\ rows[j][on] # Null /\ Cast(type, rows[j][on]) = x)
  <2> TAKE j \in DOMAIN f.row_order
  <2>1. KeyOf(rows[j], keys) = lines[r] <=> \A y \in keys : rows[j][y] = rows[i][y]
    BY <1>14, SameKeys
  <2>2. (\A y \in keys : rows[j][y] = rows[i][y]) <=> (\A y \in keys : rows[j][y] = g.rows[r][y])
    BY <1>18
  <2> DEFINE z == rows[j][on]
  <2>3. z \in Values(type)
    BY <1>7
  <2> HIDE DEF z
  <2>4. z = v <=> z # Null /\ Cast(type, z) = x
    BY <2>3, <1>8, <1>16, CastInjective
  <2> QED BY <2>1, <2>2, <2>4 DEF z
<1>20. S(v) = CellRows(s, f, r, x)
  BY <1>6, <1>17, <1>19
<1> HIDE DEF S
<1>21. g.rows[r][x] = SumUnder(f, CellRows(s, f, r, x))
  BY <1>12, <1>13, <1>20 DEF SumUnder, v, rows
<1> QED BY <1>21 DEF g

LEMMA PivotSummarises ==
  ASSUME NEW f, FrameOK(f), InStep(f), NEW index \in SUBSET DOMAIN f.columns, index # {},
         NEW pivot \in DOMAIN f.columns, HasColumn(f, Measure),
         Numeric(f, ColumnIndex(f, Measure)), NEW order \in PivotGroups(f, index, pivot),
         NEW s, s.frame = CreatePivotTable(f, index, pivot, Measure, order), s.frame # Refused,
         s.made = "pivot", s.keys = NamesOf(f, index), s.on = f.columns[pivot].name
  PROVE  Summarises(s, f)
<1>1. FrameOK(s.frame) /\ InStep(s.frame)
  BY PivotKeeps
<1>2. CellsTotal(s.frame, Range(s.keys)) = Total(Visible(f), Measure)
  BY PivotAddsUp
<1>3. KeysAlike(s, f)
  BY <1>1, PivotKeysAlike DEF KeysAlike
<1>4. HasColumn(f, s.on)
  BY DEF HasColumn, Positions
<1>5. TypeIn(f, Measure) # "text"
  BY DEF TypeIn, Numeric
<1>6. \A r \in DOMAIN s.frame.rows, x \in Range(s.frame.df) \ (Range(s.keys) \cup {<<"null">>}) :
         s.frame.rows[r][x] = SumUnder(f, CellRows(s, f, r, x))
  BY <1>4, PivotCellsHold
<1>7. CellsHold(s, f)
  BY <1>3, <1>4, <1>5, <1>6 DEF CellsHold
<1> QED BY <1>2, <1>7 DEF Summarises, AddsUp

LEMMA PivotChains ==
  ASSUME SInv, InStep(frame), NEW c \in Cols, ApplyPivotTable(c)
  PROVE  Chained(stack')
<1> DEFINE u == frame
           S == Pinned(u)
           sheet(f) == [type |-> "pivot", keys |-> NamesOf(u, S),
                        on |-> u.columns[c].name, frame |-> f, made |-> "pivot"]
<1>1. PICK order \in PivotGroups(u, S, c) :
        LET f == CreatePivotTable(u, S, c, Measure, order)
        IN  IF f = Refused THEN UNCHANGED stack ELSE Push(sheet(f))
  BY DEF ApplyPivotTable
<1> DEFINE f == CreatePivotTable(u, S, c, Measure, order)
           s == sheet(f)
<1>2. (f = Refused /\ UNCHANGED stack) \/ (f # Refused /\ Push(s))
  BY <1>1
<1>3. S # {} /\ HasColumn(u, Measure) /\ Numeric(u, ColumnIndex(u, Measure))
      /\ c \in DOMAIN u.columns
  BY DEF ApplyPivotTable, Cols
<1>4. S \in SUBSET DOMAIN u.columns
  BY DEF Pinned
<1>5. FrameOK(u) /\ InStep(u)
  BY TopFacts DEF SInv
<1>6. UNCHANGED stack => Chained(stack')
  BY DEF SInv
<1> HIDE DEF u, S
<1>7. s.frame = f /\ s.made = "pivot" /\ s.keys = NamesOf(u, S) /\ s.on = u.columns[c].name
  OBVIOUS
<1>8. f = CreatePivotTable(u, S, c, Measure, order) /\ order \in PivotGroups(u, S, c)
  OBVIOUS
<1> HIDE DEF f, s
<1>9. f # Refused => Summarises(s, u)
  <2> SUFFICES ASSUME f # Refused PROVE Summarises(s, u)
    OBVIOUS
  <2> QED BY <1>3, <1>4, <1>5, <1>7, <1>8, PivotSummarises
<1> QED BY <1>2, <1>6, <1>9, ChainPushed DEF u

LEMMA SInvInductive == SInv /\ [Next]_vars => SInv'
<1> SUFFICES ASSUME SInv, [Next]_vars PROVE SInv'
  OBVIOUS
<1>1. AInv'
  BY AInvInductive DEF SInv
<1>2. ASSUME Next PROVE Chained(stack')
  <2>1. CASE Pop
    BY <2>1, ChainPopped
  <2>2. CASE ~Pop
    <3>1. InStep(frame)
      BY <1>2, <2>2, StepInStep
    <3>2. CASE \/ \E c \in Cols, desc \in BOOLEAN : SortCursorColumn(c, desc)
               \/ ResetSort
               \/ \E k \in Lines : ToggleSelected(k)
               \/ DeleteSelected
               \/ \E c \in Cols : TogglePin(c)
      BY <3>1, <3>2, InPlaceChains
    <3>3. CASE \/ \E c \in Cols, name \in NewNames : ApplyRenameColumn(c, name)
               \/ \E c \in Cols : DeleteColumn(c)
               \/ \E c \in Cols, name \in NewNames : ApplyInsertColumn(c, name)
               \/ \E c \in Cols : MoveColumn(c)
               \/ \E w \in WindowsOf(frame, Functions) : AddWindow(w)
               \/ TransposeWhole
      BY <3>3, ColumnsChain
    <3>4. CASE (\E c \in Cols : OpenFrequencyTable(c)) \/ OpenMultiFrequencyTable
      BY <3>1, <3>4, FrequencyChains
    <3>5. CASE OpenGroupBy
      BY <3>1, <3>5, GroupChains
    <3>6. CASE \E c \in Cols : ApplyPivotTable(c)
      BY <3>1, <3>6, PivotChains
    <3>7. CASE \/ \E k \in Lines : DrillDownFrequency(k)
               \/ \E k \in Lines, c \in Cols : DrillDownPivot(k, c)
               \/ \E k \in Lines : OpenRow(k)
               \/ \E c \in Cols : \E label \in Bars(frame, c) : ChartDrillDown(c, label)
      BY <3>7, DrillsChain
    <3> QED BY <1>2, <2>2, <3>2, <3>3, <3>4, <3>5, <3>6, <3>7 DEF Next
  <2> QED BY <2>1, <2>2
<1>3. Chained(stack)'
  <2>1. CASE Next
    BY <2>1, <1>2 DEF Chained
  <2>2. CASE UNCHANGED vars
    BY <2>2 DEF SInv, Chained, vars
  <2> QED BY <2>1, <2>2
<1> QED BY <1>1, <1>3 DEF SInv

LEMMA SInvStarts == Init => SInv
<1> SUFFICES ASSUME Init PROVE SInv
  OBVIOUS
<1>1. AInv
  BY InitOK
<1>2. PICK f \in Tables : stack = <<Derived("loaded", f)>>
  BY DEF Init
<1>3. Len(stack) = 1 /\ stack[1].made = "loaded"
  BY <1>2 DEF Derived
<1>4. "loaded" \notin SummaryMakes
  BY DEF SummaryMakes
<1>5. Chained(stack)
  BY <1>3, <1>4 DEF Chained
<1> QED BY <1>1, <1>5 DEF SInv

LEMMA SummariesHold == Spec => []SInv
BY SInvStarts, SInvInductive, PTL DEF Spec

\* What a summary adds up to is what the rows under it add up to, for every table, every
\* set of keys and however sheets are stacked, sorted and cut: no row is dropped or
\* counted twice on the way through the groups of data/dataframe.rs and data/group.rs.
THEOREM SummariesAddUpAlways == Spec => []SummariesAddUp
<1>1. SInv => SummariesAddUp
  <2> SUFFICES ASSUME SInv, NEW i \in DOMAIN stack \ {1}
               PROVE  AddsUp(stack[i], stack[i - 1].frame)
    BY DEF SummariesAddUp, AddsUp
  <2>1. StackOK(stack)
    BY DEF SInv, AInv
  <2>2. DOMAIN stack = 1 .. Len(stack) /\ Len(stack) \in Nat
    BY <2>1, StackSeq
  <2>3. i \in 2 .. Len(stack)
    BY <2>2
  <2> QED BY <2>3 DEF SInv, Chained, Summarises
<1> QED BY <1>1, SummariesHold, PTL

-----------------------------------------------------------------------------
(* The way back from a line to its rows.                                   *)

\* The rows with the cast of a value are those with the value.
LEMMA ValueFound ==
  ASSUME NEW u, FrameOK(u), InStep(u), NEW x, HasColumn(u, x), NEW v \in Values(TypeIn(u, x)), v # Null
  PROVE  FindRowsByValue(u, ColumnIndex(u, x), Cast(TypeIn(u, x), v))
         = {j \in DOMAIN u.row_order : Visible(u)[j][x] = v}
<1> DEFINE i == ColumnIndex(u, x)
           type == TypeIn(u, x)
           rows == Visible(u)
<1>1. i \in DOMAIN u.columns /\ u.columns[i].name = x /\ u.columns[i].type = type
  BY MeasureFacts DEF TypeIn
<1>2. type \in Types
  BY <1>1, RegularShape
<1>3. \A j \in DOMAIN u.row_order : rows[j][x] \in Values(type) /\ GetVal(u, j, i) = rows[j][x]
  BY <1>1, CellTypes
<1>4. \A j \in DOMAIN u.row_order : CastAt(u, j, i) = Cast(type, rows[j][x])
  BY <1>1, <1>3 DEF CastAt
<1> HIDE DEF i, type, rows
<1>5. \A j \in DOMAIN u.row_order :
         (GetVal(u, j, i) # Null /\ CastAt(u, j, i) = Cast(type, v)) <=> rows[j][x] = v
  <2> TAKE j \in DOMAIN u.row_order
  <2> DEFINE w == rows[j][x]
  <2>1. w \in Values(type) /\ GetVal(u, j, i) = w /\ CastAt(u, j, i) = Cast(type, w)
    BY <1>3, <1>4
  <2>2. v \in Values(type)
    BY DEF type
  <2> HIDE DEF w
  <2>3. w # Null /\ Cast(type, w) = Cast(type, v) => w = v
    BY <2>1, <2>2, <1>2, CastInjective
  <2> QED BY <2>1, <2>3 DEF w
<1> QED BY <1>5 DEF FindRowsByValue, i, type, rows

\* The texts of the keys of a line, as a sheet shows them.
LineTexts(s, k) ==
    [i \in DOMAIN s.keys |-> TextAt(s.frame, k, ColumnIndex(s.frame, s.keys[i]))]

\* A sheet over the table it summarises.
Over(s, u) ==
    /\ FrameOK(s.frame) /\ InStep(s.frame) /\ FrameOK(u) /\ InStep(u)
    /\ s.keys \in Seq(Texts) /\ KeysAlike(s, u)

LEMMA KeyFound ==
  ASSUME NEW s, NEW u, Over(s, u), NEW k \in DOMAIN s.frame.row_order,
         LineFindable(s, s.frame.row_order[k]), NEW i \in DOMAIN s.keys
  PROVE  FindRowsByValue(u, ColumnIndex(u, s.keys[i]), LineTexts(s, k)[i])
         = {j \in DOMAIN u.row_order :
               Visible(u)[j][s.keys[i]] = s.frame.rows[s.frame.row_order[k]][s.keys[i]]}
<1> DEFINE g == s.frame
           x == s.keys[i]
           r == g.row_order[k]
           v == g.rows[r][x]
           c == ColumnIndex(g, x)
<1>1. FrameOK(g) /\ InStep(g) /\ FrameOK(u) /\ InStep(u) /\ s.keys \in Seq(Texts)
  BY DEF Over
<1>2. x \in Range(s.keys)
  BY InRange
<1>3. HasColumn(g, x) /\ HasColumn(u, x) /\ TypeIn(g, x) = TypeIn(u, x)
  BY <1>2 DEF Over, KeysAlike
<1>4. v # Null
  BY <1>2 DEF LineFindable, LineHeld
<1>c. Cast(TypeIn(g, x), v) = Text(TypeIn(g, x), v)
  BY <1>2 DEF LineFindable
<1>5. LineTexts(s, k)[i] = TextAt(g, k, c)
  BY DEF LineTexts
<1>k. k \in DOMAIN g.row_order
  OBVIOUS
<1> HIDE DEF g, x, r, v
<1>6. c \in DOMAIN g.columns /\ g.columns[c].name = x /\ g.columns[c].type = TypeIn(g, x)
  BY <1>1, <1>3, MeasureFacts DEF TypeIn
<1> HIDE DEF c
<1>7. Visible(g)[k] = g.rows[r]
  BY <1>1, <1>k, VisibleShape DEF r
<1>8. v \in Values(TypeIn(g, x)) /\ GetVal(g, k, c) = v
  <2>1. Visible(g)[k][x] \in Values(TypeIn(g, x)) /\ GetVal(g, k, c) = Visible(g)[k][x]
    BY <1>1, <1>6, <1>k, CellTypes
  <2> QED BY <2>1, <1>7 DEF v
<1>9. TextAt(g, k, c) = Cast(TypeIn(u, x), v)
  BY <1>3, <1>6, <1>8, <1>c DEF TextAt
<1>10. v \in Values(TypeIn(u, x))
  BY <1>3, <1>8
<1>11. FindRowsByValue(u, ColumnIndex(u, x), Cast(TypeIn(u, x), v))
       = {j \in DOMAIN u.row_order : Visible(u)[j][x] = v}
  BY <1>1, <1>3, <1>4, <1>10, ValueFound
<1> QED BY <1>5, <1>9, <1>11 DEF g, x, r, v

LEMMA LineMatches ==
  ASSUME NEW s, NEW u, Over(s, u), NEW k \in DOMAIN s.frame.row_order,
         LineFindable(s, s.frame.row_order[k])
  PROVE  Matching(u, s.keys, LineTexts(s, k)) = RowsUnder(s, u, s.frame.row_order[k])
<1> DEFINE r == s.frame.row_order[k]
           keys == s.keys
           texts == LineTexts(s, k)
<1>1. \A j \in DOMAIN u.row_order, i \in DOMAIN keys :
         j \in FindRowsByValue(u, ColumnIndex(u, keys[i]), texts[i])
         <=> Visible(u)[j][keys[i]] = s.frame.rows[r][keys[i]]
  BY KeyFound
<1>2. Matching(u, keys, texts)
      = {j \in DOMAIN u.row_order :
           \A i \in DOMAIN keys : j \in FindRowsByValue(u, ColumnIndex(u, keys[i]), texts[i])}
  BY DEF Matching
<1>3. RowsUnder(s, u, r)
      = {j \in DOMAIN u.row_order : \A x \in Range(keys) : Visible(u)[j][x] = s.frame.rows[r][x]}
  BY DEF RowsUnder
<1> HIDE DEF r, keys, texts
<1>4. \A j \in DOMAIN u.row_order :
         (\A x \in Range(keys) : Visible(u)[j][x] = s.frame.rows[r][x])
         <=> (\A i \in DOMAIN keys : Visible(u)[j][keys[i]] = s.frame.rows[r][keys[i]])
  BY DEF Range
<1>5. Matching(u, keys, texts) = RowsUnder(s, u, r)
  BY <1>1, <1>2, <1>3, <1>4
<1> QED BY <1>5 DEF r, keys, texts

\* One condition more.
LEMMA MatchingMore ==
  ASSUME NEW u, NEW names \in Seq(Texts), NEW texts,
         texts = [i \in DOMAIN names |-> texts[i]], NEW x, NEW y
  PROVE  Matching(u, Append(names, x), Append(texts, y))
         = Matching(u, names, texts) \cap FindRowsByValue(u, ColumnIndex(u, x), y)
<1> DEFINE n == Len(names)
           a == Append(names, x)
           b == Append(texts, y)
           found(i) == FindRowsByValue(u, ColumnIndex(u, names[i]), texts[i])
           last == FindRowsByValue(u, ColumnIndex(u, x), y)
<1>1. n \in Nat /\ DOMAIN names = 1 .. n
  OBVIOUS
<1>2. DOMAIN a = 1 .. n + 1 /\ a[n + 1] = x /\ \A i \in 1 .. n : a[i] = names[i]
  <2> DEFINE T == Texts \cup {x}
  <2>1. Texts \subseteq T /\ x \in T
    OBVIOUS
  <2> HIDE DEF T
  <2>2. names \in Seq(T)
    BY <2>1
  <2> QED BY <2>1, <2>2
<1>3. b[n + 1] = y /\ \A i \in 1 .. n : b[i] = texts[i]
  <2> DEFINE T == {texts[i] : i \in 1 .. n} \cup {y}
  <2>1. y \in T /\ \A i \in 1 .. n : texts[i] \in T
    OBVIOUS
  <2> HIDE DEF T
  <2>2. texts \in Seq(T) /\ Len(texts) = n
    BY <1>1, <2>1
  <2> QED BY <2>1, <2>2
<1>4. Matching(u, a, b) = {j \in DOMAIN u.row_order :
         \A i \in DOMAIN a : j \in FindRowsByValue(u, ColumnIndex(u, a[i]), b[i])}
  BY DEF Matching
<1>5. Matching(u, names, texts) = {j \in DOMAIN u.row_order : \A i \in DOMAIN names : j \in found(i)}
  BY DEF Matching
<1> HIDE DEF a, b, n
<1>6. ASSUME NEW j
      PROVE  (\A i \in DOMAIN a : j \in FindRowsByValue(u, ColumnIndex(u, a[i]), b[i]))
             <=> (\A i \in DOMAIN names : j \in found(i)) /\ j \in last
  <2>1. \A i \in 1 .. n : FindRowsByValue(u, ColumnIndex(u, a[i]), b[i]) = found(i)
    BY <1>2, <1>3
  <2>2. FindRowsByValue(u, ColumnIndex(u, a[n + 1]), b[n + 1]) = last
    BY <1>2, <1>3
  <2>3. \A i \in DOMAIN a : i \in 1 .. n \/ i = n + 1
    BY <1>1, <1>2
  <2>4. n + 1 \in DOMAIN a /\ \A i \in 1 .. n : i \in DOMAIN a
    BY <1>1, <1>2
  <2> HIDE DEF found, last
  <2> QED BY <1>1, <2>1, <2>2, <2>3, <2>4
<1> HIDE DEF found, last
<1>7. \A j : j \in Matching(u, a, b) <=> j \in Matching(u, names, texts) /\ j \in last
  BY <1>4, <1>5, <1>6 DEF FindRowsByValue, last
<1> QED BY <1>7 DEF a, b, last

LEMMA CellMatches ==
  ASSUME NEW s, NEW u, Over(s, u), HasColumn(u, s.on), NEW k \in DOMAIN s.frame.row_order,
         LineFindable(s, s.frame.row_order[k]), NEW x
  PROVE  Matching(u, Append(s.keys, s.on), Append(LineTexts(s, k), x))
         = CellRows(s, u, s.frame.row_order[k], x)
<1> DEFINE r == s.frame.row_order[k]
           keys == s.keys
           texts == LineTexts(s, k)
           i == ColumnIndex(u, s.on)
           last == FindRowsByValue(u, i, x)
<1>1. keys \in Seq(Texts) /\ FrameOK(u) /\ InStep(u)
  BY DEF Over
<1>2. texts = [l \in DOMAIN keys |-> texts[l]]
  BY DEF LineTexts
<1>3. Matching(u, keys, texts) = RowsUnder(s, u, r)
  BY LineMatches
<1>4. i \in DOMAIN u.columns /\ u.columns[i].name = s.on /\ u.columns[i].type = TypeIn(u, s.on)
  BY <1>1, MeasureFacts DEF TypeIn
<1>5. last = {j \in DOMAIN u.row_order : GetVal(u, j, i) # Null /\ CastAt(u, j, i) = x}
  BY DEF FindRowsByValue
<1> HIDE DEF i
<1>6. \A j \in DOMAIN u.row_order : /\ GetVal(u, j, i) = Visible(u)[j][s.on]
                                    /\ CastAt(u, j, i) = Cast(TypeIn(u, s.on), Visible(u)[j][s.on])
  BY <1>1, <1>4, CellTypes DEF CastAt
<1>7. CellRows(s, u, r, x)
      = {j \in RowsUnder(s, u, r) :
           Visible(u)[j][s.on] # Null /\ Cast(TypeIn(u, s.on), Visible(u)[j][s.on]) = x}
  BY DEF CellRows
<1>8. RowsUnder(s, u, r) \subseteq DOMAIN u.row_order
  BY DEF RowsUnder
<1> HIDE DEF last, r, keys, texts
<1>9. CellRows(s, u, r, x) = RowsUnder(s, u, r) \cap last
  BY <1>5, <1>6, <1>7, <1>8
<1>10. Matching(u, Append(keys, s.on), Append(texts, x)) = Matching(u, keys, texts) \cap last
  BY <1>1, <1>2, MatchingMore DEF last, i
<1> QED BY <1>3, <1>9, <1>10 DEF r, keys, texts

\* What LinesFindTheirRows says of a sheet over another.
LEMMA SheetFindsItsRows ==
  ASSUME NEW s, NEW u, Over(s, u), Summarises(s, u), s.made \in {"frequency", "pivot"},
         NEW k \in DOMAIN s.frame.row_order, LineFindable(s, s.frame.row_order[k])
  PROVE  /\ s.made = "frequency" =>
              Cardinality(Matching(u, s.keys, LineTexts(s, k)))
              = s.frame.rows[s.frame.row_order[k]][Count]
         /\ s.made = "pivot" =>
              \A c \in {d \in DOMAIN s.frame.columns :
                          s.frame.columns[d].name \notin Range(s.keys) \cup {<<"null">>}} :
                 s.frame.rows[s.frame.row_order[k]][s.frame.columns[c].name]
                 = SumUnder(u, Matching(u, Append(s.keys, s.on),
                                        Append(LineTexts(s, k), s.frame.columns[c].name)))
<1> DEFINE r == s.frame.row_order[k]
<1>1. FrameOK(s.frame) /\ InStep(s.frame)
  BY DEF Over
<1>2. r \in DOMAIN s.frame.rows
  BY <1>1, VisibleShape
<1>3. ASSUME s.made = "frequency"
      PROVE  Cardinality(Matching(u, s.keys, LineTexts(s, k))) = s.frame.rows[r][Count]
  <2>1. CountsHold(s, u)
    BY <1>1, <1>3 DEF Summarises
  <2>2. s.frame.rows[r][Count] = Cardinality(RowsUnder(s, u, r))
    BY <1>2, <2>1 DEF CountsHold, LineFindable
  <2> QED BY <2>2, LineMatches
<1>4. ASSUME s.made = "pivot", NEW c \in DOMAIN s.frame.columns,
             s.frame.columns[c].name \notin Range(s.keys) \cup {<<"null">>}
      PROVE  s.frame.rows[r][s.frame.columns[c].name]
             = SumUnder(u, Matching(u, Append(s.keys, s.on),
                                    Append(LineTexts(s, k), s.frame.columns[c].name)))
  <2> DEFINE x == s.frame.columns[c].name
  <2>1. CellsHold(s, u)
    BY <1>4 DEF Summarises
  <2>2. x \in Range(s.frame.df) \ (Range(s.keys) \cup {<<"null">>})
    BY <1>1, <1>4, RegularShape
  <2> HIDE DEF x
  <2>3. s.frame.rows[r][x] = SumUnder(u, CellRows(s, u, r, x)) /\ HasColumn(u, s.on)
    BY <1>2, <2>1, <2>2 DEF CellsHold, LineFindable
  <2>4. Matching(u, Append(s.keys, s.on), Append(LineTexts(s, k), x)) = CellRows(s, u, r, x)
    BY <2>3, CellMatches
  <2> QED BY <2>3, <2>4 DEF x
<1> QED BY <1>3, <1>4

LEMMA TopOverUnder ==
  ASSUME SInv, Regular, Top.made \in {"frequency", "pivot"}
  PROVE  Over(Top, Under) /\ Summarises(Top, Under) /\ Len(stack) > 1
<1> DEFINE n == Len(stack)
<1>1. /\ SheetOK(Top) /\ FrameOK(frame) /\ Top = stack[n] /\ n \in Nat /\ n > 0
      /\ n > 1 => FrameOK(Under) /\ InStep(Under)
  BY TopFacts DEF SInv
<1>2. n # 1
  <2> SUFFICES ASSUME n = 1 PROVE FALSE
    OBVIOUS
  <2>1. Top.made \notin SummaryMakes
    BY <1>1 DEF SInv, Chained
  <2> QED BY <2>1 DEF SummaryMakes
<1>n. n \in Nat /\ n > 0
  BY <1>1
<1> HIDE DEF n
<1>3. n \in 2 .. n /\ n > 1
  BY <1>n, <1>2
<1>4. Summarises(Top, Under)
  <2>1. Summarises(stack[n], stack[n - 1].frame)
    BY <1>3 DEF SInv, Chained, n
  <2> QED BY <2>1, <1>1 DEF Under, n
<1>5. KeysAlike(Top, Under)
  <2>1. InStep(Top.frame)
    BY DEF Regular, frame
  <2>2. CountsHold(Top, Under) \/ CellsHold(Top, Under)
    BY <1>4, <2>1 DEF Summarises
  <2> QED BY <2>2 DEF CountsHold, CellsHold
<1>6. Top.keys \in Seq(Texts)
  BY <1>1 DEF SheetOK
<1> QED BY <1>1, <1>3, <1>4, <1>5, <1>6 DEF Over, Regular, frame, n

LEMMA FindableLine ==
  ASSUME Regular, NEW k \in Lines, KeysFindable(k)
  PROVE  k \in DOMAIN Top.frame.row_order /\ LineFindable(Top, Top.frame.row_order[k])
BY DEF Lines, KeysFindable, KeysHeld, LineFindable, LineHeld, TypeIn, frame

\* Whatever the tables hold and however deep the stack, a line of a summary whose keys the
\* program spells as Polars does leads back by their texts to as many rows as it counted,
\* or to rows with the sum in the cell: Enter on a line looks its texts up (app/mod.rs),
\* which is right only because the types of the keys are those of the table under it and
\* no two values of a type are cast alike.
THEOREM LinesFindTheirRowsAlways == Spec => []LinesFindTheirRows
<1>1. SInv => LinesFindTheirRows
  <2> SUFFICES ASSUME SInv, NEW k \in Lines, Regular, Top.made \in {"frequency", "pivot"}, KeysFindable(k)
               PROVE  FindsItsRows(k)
    BY DEF LinesFindTheirRows
  <2> DEFINE s == Top
             u == Under
  <2>1. Over(s, u) /\ Summarises(s, u) /\ s.made \in {"frequency", "pivot"}
    BY TopOverUnder
  <2>2. k \in DOMAIN s.frame.row_order /\ LineFindable(s, s.frame.row_order[k])
    BY FindableLine
  <2>3. KeyTexts(k) = LineTexts(s, k)
    BY DEF KeyTexts, LineTexts, frame
  <2>4. PivotColumns = {d \in DOMAIN s.frame.columns :
                          s.frame.columns[d].name \notin Range(s.keys) \cup {<<"null">>}}
    BY DEF PivotColumns, Cols, frame
  <2>5. frame = s.frame
    BY DEF frame
  <2> HIDE DEF s, u
  <2>6. /\ s.made = "frequency" =>
              Cardinality(Matching(u, s.keys, LineTexts(s, k)))
              = s.frame.rows[s.frame.row_order[k]][Count]
        /\ s.made = "pivot" =>
              \A c \in {d \in DOMAIN s.frame.columns :
                          s.frame.columns[d].name \notin Range(s.keys) \cup {<<"null">>}} :
                 s.frame.rows[s.frame.row_order[k]][s.frame.columns[c].name]
                 = SumUnder(u, Matching(u, Append(s.keys, s.on),
                                        Append(LineTexts(s, k), s.frame.columns[c].name)))
    BY <2>1, <2>2, SheetFindsItsRows
  <2>7. s.made = "frequency" => LineFound(k)
    BY <2>3, <2>5, <2>6 DEF LineFound, s, u
  <2>8. s.made = "pivot" => \A c \in PivotColumns : CellFound(k, frame.columns[c].name)
    BY <2>3, <2>4, <2>5, <2>6 DEF CellFound, SumUnder, s, u
  <2> QED BY <2>1, <2>7, <2>8 DEF FindsItsRows, s
<1> QED BY <1>1, SummariesHold, PTL

\* A copy of a table narrowed to some of its rows shows those, in the order they had.
LEMMA NarrowedRows ==
  ASSUME NEW u, FrameOK(u), NEW shown, shown \subseteq DOMAIN u.row_order
  PROVE  LET m == Cardinality(shown)
             p == Listed(shown)
         IN  /\ m \in Nat /\ DOMAIN Visible(Narrowed(u, shown)) = 1 .. m
             /\ \A k \in 1 .. m : /\ p[k] \in shown
                                  /\ Visible(Narrowed(u, shown))[k] = Visible(u)[p[k]]
             /\ Len(Visible(Narrowed(u, shown))) = m
             /\ InOrderOf(Narrowed(u, shown), u)
<1> DEFINE m == Cardinality(shown)
           p == Listed(shown)
           n == Len(u.row_order)
           o == NarrowedOrder(u, shown)
           g == Narrowed(u, shown)
           v == Visible(g)
<1>1. n \in Nat /\ DOMAIN u.row_order = 1 .. n /\ \A k \in DOMAIN u.row_order : Visible(u)[k] = u.rows[u.row_order[k]]
  BY VisibleShape
<1>2. shown \in SUBSET (1 .. n)
  BY <1>1
<1>3. /\ m \in Nat
      /\ \A k \in 1 .. m : p[k] \in shown
      /\ \A a, b \in 1 .. m : a < b => p[a] < p[b]
  <2> HIDE DEF n
  <2> QED BY <1>1, <1>2, ListedFacts
<1>4. g = Framed(u.columns, u.df, u.rows, o, o, u.selected_rows, u.transposed)
  BY ExceptLists DEF Narrowed, NarrowedOrder
<1>5. g.rows = u.rows /\ g.row_order = o
  BY <1>4 DEF Framed
<1> HIDE DEF g
<1>6. o = [k \in 1 .. m |-> u.row_order[p[k]]]
  BY DEF NarrowedOrder
<1> HIDE DEF o, p, m
<1>7. DOMAIN o = 1 .. m /\ \A k \in 1 .. m : o[k] = u.row_order[p[k]]
  BY <1>6
<1>8. v = [k \in 1 .. m |-> u.rows[o[k]]]
  BY <1>5, <1>7 DEF Visible
<1>9. DOMAIN v = 1 .. m /\ \A k \in 1 .. m : v[k] = Visible(u)[p[k]]
  <2>1. DOMAIN v = 1 .. m /\ \A k \in 1 .. m : v[k] = u.rows[u.row_order[p[k]]]
    BY <1>7, <1>8
  <2> HIDE DEF v
  <2>2. \A k \in 1 .. m : p[k] \in DOMAIN u.row_order
    BY <1>3
  <2> QED BY <1>1, <2>1, <2>2
<1>10. Len(v) = m
  <2>1. v = [k \in 1 .. m |-> v[k]]
    BY <1>8
  <2> HIDE DEF v
  <2> QED BY <1>3, <1>9, <2>1, ListFromTo
<1>11. InOrderOf(g, u)
  <2> SUFFICES ASSUME NEW i \in 1 .. m, NEW j \in 1 .. m, i < j
               PROVE  \E a, b \in DOMAIN u.row_order :
                         a < b /\ u.row_order[a] = g.row_order[i] /\ u.row_order[b] = g.row_order[j]
    BY <1>5, <1>7 DEF InOrderOf
  <2>1. p[i] \in DOMAIN u.row_order /\ p[j] \in DOMAIN u.row_order /\ p[i] < p[j]
    BY <1>3
  <2>2. u.row_order[p[i]] = g.row_order[i] /\ u.row_order[p[j]] = g.row_order[j]
    BY <1>5, <1>7
  <2> QED BY <2>1, <2>2
<1> HIDE DEF v
<1> QED BY <1>3, <1>9, <1>10, <1>11 DEF m, p, v, g

\* So what its rows add up to is what those rows add up to under it.
LEMMA NarrowedSum ==
  ASSUME NEW u, FrameOK(u), NEW shown, shown \subseteq DOMAIN u.row_order, NEW name,
         \A k \in DOMAIN u.row_order : Visible(u)[k][name] \in Int \cup {Null}
  PROVE  SumOver(Visible(Narrowed(u, shown)), DOMAIN Visible(Narrowed(u, shown)), name)
         = SumOver(Visible(u), shown, name)
<1> DEFINE m == Cardinality(shown)
           p == Listed(shown)
           n == Len(u.row_order)
           rows == Visible(u)
           v == Visible(Narrowed(u, shown))
           all == DOMAIN rows
           w == Addends(rows, all, name)
           q == [k \in 1 .. m |-> p[k]]
<1>1. n \in Nat /\ DOMAIN u.row_order = 1 .. n /\ DOMAIN rows = 1 .. n
  BY VisibleShape
<1>2. m \in Nat /\ DOMAIN v = 1 .. m /\ \A k \in 1 .. m : p[k] \in shown /\ v[k] = rows[p[k]]
  BY NarrowedRows
<1>3. shown \in SUBSET (1 .. n)
  BY <1>1
<1>4. /\ \A a, b \in 1 .. m : p[a] = p[b] => a = b
      /\ \A t \in shown : \E a \in 1 .. m : p[a] = t
  <2> HIDE DEF n
  <2> QED BY <1>1, <1>3, ListedFacts
<1>5. w \in [1 .. n -> Int] /\ \A j \in 1 .. n : w[j] = IF rows[j][name] # Null THEN rows[j][name] ELSE 0
  <2>1. \A k \in 1 .. n : rows[k][name] \in Int \cup {Null}
    BY <1>1
  <2> HIDE DEF rows, n
  <2>2. w = [j \in 1 .. n |-> IF rows[j][name] # Null THEN rows[j][name] ELSE 0]
    BY <1>1 DEF Addends
  <2> HIDE DEF w
  <2> QED BY <2>1, <2>2
<1> HIDE DEF n, rows, v, p, m, w
<1>6. q \in [1 .. m -> 1 .. n] /\ (\A k \in 1 .. m : q[k] = p[k])
      /\ (\A a, b \in 1 .. m : q[a] = q[b] => a = b)
  BY <1>2, <1>3, <1>4
<1> HIDE DEF q
<1>7. SumOf([k \in 1 .. m |-> w[q[k]]])
      = SumOf([i \in 1 .. n |-> IF \E k \in 1 .. m : q[k] = i THEN w[i] ELSE 0])
  BY <1>1, <1>2, <1>5, <1>6, SumListed
<1>8. \A i \in 1 .. n : (\E k \in 1 .. m : q[k] = i) <=> i \in shown
  BY <1>2, <1>4, <1>6
<1>9. SumOver(v, DOMAIN v, name) = SumOf([k \in 1 .. m |-> w[q[k]]])
  <2>1. SumOver(v, DOMAIN v, name)
        = SumOf([k \in 1 .. m |-> IF k \in 1 .. m /\ v[k][name] # Null THEN v[k][name] ELSE 0])
    BY <1>2 DEF SumOver
  <2>2. \A k \in 1 .. m : w[q[k]] = IF v[k][name] # Null THEN v[k][name] ELSE 0
    BY <1>2, <1>5, <1>6
  <2>3. [k \in 1 .. m |-> IF k \in 1 .. m /\ v[k][name] # Null THEN v[k][name] ELSE 0]
        = [k \in 1 .. m |-> w[q[k]]]
    BY <2>2
  <2> QED BY <2>1, <2>3
<1>10. SumOver(rows, shown, name)
       = SumOf([i \in 1 .. n |-> IF \E k \in 1 .. m : q[k] = i THEN w[i] ELSE 0])
  <2>1. SumOver(rows, shown, name)
        = SumOf([i \in 1 .. n |-> IF i \in shown /\ rows[i][name] # Null THEN rows[i][name] ELSE 0])
    BY <1>1 DEF SumOver
  <2>2. [i \in 1 .. n |-> IF i \in shown /\ rows[i][name] # Null THEN rows[i][name] ELSE 0]
        = [i \in 1 .. n |-> IF \E k \in 1 .. m : q[k] = i THEN w[i] ELSE 0]
    BY <1>5, <1>8
  <2> QED BY <2>1, <2>2
<1>11. SumOver(v, DOMAIN v, name) = SumOver(rows, shown, name)
  BY <1>7, <1>9, <1>10
<1> QED BY <1>11 DEF v, rows

\* What opening the rows a line leads to shows.
LEMMA DrilledShows ==
  ASSUME NEW names, NEW texts, DrillInto(names, texts), ~UNCHANGED stack,
         \E T : stack \in Seq(T)
  PROVE  /\ Last(stack').frame = Narrowed(Under, Matching(Under, names, texts))
         /\ Matching(Under, names, texts) # {}
         /\ Matching(Under, names, texts) \subseteq DOMAIN Under.row_order
<1> DEFINE shown == Matching(Under, names, texts)
           s == Derived("drilled", Narrowed(Under, shown))
<1>1. shown # {} /\ Push(s)
  BY DEF DrillInto
<1>2. s.frame = Narrowed(Under, shown)
  BY DEF Derived
<1>3. shown \subseteq DOMAIN Under.row_order
  BY DEF Matching
<1> HIDE DEF s, shown
<1>4. stack' = Append(stack, s)
  BY <1>1 DEF Push
<1>5. Last(stack') = s
  <2>1. PICK T : stack \in Seq(T)
    OBVIOUS
  <2> DEFINE U == T \cup {s}
  <2>2. stack \in Seq(U) /\ s \in U
    <3>1. T \subseteq U /\ s \in U
      OBVIOUS
    <3> HIDE DEF U
    <3> QED BY <2>1, <3>1
  <2> HIDE DEF U
  <2>3. Len(stack') = Len(stack) + 1 /\ stack'[Len(stack) + 1] = s
    BY <1>4, <2>2
  <2> QED BY <2>3 DEF Last
<1> QED BY <1>1, <1>2, <1>3, <1>5 DEF shown

\* The keys of a table of counts are the columns before Count.
LEMMA CountsByTheseKeys ==
  ASSUME SInv, Regular, Top.made = "frequency", NEW k \in Lines
  PROVE  /\ [i \in FrequencyKeys |-> frame.columns[i].name] = Top.keys
         /\ [i \in FrequencyKeys |-> TextAt(frame, k, i)] = LineTexts(Top, k)
<1> DEFINE s == Top
           g == frame
           keys == s.keys
           n == Len(keys)
<1>1. Over(s, Under) /\ Summarises(s, Under)
  BY TopOverUnder
<1>2. g = s.frame /\ InStep(g)
  BY DEF frame, Regular
<1> HIDE DEF s, g
<1>3. FrameOK(g) /\ keys \in Seq(Texts)
  BY <1>1, <1>2 DEF Over
<1>4. KeysLead(s)
  BY <1>1, <1>2 DEF Summarises, CountsHold, s
<1>5. /\ n + 1 \in DOMAIN g.columns /\ g.columns[n + 1].name = Count
      /\ \A i \in DOMAIN keys : i \in DOMAIN g.columns /\ g.columns[i].name = keys[i]
  BY <1>2, <1>4 DEF KeysLead
<1>6. n \in Nat /\ DOMAIN keys = 1 .. n /\ keys = [i \in 1 .. n |-> keys[i]]
  BY <1>3
<1>7. \A i, j \in DOMAIN g.columns : g.columns[i].name = g.columns[j].name => i = j
  BY <1>2, <1>3, RegularShape
<1>8. HasColumn(g, Count)
  BY <1>5 DEF HasColumn, Positions
<1>9. ColumnIndex(g, Count) = n + 1
  BY <1>2, <1>3, <1>5, <1>7, <1>8, MeasureFacts
<1> HIDE DEF n, keys
<1>10. FrequencyKeys = 1 .. n
  <2>1. ColumnIndex(frame, Count) - 1 = n /\ HasColumn(frame, Count)
    BY <1>6, <1>8, <1>9 DEF g
  <2> QED BY <2>1 DEF FrequencyKeys
<1>11. \A i \in 1 .. n : ColumnIndex(g, keys[i]) = i
  <2> TAKE i \in 1 .. n
  <2>1. i \in DOMAIN g.columns /\ g.columns[i].name = keys[i]
    BY <1>5, <1>6
  <2>2. HasColumn(g, keys[i])
    BY <2>1 DEF HasColumn, Positions
  <2> QED BY <1>2, <1>3, <1>7, <2>1, <2>2, MeasureFacts
<1>12. [i \in FrequencyKeys |-> frame.columns[i].name] = keys
  BY <1>5, <1>6, <1>10 DEF g
<1>13. LineTexts(s, k) = [i \in 1 .. n |-> TextAt(g, k, ColumnIndex(g, keys[i]))]
  BY <1>2, <1>6 DEF LineTexts, keys
<1>14. [i \in FrequencyKeys |-> TextAt(frame, k, i)] = LineTexts(s, k)
  BY <1>10, <1>11, <1>13 DEF g
<1> QED BY <1>12, <1>14 DEF s, keys

LEMMA DrillShowsCount ==
  ASSUME SInv, Len(stack') > Len(stack), Top.made = "frequency", NEW k \in Lines,
         DrillDownFrequency(k), KeysFindable(k)
  PROVE  ShowsLine(k)
<1> DEFINE s == Top
           u == Under
           names == [i \in FrequencyKeys |-> frame.columns[i].name]
           texts == [i \in FrequencyKeys |-> TextAt(frame, k, i)]
           shown == Matching(u, names, texts)
<1>1. Regular /\ DrillInto(names, texts)
  BY DEF DrillDownFrequency, Command, Running
<1>2. Over(s, u) /\ Summarises(s, u) /\ FrameOK(u)
  BY <1>1, TopOverUnder DEF Over
<1>3. names = s.keys /\ texts = LineTexts(s, k)
  BY <1>1, CountsByTheseKeys
<1>4. \E T : stack \in Seq(T)
  BY StackSeq DEF SInv, AInv
<1>n. Len(stack) \in Nat
  BY TopFacts DEF SInv
<1>5. ~UNCHANGED stack
  BY <1>n
<1>6. k \in DOMAIN s.frame.row_order /\ LineFindable(s, s.frame.row_order[k])
  BY <1>1, FindableLine
<1>7. s.made = "frequency" /\ s.made \in {"frequency", "pivot"} /\ frame = s.frame
  BY DEF frame
<1> HIDE DEF s, names, texts, u
<1>8. /\ Last(stack').frame = Narrowed(u, shown) /\ shown # {}
      /\ shown \subseteq DOMAIN u.row_order
  BY <1>1, <1>2, <1>4, <1>5, DrilledShows DEF u
<1>9. Cardinality(shown) = s.frame.rows[s.frame.row_order[k]][Count]
  BY <1>2, <1>3, <1>6, <1>7, SheetFindsItsRows
<1> HIDE DEF shown
<1>10. /\ Len(Visible(Narrowed(u, shown))) = Cardinality(shown)
       /\ InOrderOf(Narrowed(u, shown), u)
  BY <1>2, <1>8, NarrowedRows
<1> QED BY <1>7, <1>8, <1>9, <1>10 DEF ShowsLine, DrilledRows, u

LEMMA LastJoined ==
  ASSUME NEW T, NEW a \in Seq(T), NEW x \in T
  PROVE  a \o <<x>> = Append(a, x)
OBVIOUS

\* The names and the texts that Enter on a cell of a pivot looks for.
LEMMA CellLooksFor ==
  ASSUME SInv, Regular, Top.made = "pivot", NEW k \in Lines, NEW c \in PivotColumns,
         DrillDownPivot(k, c)
  PROVE  DrillInto(Append(Top.keys, Top.on), Append(LineTexts(Top, k), frame.columns[c].name))
<1> DEFINE s == Top
           index == s.keys
           held == Retain(index, Range(Names(frame.columns)))
           x == frame.columns[c].name
           onIndex == x \in Range(index)
           names == IF onIndex THEN index ELSE Append(index, s.on)
           front == [i \in DOMAIN held |-> TextAt(frame, k, ColumnIndex(frame, held[i]))]
           texts == front \o (IF onIndex THEN <<>> ELSE <<x>>)
           found == \A i \in DOMAIN names : HasColumn(Under, names[i])
           reached == Matching(Under, SubSeq(names, 1, Len(texts)), texts) # {} \/ Len(texts) < 2
<1>1. IF found /\ Len(texts) < Len(names)
      THEN panicked' = reached /\ UNCHANGED stack
      ELSE DrillInto(names, texts) /\ UNCHANGED panicked
  BY DEF DrillDownPivot
<1>2. ~onIndex
  BY DEF PivotColumns
<1>3. Over(s, Under) /\ frame = s.frame
  BY TopOverUnder DEF frame
<1>4. index \in Seq(Texts) /\ KeysAlike(s, Under) /\ FrameOK(frame) /\ InStep(frame)
  BY <1>3 DEF Over
<1>5. s.on \in Texts
  <2>1. SheetOK(s)
    BY TopFacts DEF SInv
  <2> QED BY <2>1 DEF SheetOK
<1>6. names = Append(index, s.on) /\ texts = front \o <<x>>
  BY <1>2
<1> HIDE DEF names, texts, found, reached, onIndex
<1>7. held = index
  <2>1. Range(index) \subseteq Range(Names(frame.columns))
    <3> SUFFICES ASSUME NEW y \in Range(index) PROVE y \in Range(Names(frame.columns))
      OBVIOUS
    <3>1. HasColumn(frame, y)
      BY <1>3, <1>4 DEF KeysAlike
    <3>2. PICK i \in DOMAIN frame.columns : frame.columns[i].name = y
      BY <3>1 DEF HasColumn, Positions
    <3>3. i \in DOMAIN Names(frame.columns) /\ Names(frame.columns)[i] = y
      BY <3>2 DEF Names
    <3> QED BY <3>3, InRange
  <2> QED BY <1>4, <2>1, RetainAll
<1>8. front = LineTexts(s, k)
  BY <1>3, <1>7 DEF LineTexts
<1> HIDE DEF front, held, x, index, s
<1>9. texts = Append(front, x) /\ Len(texts) = Len(names)
  <2>1. front = [i \in DOMAIN index |-> front[i]]
    BY <1>7 DEF front
  <2> DEFINE n == Len(index)
             T == {front[i] : i \in 1 .. n} \cup {x}
  <2>2. x \in T /\ (\A i \in 1 .. n : front[i] \in T) /\ n \in Nat /\ DOMAIN index = 1 .. n
    BY <1>4
  <2> HIDE DEF T, n
  <2>3. front \in Seq(T) /\ Len(front) = n
    BY <2>1, <2>2
  <2>4. texts = Append(front, x)
    BY <1>6, <2>2, <2>3, LastJoined
  <2>5. Len(Append(front, x)) = n + 1
    BY <2>2, <2>3
  <2>6. Len(names) = n + 1
    BY <1>4, <1>5, <1>6 DEF n
  <2> QED BY <2>4, <2>5, <2>6
<1>10. ~(Len(texts) < Len(names))
  <2>1. Len(names) \in Nat
    BY <1>4, <1>5, <1>6
  <2> QED BY <1>9, <2>1
<1>11. DrillInto(names, texts)
  BY <1>1, <1>10
<1> QED BY <1>6, <1>8, <1>9, <1>11 DEF s, index, x

LEMMA DrillShowsSum ==
  ASSUME SInv, Len(stack') > Len(stack), Top.made = "pivot", NEW k \in Lines, KeysFindable(k),
         NEW c \in PivotColumns, DrillDownPivot(k, c)
  PROVE  ShowsCell(k, c)
<1> DEFINE s == Top
           u == Under
           x == frame.columns[c].name
           names == Append(s.keys, s.on)
           texts == Append(LineTexts(s, k), x)
           shown == Matching(u, names, texts)
<1>1. Regular
  BY DEF DrillDownPivot
<1>2. Over(s, u) /\ Summarises(s, u) /\ FrameOK(u) /\ InStep(u)
  BY <1>1, TopOverUnder DEF Over
<1>3. DrillInto(names, texts)
  BY <1>1, CellLooksFor
<1>4. \E T : stack \in Seq(T)
  BY StackSeq DEF SInv, AInv
<1>n. Len(stack) \in Nat
  BY TopFacts DEF SInv
<1>5. ~UNCHANGED stack
  BY <1>n
<1>6. k \in DOMAIN s.frame.row_order /\ LineFindable(s, s.frame.row_order[k])
  BY <1>1, FindableLine
<1>7. s.made = "pivot" /\ s.made \in {"frequency", "pivot"} /\ frame = s.frame
  BY DEF frame
<1>8. c \in {d \in DOMAIN s.frame.columns :
               s.frame.columns[d].name \notin Range(s.keys) \cup {<<"null">>}}
  BY <1>7 DEF PivotColumns, Cols
<1>9. x = s.frame.columns[c].name
  BY <1>7
<1> HIDE DEF s, u, x
<1>10. HasColumn(u, Measure) /\ TypeIn(u, Measure) # "text"
  BY <1>2, <1>7 DEF Summarises, CellsHold
<1>11. s.frame.rows[s.frame.row_order[k]][x] = SumUnder(u, shown)
  BY <1>2, <1>6, <1>7, <1>8, <1>9, SheetFindsItsRows
<1> HIDE DEF names, texts
<1>12. /\ Last(stack').frame = Narrowed(u, shown) /\ shown # {}
       /\ shown \subseteq DOMAIN u.row_order
  BY <1>2, <1>3, <1>4, <1>5, DrilledShows DEF u
<1> HIDE DEF shown
<1>13. \A j \in DOMAIN u.row_order : Visible(u)[j][Measure] \in Int \cup {Null}
  <2> DEFINE i == ColumnIndex(u, Measure)
  <2>1. i \in DOMAIN u.columns /\ u.columns[i].name = Measure
    BY <1>2, <1>10, MeasureFacts
  <2>2. Numeric(u, i)
    BY <1>10 DEF Numeric, TypeIn
  <2> HIDE DEF i
  <2>3. \A j \in DOMAIN u.row_order : Visible(u)[j][u.columns[i].name] \in Int \cup {Null}
    BY <1>2, <2>1, <2>2, NumberColumn
  <2> QED BY <2>1, <2>3
<1>14. /\ SumOver(Visible(Narrowed(u, shown)), DOMAIN Visible(Narrowed(u, shown)), Measure)
          = SumOver(Visible(u), shown, Measure)
       /\ InOrderOf(Narrowed(u, shown), u)
  BY <1>2, <1>12, <1>13, NarrowedRows, NarrowedSum
<1>15. SumUnder(u, shown) = SumOver(Visible(u), shown, Measure)
  BY <1>12 DEF SumUnder
<1> QED BY <1>7, <1>11, <1>12, <1>14, <1>15 DEF ShowsCell, DrilledRows, u, x

\* An Enter that opens a sheet, on a line whose keys the program spells as Polars does,
\* shows the rows the line stands for, all of them and no others, in the order they have
\* under it: as many as it counted, or adding up to what the cell shows.
THEOREM DrillShowsItsLineAlways == Spec => DrillShowsItsLine
<1> DEFINE A == Last(stack').made = "drilled" /\ Len(stack') > Len(stack) =>
                  \A k \in Lines :
                    CASE Top.made = "frequency" -> DrillDownFrequency(k) /\ KeysFindable(k) => ShowsLine(k)
                      [] Top.made = "pivot" ->
                            KeysFindable(k) => \A c \in PivotColumns : DrillDownPivot(k, c) => ShowsCell(k, c)
                      [] OTHER -> TRUE
<1>1. SInv => A
  <2> SUFFICES ASSUME SInv, Len(stack') > Len(stack), NEW k \in Lines
               PROVE  CASE Top.made = "frequency" -> DrillDownFrequency(k) /\ KeysFindable(k) => ShowsLine(k)
                        [] Top.made = "pivot" ->
                              KeysFindable(k) => \A c \in PivotColumns : DrillDownPivot(k, c) => ShowsCell(k, c)
                        [] OTHER -> TRUE
    OBVIOUS
  <2>1. Top.made = "frequency" => (DrillDownFrequency(k) /\ KeysFindable(k) => ShowsLine(k))
    BY DrillShowsCount
  <2>2. Top.made = "pivot" =>
          (KeysFindable(k) => \A c \in PivotColumns : DrillDownPivot(k, c) => ShowsCell(k, c))
    BY DrillShowsSum
  <2>3. CASE Top.made = "frequency"
    BY <2>1, <2>3
  <2>4. CASE Top.made = "pivot"
    BY <2>2, <2>4
  <2>5. CASE Top.made # "frequency" /\ Top.made # "pivot"
    BY <2>5
  <2> QED BY <2>3, <2>4, <2>5
<1> HIDE DEF A
<1>2. SInv => [A]_vars
  BY <1>1
<1>3. Spec => [][A]_vars
  BY <1>2, SummariesHold, PTL
<1> QED BY <1>3 DEF A, DrillShowsItsLine
=============================================================================
