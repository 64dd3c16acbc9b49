-------------------------- MODULE SheetEdit_proofs --------------------------
(***************************************************************************)
(* However long and deep the history, whatever the table: every frame on   *)
(* screen or remembered by undo and redo is well formed, marks only rows   *)
(* on screen and accounts for every key; the two stacks never hold more    *)
(* than MaxUndo together and with the frame shown make one line of states; *)
(* sorts and deduplication do what their markers and keys say.             *)
(***************************************************************************)
EXTENDS SheetEdit, Orders_proofs

-----------------------------------------------------------------------------
(* A sound frame is well formed and has no mark on a row that is not there. *)
(* In terms of lists without repetitions:                                  *)

Sound(f) == WellFormed(f) /\ f.selected \subseteq Visible(f)

LEMMA SoundParts ==
  ASSUME NEW f
  PROVE  Sound(f) <=>
            /\ f \in Frame
            /\ Len(f.ids) = Len(f.rows)
            /\ DupFree(f.rowOrder) /\ DupFree(f.originalOrder)
            /\ Range(f.rowOrder) = Range(f.originalOrder)
            /\ Range(f.rowOrder) \subseteq Physical(f)
            /\ f.selected \subseteq Range(f.rowOrder)
<1>1. \A order : (\A i \in DOMAIN order : order[i] \in Physical(f))
                    <=> Range(order) \subseteq Physical(f)
  BY InRange
<1> QED BY <1>1 DEF Sound, WellFormed, OrderOK, DupFree, Visible

LEMMA FrameParts ==
  ASSUME NEW f \in Frame
  PROVE  /\ f.rows \in Seq(Row) /\ Len(f.rows) \in Nat
         /\ f.rowOrder \in Seq(Nat) /\ f.originalOrder \in Seq(Nat)
         /\ f.selected \in SUBSET Nat /\ f.ids \in Seq(Nat)
         /\ f.deleted \in SUBSET Nat
         /\ f.agg \in {NoFooter} \cup SUBSET (Nat \X Row)
BY DEF Frame

LEMMA SelectSound ==
  ASSUME NEW f, Sound(f), NEW S \in SUBSET Visible(f)
  PROVE  Sound([f EXCEPT !.selected = S])
<1> DEFINE g == [f EXCEPT !.selected = S]
<1>1. f \in Frame /\ S \subseteq Range(f.rowOrder) /\ S \in SUBSET Nat
  <2>1. f \in Frame /\ Range(f.rowOrder) \subseteq Physical(f)
    BY SoundParts
  <2>2. Physical(f) \subseteq Nat
    BY <2>1, FrameParts DEF Physical
  <2> QED BY <2>1, <2>2 DEF Visible
<1>2. /\ g \in Frame /\ g.selected = S
      /\ g.rows = f.rows /\ g.ids = f.ids
      /\ g.rowOrder = f.rowOrder /\ g.originalOrder = f.originalOrder
  BY <1>1 DEF Frame
<1> HIDE DEF g
<1>3. Sound(g)
  BY <1>1, <1>2, SoundParts DEF Physical
<1> QED BY <1>3 DEF g

LEMMA SetCellsSound ==
  ASSUME NEW f, Sound(f), NEW ps, NEW col \in Columns,
         NEW value \in Values \cup {Null}
  PROVE  Sound(SetCells(f, ps, col, value))
<1> DEFINE rows == [p \in DOMAIN f.rows |->
                       IF p \in ps THEN [f.rows[p] EXCEPT ![col] = value]
                       ELSE f.rows[p]]
           g == SetCells(f, ps, col, value)
<1>1. f \in Frame /\ f.rows \in Seq(Row)
  BY SoundParts, FrameParts
<1>2. \A p \in DOMAIN f.rows : f.rows[p] \in Row
  BY <1>1
<1>3. \A p \in DOMAIN f.rows : rows[p] \in Row
  BY <1>2 DEF Row
<1>4. rows \in Seq(Row) /\ Len(rows) = Len(f.rows)
  <2> DEFINE n == Len(f.rows)
  <2>1. DOMAIN f.rows = 1 .. n /\ n \in Nat
    BY <1>1
  <2>2. rows \in [1 .. n -> Row]
    BY <1>3, <2>1
  <2> HIDE DEF rows, n
  <2>3. rows \in Seq(Row) /\ Len(rows) = n
    BY <2>1, <2>2
  <2> QED BY <2>3 DEF n
<1>5. g = [f EXCEPT !.rows = rows, !.agg = NoFooter]
  BY DEF SetCells
<1> HIDE DEF rows, g
<1>6. /\ g \in Frame
      /\ g.rows = rows /\ g.ids = f.ids /\ g.selected = f.selected
      /\ g.rowOrder = f.rowOrder /\ g.originalOrder = f.originalOrder
  BY <1>1, <1>4, <1>5 DEF Frame
<1>7. Sound(g)
  BY <1>4, <1>6, SoundParts DEF Physical
<1> QED BY <1>7 DEF g

LEMMA ComputeAggregatesSound ==
  ASSUME NEW f, Sound(f)
  PROVE  Sound(ComputeAggregates(f))
<1> DEFINE g == [f EXCEPT !.agg = Footer(f)]
<1>1. /\ f \in Frame /\ f.rows \in Seq(Row)
      /\ Range(f.rowOrder) \subseteq Physical(f)
  BY SoundParts, FrameParts
<1>2. \A p \in Visible(f) : p \in Nat /\ f.rows[p] \in Row
  BY <1>1 DEF Visible, Physical
<1>3. Footer(f) \in SUBSET (Nat \X Row)
  BY <1>2 DEF Footer
<1>4. /\ g \in Frame /\ g.selected = f.selected
      /\ g.rows = f.rows /\ g.ids = f.ids
      /\ g.rowOrder = f.rowOrder /\ g.originalOrder = f.originalOrder
  BY <1>1, <1>3 DEF Frame
<1> HIDE DEF g
<1>5. Sound(g)
  BY <1>4, SoundParts DEF Physical
<1> QED BY <1>5 DEF ComputeAggregates, g

LEMMA ResetOrderSound ==
  ASSUME NEW f, Sound(f)
  PROVE  Sound(ResetOrder(f))
<1> DEFINE g == ResetOrder(f)
<1>1. f \in Frame
  BY SoundParts
<1>2. /\ g \in Frame /\ g.selected = f.selected
      /\ g.rows = f.rows /\ g.ids = f.ids
      /\ g.rowOrder = f.originalOrder /\ g.originalOrder = f.originalOrder
  BY <1>1 DEF Frame, ResetOrder
<1> HIDE DEF g
<1>3. Sound(g)
  BY <1>2, SoundParts DEF Physical
<1> QED BY <1>3 DEF g

-----------------------------------------------------------------------------
(* Rows coming in.                                                         *)

LEMMA AppendRowsSound ==
  ASSUME NEW f, Sound(f), NEW block \in Seq(Row)
  PROVE  Sound(AppendRows(f, block))
<1> DEFINE n == Len(f.rows)
           b == Len(block)
           new == [k \in 1 .. b |-> n + k]
           keys == [k \in 1 .. b |-> NoKey]
           g == AppendRows(f, block)
<1>1. /\ f \in Frame /\ f.rows \in Seq(Row) /\ n \in Nat /\ b \in Nat
      /\ f.rowOrder \in Seq(Nat) /\ f.originalOrder \in Seq(Nat)
      /\ f.ids \in Seq(Nat) /\ Len(f.ids) = n
      /\ DupFree(f.rowOrder) /\ DupFree(f.originalOrder)
      /\ Range(f.rowOrder) = Range(f.originalOrder)
      /\ Range(f.rowOrder) \subseteq 1 .. n
  BY SoundParts, FrameParts DEF Physical
<1>2. g = [f EXCEPT !.rows = f.rows \o block,
                    !.rowOrder = f.rowOrder \o new,
                    !.originalOrder = f.originalOrder \o new,
                    !.ids = f.ids \o keys]
  BY DEF AppendRows
<1>3. /\ new \in Seq(Nat) /\ Len(new) = b
      /\ keys \in Seq(Nat) /\ Len(keys) = b
      /\ \A k \in 1 .. b : new[k] = n + k
  <2> HIDE DEF n, b
  <2> QED BY <1>1 DEF NoKey
<1> HIDE DEF new, keys, g, n, b
<1>4. ASSUME NEW s \in Seq(Nat), DupFree(s), Range(s) \subseteq 1 .. n
      PROVE  /\ s \o new \in Seq(Nat)
             /\ DupFree(s \o new)
             /\ Range(s \o new) = Range(s) \cup n + 1 .. n + b
  <2>1. n \in Nat /\ b \in Nat /\ s \in Seq(Nat) /\ new \in Seq(Nat)
    BY <1>1, <1>3
  <2>2. Len(new) = b /\ \A k \in 1 .. b : new[k] = n + k
    BY <1>3
  <2> QED BY <1>4, <2>1, <2>2, AppendedProperties, Zenon
<1>5. f.rows \o block \in Seq(Row) /\ Len(f.rows \o block) = n + b
  BY <1>1 DEF n, b
<1>6. f.ids \o keys \in Seq(Nat) /\ Len(f.ids \o keys) = n + b
  BY <1>1, <1>3, ConcatProperties
<1>7. /\ g \in Frame /\ g.selected = f.selected
      /\ g.rows = f.rows \o block /\ g.ids = f.ids \o keys
      /\ g.rowOrder = f.rowOrder \o new
      /\ g.originalOrder = f.originalOrder \o new
  BY <1>1, <1>2, <1>4, <1>5, <1>6 DEF Frame
<1>8. /\ DupFree(g.rowOrder) /\ DupFree(g.originalOrder)
      /\ Range(f.rowOrder) \subseteq Range(g.rowOrder)
      /\ Range(g.rowOrder) = Range(g.originalOrder)
      /\ Range(g.rowOrder) \subseteq 1 .. n + b
  <2>1. \A x \in 1 .. n : x \in 1 .. n + b
    BY <1>1
  <2>2. \A x \in n + 1 .. n + b : x \in 1 .. n + b
    BY <1>1
  <2> QED BY <1>1, <1>4, <1>7, <2>1, <2>2
<1>9. g.selected \subseteq Range(g.rowOrder)
  BY <1>7, <1>8, SoundParts
<1>10. Sound(g)
  BY <1>9, <1>5, <1>6, <1>7, <1>8, SoundParts DEF Physical
<1> QED BY <1>10 DEF g

LEMMA InsertRowsTypedSound ==
  ASSUME NEW f, Sound(f), NEW block \in Seq(Row)
  PROVE  Sound(InsertRowsTyped(f, block))
<1> DEFINE h == AppendRows(f, block)
           g == [h EXCEPT !.agg = NoFooter]
<1>1. Sound(h)
  BY AppendRowsSound
<1>2. g = InsertRowsTyped(f, block)
  BY DEF InsertRowsTyped
<1> HIDE DEF h
<1>3. h \in Frame
  BY <1>1, SoundParts
<1>4. /\ g \in Frame /\ g.selected = h.selected
      /\ g.rows = h.rows /\ g.ids = h.ids
      /\ g.rowOrder = h.rowOrder /\ g.originalOrder = h.originalOrder
  BY <1>3 DEF Frame
<1> HIDE DEF g
<1>5. Sound(g)
  BY <1>1, <1>4, SoundParts DEF Physical
<1> QED BY <1>2, <1>5

LEMMA InsertEmptyRowSound ==
  ASSUME NEW f, Sound(f), NEW at \in Nat \ {0}
  PROVE  Sound(InsertEmptyRow(f, at))
<1> DEFINE n == Len(f.rows)
           here == IF at > Len(f.rowOrder) + 1 THEN Len(f.rowOrder) + 1 ELSE at
           origAt ==
              IF here = 1 THEN 1
              ELSE (CHOOSE i \in DOMAIN f.originalOrder :
                        f.originalOrder[i] = f.rowOrder[here - 1]) + 1
           o1 == Insert(f.rowOrder, here, n + 1)
           o2 == Insert(f.originalOrder, origAt, n + 1)
           rows == Append(f.rows, EmptyRow)
           ids == Append(f.ids, NoKey)
           g == InsertEmptyRow(f, at)
<1>1. /\ f \in Frame /\ f.rows \in Seq(Row) /\ n \in Nat
      /\ f.rowOrder \in Seq(Nat) /\ f.originalOrder \in Seq(Nat)
      /\ f.ids \in Seq(Nat) /\ Len(f.ids) = n
      /\ DupFree(f.rowOrder) /\ DupFree(f.originalOrder)
      /\ Range(f.rowOrder) = Range(f.originalOrder)
      /\ Range(f.rowOrder) \subseteq 1 .. n
  BY SoundParts, FrameParts DEF Physical
<1>2. g = [f EXCEPT !.rows = rows, !.rowOrder = o1, !.originalOrder = o2,
                    !.ids = ids, !.agg = NoFooter]
  BY DEF InsertEmptyRow
<1>3. here \in 1 .. Len(f.rowOrder) + 1
  BY <1>1
<1>4. origAt \in 1 .. Len(f.originalOrder) + 1
  <2>1. CASE here = 1
    BY <2>1, <1>1
  <2>2. CASE here # 1
    <3> HIDE DEF here
    <3>1. here - 1 \in DOMAIN f.rowOrder
      BY <1>1, <1>3, <2>2
    <3>2. f.rowOrder[here - 1] \in Range(f.originalOrder)
      BY <1>1, <3>1, InRange
    <3>3. PICK i \in DOMAIN f.originalOrder :
             f.originalOrder[i] = f.rowOrder[here - 1]
      BY <3>2, InRange
    <3> DEFINE c == CHOOSE j \in DOMAIN f.originalOrder :
                       f.originalOrder[j] = f.rowOrder[here - 1]
    <3>4. c \in DOMAIN f.originalOrder
      BY <3>3
    <3>5. origAt = c + 1
      BY <2>2
    <3> HIDE DEF c, origAt
    <3> QED BY <1>1, <3>4, <3>5
  <2> QED BY <2>1, <2>2
<1>5. n + 1 \notin Range(f.rowOrder) /\ n + 1 \notin Range(f.originalOrder)
  BY <1>1
<1>6. rows \in Seq(Row) /\ Len(rows) = n + 1 /\ ids \in Seq(Nat) /\ Len(ids) = n + 1
  <2>1. EmptyRow \in Row
    BY DEF EmptyRow, Row
  <2> QED BY <1>1, <2>1, AppendProperties DEF NoKey
<1> HIDE DEF n, here, origAt, rows, ids, g
<1>7. /\ o1 \in Seq(Nat) /\ DupFree(o1) /\ Range(o1) = Range(f.rowOrder) \cup {n + 1}
      /\ o2 \in Seq(Nat) /\ DupFree(o2)
      /\ Range(o2) = Range(f.originalOrder) \cup {n + 1}
  <2>1. n + 1 \in Nat
    BY <1>1
  <2>2. o1 \in Seq(Nat) /\ DupFree(o1) /\ Range(o1) = Range(f.rowOrder) \cup {n + 1}
    <3>1. f.rowOrder \in Seq(Nat) /\ DupFree(f.rowOrder) /\ n + 1 \notin Range(f.rowOrder)
      BY <1>1, <1>5
    <3> QED BY <1>3, <2>1, <3>1, InsertProperties
  <2>3. /\ o2 \in Seq(Nat) /\ DupFree(o2)
        /\ Range(o2) = Range(f.originalOrder) \cup {n + 1}
    <3>1. /\ f.originalOrder \in Seq(Nat) /\ DupFree(f.originalOrder)
          /\ n + 1 \notin Range(f.originalOrder)
      BY <1>1, <1>5
    <3> QED BY <1>4, <2>1, <3>1, InsertProperties
  <2> QED BY <2>2, <2>3
<1> HIDE DEF o1, o2
<1>8. /\ g \in Frame /\ g.selected = f.selected /\ g.rows = rows /\ g.ids = ids
      /\ g.rowOrder = o1 /\ g.originalOrder = o2
  BY <1>1, <1>2, <1>6, <1>7 DEF Frame
<1>9. /\ Range(g.rowOrder) \subseteq 1 .. n + 1
      /\ Range(g.rowOrder) = Range(g.originalOrder)
      /\ g.selected \subseteq Range(g.rowOrder)
  <2>1. \A x \in 1 .. n : x \in 1 .. n + 1
    BY <1>1
  <2>2. n + 1 \in 1 .. n + 1
    BY <1>1
  <2>3. f.selected \subseteq Range(f.rowOrder)
    BY SoundParts
  <2> QED BY <1>1, <1>7, <1>8, <2>1, <2>2, <2>3
<1>10. Sound(g)
  BY <1>6, <1>7, <1>8, <1>9, SoundParts DEF Physical
<1> QED BY <1>10 DEF g

-----------------------------------------------------------------------------
(* Rows going out.                                                         *)

LEMMA KeysOfIsSetOfKeys ==
  ASSUME NEW f, Sound(f), NEW ps \in SUBSET Physical(f)
  PROVE  KeysOf(f, ps) \in SUBSET Nat
<1>1. /\ f.ids \in Seq(Nat) /\ f.rows \in Seq(Row) /\ Len(f.rows) \in Nat
      /\ Len(f.ids) = Len(f.rows)
  BY SoundParts, FrameParts
<1>2. \A p \in ps : f.ids[p] \in Nat
  BY <1>1 DEF Physical
<1> QED BY <1>2 DEF KeysOf

LEMMA DeleteSelectedSound ==
  ASSUME NEW f, Sound(f)
  PROVE  Sound(DeleteSelected(f))
<1> DEFINE o1 == Retain(f.rowOrder, Visible(f) \ f.selected)
           o2 == Retain(f.originalOrder, Range(f.originalOrder) \ f.selected)
           deleted == f.deleted \cup KeysOf(f, f.selected)
           g == DeleteSelected(f)
<1>1. /\ f \in Frame
      /\ f.rowOrder \in Seq(Nat) /\ f.originalOrder \in Seq(Nat)
      /\ f.deleted \in SUBSET Nat
      /\ DupFree(f.rowOrder) /\ DupFree(f.originalOrder)
      /\ Range(f.rowOrder) = Range(f.originalOrder)
      /\ Range(f.rowOrder) \subseteq Physical(f)
      /\ Len(f.ids) = Len(f.rows)
      /\ f.selected \in SUBSET Physical(f)
  BY SoundParts, FrameParts
<1>2. g = [f EXCEPT !.deleted = deleted, !.rowOrder = o1,
                    !.originalOrder = o2, !.selected = {}]
  BY DEF DeleteSelected
<1>3. deleted \in SUBSET Nat
  BY <1>1, KeysOfIsSetOfKeys
<1>4. /\ o1 \in Seq(Nat) /\ DupFree(o1)
      /\ Range(o1) = Range(f.rowOrder) \cap (Visible(f) \ f.selected)
  BY <1>1, RetainProperties
<1>5. /\ o2 \in Seq(Nat) /\ DupFree(o2)
      /\ Range(o2) = Range(f.originalOrder) \cap (Range(f.originalOrder) \ f.selected)
  BY <1>1, RetainProperties
<1>6. Range(o1) = Range(o2) /\ Range(o1) \subseteq Physical(f)
  BY <1>1, <1>4, <1>5 DEF Visible
<1> HIDE DEF o1, o2, deleted, g
<1>7. /\ g \in Frame /\ g.selected = {} /\ g.rows = f.rows /\ g.ids = f.ids
      /\ g.rowOrder = o1 /\ g.originalOrder = o2
  BY <1>1, <1>2, <1>3, <1>4, <1>5 DEF Frame
<1>8. Sound(g)
  BY <1>1, <1>4, <1>5, <1>6, <1>7, SoundParts DEF Physical
<1> QED BY <1>8 DEF g

LEMMA DeduplicateSound ==
  ASSUME NEW f, Sound(f), NEW kept
  PROVE  Sound(Deduplicate(f, kept))
<1> DEFINE o == Retain(f.rowOrder, kept)
           gone == Range(f.originalOrder) \ Range(o)
           deleted == f.deleted \cup KeysOf(f, gone)
           g == Deduplicate(f, kept)
<1>1. /\ f \in Frame /\ f.rowOrder \in Seq(Nat)
      /\ f.deleted \in SUBSET Nat
      /\ DupFree(f.rowOrder)
      /\ Range(f.rowOrder) = Range(f.originalOrder)
      /\ Range(f.rowOrder) \subseteq Physical(f)
      /\ Len(f.ids) = Len(f.rows)
  BY SoundParts, FrameParts
<1>2. g = [f EXCEPT !.deleted = deleted, !.rowOrder = o, !.originalOrder = o,
                    !.selected = {}, !.agg = NoFooter]
  BY DEF Deduplicate
<1>3. deleted \in SUBSET Nat
  <2>1. gone \in SUBSET Physical(f)
    BY <1>1
  <2> HIDE DEF gone
  <2> QED BY <1>1, <2>1, KeysOfIsSetOfKeys
<1>4. o \in Seq(Nat) /\ DupFree(o) /\ Range(o) = Range(f.rowOrder) \cap kept
  BY <1>1, RetainProperties
<1> HIDE DEF o, deleted, g
<1>5. /\ g \in Frame /\ g.selected = {} /\ g.rows = f.rows /\ g.ids = f.ids
      /\ g.rowOrder = o /\ g.originalOrder = o
  BY <1>1, <1>2, <1>3, <1>4 DEF Frame
<1>6. Sound(g)
  BY <1>1, <1>4, <1>5, SoundParts DEF Physical
<1> QED BY <1>6 DEF g

-----------------------------------------------------------------------------
(* Rows changing places.                                                   *)

LEMMA SortsBeforeIsOrder ==
  ASSUME NEW f, Sound(f), NEW keys \in Seq(SortKey)
  PROVE  StrictTotalOrder(SortsBefore(f, keys), DOMAIN f.rowOrder)
<1> DEFINE D == DOMAIN f.rowOrder
           N == Len(keys)
           cell(i, n) == f.rows[f.rowOrder[i]][keys[n].col]
           before(n, i, j) ==
              KeyBefore(keys[n], f.rows[f.rowOrder[i]], f.rows[f.rowOrder[j]])
           tied(i, j, n) == \A m \in 1 .. n : cell(i, m) = cell(j, m)
           R == SortsBefore(f, keys)
<1>1. DOMAIN keys = 1 .. N /\ N \in Nat
  OBVIOUS
<1>2. D \in SUBSET Int
  BY SoundParts, FrameParts
<1>3. ASSUME NEW i \in D, NEW n \in 1 .. N
      PROVE  cell(i, n) \in Nat
  <2>1. /\ f.rows \in Seq(Row) /\ DOMAIN f.rows = Physical(f)
        /\ Range(f.rowOrder) \subseteq Physical(f)
    BY SoundParts, FrameParts DEF Physical
  <2>2. f.rowOrder[i] \in DOMAIN f.rows
    BY <2>1, InRange
  <2>3. f.rows[f.rowOrder[i]] \in Row
    BY <2>1, <2>2
  <2>4. keys[n] \in SortKey
    BY <1>1
  <2>5. keys[n].col \in Columns
    BY <2>4 DEF SortKey
  <2>6. Values \cup {Null} \subseteq Nat
    BY ValuesAssumption DEF Null
  <2> QED BY <2>3, <2>5, <2>6 DEF Row
<1>4. \A i, j \in D : <<i, j>> \in R <=>
         \/ \E n \in 1 .. N : tied(i, j, n - 1) /\ before(n, i, j)
         \/ tied(i, j, N) /\ i < j
  BY <1>1 DEF SortsBefore
<1>5. \A i, j \in D, n \in 1 .. N : before(n, i, j) <=>
         /\ cell(i, n) # 0
         /\ \/ cell(j, n) = 0
            \/ IF keys[n].desc THEN cell(i, n) > cell(j, n)
               ELSE cell(i, n) < cell(j, n)
  BY DEF KeyBefore, Null
<1> HIDE DEF R, before, cell, D, N
<1>6. ASSUME NEW n \in 1 .. N, NEW i \in D, NEW j \in D
      PROVE  /\ before(n, i, j) => cell(i, n) # cell(j, n)
             /\ cell(i, n) # cell(j, n) => before(n, i, j) \/ before(n, j, i)
  <2>1. cell(i, n) \in Nat /\ cell(j, n) \in Nat
    BY <1>3
  <2> QED BY <1>5, <2>1
<1>7. ASSUME NEW n \in 1 .. N, NEW i \in D, NEW j \in D, NEW m \in D
      PROVE  /\ before(n, i, j) /\ before(n, j, m) => before(n, i, m)
             /\ before(n, i, j) /\ cell(j, n) = cell(m, n) => before(n, i, m)
             /\ cell(i, n) = cell(j, n) /\ before(n, j, m) => before(n, i, m)
  <2>1. cell(i, n) \in Nat /\ cell(j, n) \in Nat /\ cell(m, n) \in Nat
    BY <1>3
  <2> QED BY <1>5, <2>1
<1>8. ASSUME NEW i \in D PROVE <<i, i>> \notin R
  BY <1>2, <1>4, <1>6
<1>9. ASSUME NEW i \in D, NEW j \in D, NEW m \in D,
             <<i, j>> \in R, <<j, m>> \in R
      PROVE  <<i, m>> \in R
  <2>1. CASE tied(i, j, N) /\ i < j
    <3>1. CASE tied(j, m, N) /\ j < m
      <4>1. tied(i, m, N) /\ i < m
        BY <2>1, <3>1, <1>2
      <4> QED BY <4>1, <1>4
    <3>2. CASE \E n \in 1 .. N : tied(j, m, n - 1) /\ before(n, j, m)
      <4>1. PICK b \in 1 .. N : tied(j, m, b - 1) /\ before(b, j, m)
        BY <3>2
      <4>2. tied(i, m, b - 1)
        BY <2>1, <4>1, <1>1
      <4>3. before(b, i, m)
        BY <2>1, <4>1, <1>7
      <4> QED BY <4>2, <4>3, <1>4
    <3> QED BY <3>1, <3>2, <1>4, <1>9
  <2>2. CASE \E n \in 1 .. N : tied(i, j, n - 1) /\ before(n, i, j)
    <3>1. PICK a \in 1 .. N : tied(i, j, a - 1) /\ before(a, i, j)
      BY <2>2
    <3>2. CASE tied(j, m, N) /\ j < m
      <4>1. tied(i, m, a - 1)
        BY <3>1, <3>2, <1>1
      <4>2. before(a, i, m)
        BY <3>1, <3>2, <1>7
      <4> QED BY <4>1, <4>2, <1>4
    <3>3. CASE \E n \in 1 .. N : tied(j, m, n - 1) /\ before(n, j, m)
      <4>1. PICK b \in 1 .. N : tied(j, m, b - 1) /\ before(b, j, m)
        BY <3>3
      <4>2. CASE a < b
        <5>1. tied(i, m, a - 1)
          BY <3>1, <4>1, <4>2, <1>1
        <5>2. cell(j, a) = cell(m, a)
          BY <4>1, <4>2, <1>1
        <5>3. before(a, i, m)
          BY <3>1, <5>2, <1>7
        <5> QED BY <5>1, <5>3, <1>4
      <4>3. CASE b < a
        <5>1. tied(i, m, b - 1)
          BY <3>1, <4>1, <4>3, <1>1
        <5>2. cell(i, b) = cell(j, b)
          BY <3>1, <4>3, <1>1
        <5>3. before(b, i, m)
          BY <4>1, <5>2, <1>7
        <5> QED BY <5>1, <5>3, <1>4
      <4>4. CASE a = b
        <5>1. tied(i, m, a - 1) /\ before(a, j, m)
          BY <3>1, <4>1, <4>4
        <5>2. before(a, i, m)
          BY <3>1, <5>1, <1>7
        <5> QED BY <5>1, <5>2, <1>4
      <4> QED BY <4>2, <4>3, <4>4, <1>1
    <3> QED BY <3>2, <3>3, <1>4, <1>9
  <2> QED BY <2>1, <2>2, <1>4, <1>9
<1>10. ASSUME NEW i \in D, NEW j \in D, i # j
       PROVE  <<i, j>> \in R \/ <<j, i>> \in R
  <2>1. CASE tied(i, j, N)
    <3>1. tied(j, i, N) /\ (i < j \/ j < i)
      BY <2>1, <1>2, <1>10
    <3> QED BY <2>1, <3>1, <1>4
  <2>2. CASE ~tied(i, j, N)
    <3> DEFINE T == {n \in 1 .. N : cell(i, n) # cell(j, n)}
    <3>1. PICK k \in T : TRUE
      BY <2>2
    <3>2. T \in SUBSET Nat
      BY <1>1
    <3>3. PICK n \in T : \A m \in T : n <= m
      <4> HIDE DEF T
      <4> QED BY <3>1, <3>2, LeastNatural
    <3>4. tied(i, j, n - 1) /\ tied(j, i, n - 1)
      BY <3>3, <1>1
    <3>5. before(n, i, j) \/ before(n, j, i)
      BY <3>3, <1>6
    <3> QED BY <3>3, <3>4, <3>5, <1>4
  <2> QED BY <2>1, <2>2
<1> QED BY <1>8, <1>9, <1>10 DEF StrictTotalOrder, R, D

LEMMA SortedBijection ==
  ASSUME NEW f, Sound(f), NEW keys \in Seq(SortKey)
  PROVE  InOrder(DOMAIN f.rowOrder, SortsBefore(f, keys))
            \in Bijection(1 .. Len(f.rowOrder), 1 .. Len(f.rowOrder))
<1> DEFINE n == Len(f.rowOrder)
<1>0. DOMAIN f.rowOrder = 1 .. n /\ n \in Nat
  BY SoundParts, FrameParts
<1>1. IsFiniteSet(1 .. n) /\ Cardinality(1 .. n) = n
  BY <1>0, FS_Interval
<1>2. StrictTotalOrder(SortsBefore(f, keys), 1 .. n)
  BY <1>0, SortsBeforeIsOrder
<1> HIDE DEF n
<1> QED BY <1>0, <1>1, <1>2, InOrderBijection

LEMMA SortByKeysSound ==
  ASSUME NEW f, Sound(f), NEW keys \in Seq(SortKey)
  PROVE  Sound(SortByKeys(f, keys))
<1> DEFINE n == Len(f.rowOrder)
           order == InOrder(DOMAIN f.rowOrder, SortsBefore(f, keys))
           o == [k \in DOMAIN f.rowOrder |-> f.rowOrder[order[k]]]
           g == SortByKeys(f, keys)
<1>1. /\ f \in Frame /\ f.rowOrder \in Seq(Nat) /\ DupFree(f.rowOrder)
      /\ DOMAIN f.rowOrder = 1 .. n /\ n \in Nat
  BY SoundParts, FrameParts
<1>2. order \in Bijection(1 .. n, 1 .. n)
  BY SortedBijection
<1> HIDE DEF order
<1>3. o \in Seq(Nat) /\ DupFree(o) /\ Range(o) = Range(f.rowOrder)
  BY <1>1, <1>2, PermutedProperties
<1>4. g = [f EXCEPT !.rowOrder = o, !.agg = NoFooter]
  BY DEF SortByKeys, order
<1> HIDE DEF o, g
<1>5. /\ g \in Frame /\ g.selected = f.selected
      /\ g.rows = f.rows /\ g.ids = f.ids
      /\ g.rowOrder = o /\ g.originalOrder = f.originalOrder
  BY <1>1, <1>3, <1>4 DEF Frame
<1>6. Sound(g)
  BY <1>3, <1>5, SoundParts DEF Physical
<1> QED BY <1>6 DEF g

-----------------------------------------------------------------------------
(* What a frame says of the database and of its footer: every key it was   *)
(* loaded with is either shown or written down as deleted, never both, and *)
(* no two rows have the same; each row the footer was computed over still  *)
(* holds what it held then.                                                *)

Accounted(f) ==
    /\ KeysOf(f, Visible(f)) \cap f.deleted = {}
    /\ KeysOf(f, Visible(f)) \cup f.deleted = KeysOf(f, Physical(f))
    /\ \A p, q \in Physical(f) : f.ids[p] = f.ids[q] /\ p # q => f.ids[p] = NoKey

FooterHolds(f) ==
    f.agg # NoFooter =>
        \A e \in f.agg : e[1] \in Physical(f) /\ e[2] = f.rows[e[1]]

Faithful(f) == Sound(f) /\ Accounted(f) /\ FooterHolds(f)

LEMMA KeysSame ==
  ASSUME NEW f, Accounted(f), NEW g,
         g.ids = f.ids, g.deleted = f.deleted, Len(g.rows) = Len(f.rows),
         Visible(g) = Visible(f)
  PROVE  Accounted(g)
BY DEF Accounted, KeysOf, Physical

LEMMA KeysThinned ==
  ASSUME NEW f, Accounted(f), Visible(f) \subseteq Physical(f), NEW g,
         g.ids = f.ids, Len(g.rows) = Len(f.rows), Visible(g) \subseteq Visible(f),
         g.deleted = f.deleted \cup KeysOf(f, Visible(f) \ Visible(g))
  PROVE  Accounted(g)
<1>1. Physical(g) = Physical(f) /\ \A ps : KeysOf(g, ps) = KeysOf(f, ps)
  BY DEF Physical, KeysOf
<1>2. KeysOf(f, Visible(g)) \cap f.deleted = {}
  BY DEF Accounted, KeysOf
<1>3. KeysOf(f, Visible(g)) \cap KeysOf(f, Visible(f) \ Visible(g)) = {}
  BY DEF Accounted, KeysOf
<1>4. KeysOf(f, Visible(f)) = KeysOf(f, Visible(g)) \cup KeysOf(f, Visible(f) \ Visible(g))
  BY DEF KeysOf
<1> QED BY <1>1, <1>2, <1>3, <1>4 DEF Accounted

LEMMA KeysGrown ==
  ASSUME NEW f, Accounted(f), Visible(f) \subseteq Physical(f), NEW g,
         NEW n \in Nat, NEW m \in Nat, n <= m, Len(f.rows) = n, Len(g.rows) = m,
         \A p \in 1 .. n : g.ids[p] = f.ids[p],
         \A p \in n + 1 .. m : g.ids[p] = NoKey,
         g.deleted = f.deleted, Visible(g) = Visible(f) \cup n + 1 .. m
  PROVE  Accounted(g)
<1>1. Physical(f) = 1 .. n /\ Physical(g) = Physical(f) \cup n + 1 .. m
  BY DEF Physical
<1>2. \A ps \in SUBSET Physical(f) : KeysOf(g, ps \cup n + 1 .. m) = KeysOf(f, ps)
  <2> SUFFICES ASSUME NEW ps \in SUBSET Physical(f)
               PROVE  KeysOf(g, ps \cup n + 1 .. m) = KeysOf(f, ps)
    OBVIOUS
  <2>1. \A p \in ps : g.ids[p] = f.ids[p]
    BY <1>1
  <2> QED BY <2>1 DEF KeysOf
<1>3. KeysOf(g, Visible(g)) = KeysOf(f, Visible(f))
      /\ KeysOf(g, Physical(g)) = KeysOf(f, Physical(f))
  BY <1>1, <1>2
<1>4. ASSUME NEW p \in Physical(g), NEW q \in Physical(g), g.ids[p] = g.ids[q], p # q
      PROVE  g.ids[p] = NoKey
  <2>1. CASE p \in 1 .. n /\ q \in 1 .. n
    BY <1>1, <1>4, <2>1 DEF Accounted
  <2>2. CASE p \in n + 1 .. m \/ q \in n + 1 .. m
    BY <1>4, <2>2
  <2> QED BY <1>1, <2>1, <2>2
<1> QED BY <1>3, <1>4 DEF Accounted

LEMMA SelectFaithful ==
  ASSUME NEW f, Faithful(f), NEW S \in SUBSET Visible(f)
  PROVE  Faithful([f EXCEPT !.selected = S])
<1> DEFINE g == [f EXCEPT !.selected = S]
<1>1. Sound(g) /\ f \in Frame
  BY SelectSound, SoundParts DEF Faithful
<1>2. /\ g.rows = f.rows /\ g.ids = f.ids /\ g.deleted = f.deleted
      /\ g.rowOrder = f.rowOrder /\ g.agg = f.agg
  BY <1>1 DEF Frame
<1> HIDE DEF g
<1>3. Faithful(g)
  BY <1>1, <1>2, KeysSame DEF Faithful, FooterHolds, Visible, Physical
<1> QED BY <1>3 DEF g

LEMMA SetCellsFaithful ==
  ASSUME NEW f, Faithful(f), NEW ps, NEW col \in Columns,
         NEW value \in Values \cup {Null}
  PROVE  Faithful(SetCells(f, ps, col, value))
<1> DEFINE rows == [p \in DOMAIN f.rows |->
                       IF p \in ps THEN [f.rows[p] EXCEPT ![col] = value]
                       ELSE f.rows[p]]
           g == SetCells(f, ps, col, value)
<1>1. Sound(g) /\ f \in Frame /\ f.rows \in Seq(Row)
  BY SetCellsSound, SoundParts, FrameParts DEF Faithful
<1>2. /\ g.rows = rows /\ g.ids = f.ids /\ g.deleted = f.deleted
      /\ g.rowOrder = f.rowOrder /\ g.agg = NoFooter
  BY <1>1 DEF SetCells, Frame
<1>3. Len(rows) = Len(f.rows)
  <2>1. DOMAIN rows = 1 .. Len(f.rows) /\ Len(f.rows) \in Nat
    BY <1>1
  <2> HIDE DEF rows
  <2>2. g.rows \in Seq(Row)
    BY <1>1, SoundParts, FrameParts
  <2> QED BY <1>2, <2>1, <2>2
<1> HIDE DEF g, rows
<1>4. Faithful(g)
  BY <1>1, <1>2, <1>3, KeysSame DEF Faithful, FooterHolds, Visible
<1> QED BY <1>4 DEF g

LEMMA ComputeAggregatesFaithful ==
  ASSUME NEW f, Faithful(f)
  PROVE  Faithful(ComputeAggregates(f))
<1> DEFINE g == [f EXCEPT !.agg = Footer(f)]
<1>1. CASE f.agg # NoFooter
  BY <1>1 DEF ComputeAggregates
<1>2. CASE f.agg = NoFooter
  <2>1. Sound(g) /\ f \in Frame /\ g = ComputeAggregates(f)
    BY <1>2, ComputeAggregatesSound, SoundParts DEF Faithful, ComputeAggregates
  <2>2. /\ g.rows = f.rows /\ g.ids = f.ids /\ g.deleted = f.deleted
        /\ g.rowOrder = f.rowOrder /\ g.agg = Footer(f)
    BY <2>1 DEF Frame
  <2>3. Visible(f) \subseteq Physical(f)
    BY SoundParts DEF Faithful, Visible
  <2>4. \A e \in Footer(f) : e[1] \in Physical(f) /\ e[2] = f.rows[e[1]]
    BY <2>3 DEF Footer
  <2> HIDE DEF g
  <2>5. FooterHolds(g)
    BY <2>2, <2>4 DEF FooterHolds, Physical
  <2> QED BY <2>1, <2>2, <2>5, KeysSame DEF Faithful, Visible
<1> QED BY <1>1, <1>2

LEMMA ResetOrderFaithful ==
  ASSUME NEW f, Faithful(f)
  PROVE  Faithful(ResetOrder(f))
<1> DEFINE g == ResetOrder(f)
<1>1. Sound(g) /\ f \in Frame /\ Range(f.rowOrder) = Range(f.originalOrder)
  BY ResetOrderSound, SoundParts DEF Faithful
<1>2. /\ g.rows = f.rows /\ g.ids = f.ids /\ g.deleted = f.deleted
      /\ g.rowOrder = f.originalOrder /\ g.agg = NoFooter
  BY <1>1 DEF Frame, ResetOrder
<1> HIDE DEF g
<1>3. Faithful(g)
  BY <1>1, <1>2, KeysSame DEF Faithful, FooterHolds, Visible
<1> QED BY <1>3 DEF g

LEMMA SortByKeysFaithful ==
  ASSUME NEW f, Faithful(f), NEW keys \in Seq(SortKey)
  PROVE  Faithful(SortByKeys(f, keys))
<1> DEFINE order == InOrder(DOMAIN f.rowOrder, SortsBefore(f, keys))
           o == [k \in DOMAIN f.rowOrder |-> f.rowOrder[order[k]]]
           g == SortByKeys(f, keys)
<1>1. /\ Sound(f) /\ Sound(g) /\ f \in Frame
      /\ f.rowOrder \in Seq(Nat) /\ DupFree(f.rowOrder)
  BY SortByKeysSound, SoundParts, FrameParts DEF Faithful
<1>2. order \in Bijection(1 .. Len(f.rowOrder), 1 .. Len(f.rowOrder))
  BY <1>1, SortedBijection
<1>3. /\ g.rows = f.rows /\ g.ids = f.ids /\ g.deleted = f.deleted
      /\ g.rowOrder = o /\ g.agg = NoFooter
  BY <1>1 DEF Frame, SortByKeys
<1> HIDE DEF order, g
<1>4. Range(o) = Range(f.rowOrder)
  BY <1>1, <1>2, PermutedProperties
<1> HIDE DEF o
<1>5. Faithful(g)
  BY <1>1, <1>3, <1>4, KeysSame DEF Faithful, FooterHolds, Visible
<1> QED BY <1>5 DEF g

LEMMA AppendRowsFaithful ==
  ASSUME NEW f, Faithful(f), NEW block \in Seq(Row)
  PROVE  Faithful(AppendRows(f, block))
<1> DEFINE n == Len(f.rows)
           b == Len(block)
           new == [k \in 1 .. b |-> n + k]
           keys == [k \in 1 .. b |-> NoKey]
           g == AppendRows(f, block)
<1>1. /\ Sound(f) /\ Sound(g) /\ f \in Frame /\ f.rows \in Seq(Row)
      /\ n \in Nat /\ b \in Nat
      /\ f.rowOrder \in Seq(Nat) /\ f.ids \in Seq(Nat) /\ Len(f.ids) = n
      /\ DupFree(f.rowOrder) /\ Range(f.rowOrder) \subseteq 1 .. n
  BY AppendRowsSound, SoundParts, FrameParts DEF Faithful, Physical
<1>2. /\ g.rows = f.rows \o block /\ g.ids = f.ids \o keys /\ g.deleted = f.deleted
      /\ g.rowOrder = f.rowOrder \o new /\ g.agg = f.agg
  BY <1>1 DEF AppendRows, Frame
<1>3. /\ new \in Seq(Nat) /\ Len(new) = b
      /\ keys \in Seq(Nat) /\ Len(keys) = b
      /\ \A k \in 1 .. b : new[k] = n + k /\ keys[k] = NoKey
  <2> HIDE DEF n, b
  <2> QED BY <1>1 DEF NoKey
<1>4. Len(f.rows \o block) = n + b /\ \A p \in 1 .. n : (f.rows \o block)[p] = f.rows[p]
  BY <1>1, ConcatProperties
<1>5. \A i \in 1 .. n + b : (f.ids \o keys)[i] = IF i <= n THEN f.ids[i] ELSE keys[i - n]
  <2>1. \A i \in 1 .. Len(f.ids) + Len(keys) :
           (f.ids \o keys)[i] = IF i <= Len(f.ids) THEN f.ids[i] ELSE keys[i - Len(f.ids)]
    <3>1. f.ids \in Seq(Nat) /\ keys \in Seq(Nat)
      BY <1>1, <1>3
    <3> HIDE DEF keys
    <3> QED BY <3>1, ConcatProperties
  <2> HIDE DEF n, b, keys
  <2> QED BY <1>1, <1>3, <2>1
<1> HIDE DEF new, keys, g, n, b
<1>6. Visible(g) = Visible(f) \cup n + 1 .. n + b
  <2>1. n \in Nat /\ b \in Nat /\ f.rowOrder \in Seq(Nat) /\ new \in Seq(Nat)
    BY <1>1, <1>3
  <2>2. DupFree(f.rowOrder) /\ Range(f.rowOrder) \subseteq 1 .. n
    BY <1>1
  <2>3. Len(new) = b /\ \A k \in 1 .. b : new[k] = n + k
    BY <1>3
  <2>4. Range(f.rowOrder \o new) = Range(f.rowOrder) \cup n + 1 .. n + b
    BY <2>1, <2>2, <2>3, AppendedProperties, Zenon
  <2> QED BY <1>2, <2>4 DEF Visible
<1>7. Accounted(g)
  <2>1. /\ \A p \in 1 .. n : g.ids[p] = f.ids[p]
        /\ \A p \in n + 1 .. n + b : g.ids[p] = NoKey
    <3>1. \A p \in 1 .. n : p \in 1 .. n + b /\ p <= n
      BY <1>1
    <3>2. \A p \in n + 1 .. n + b : p \in 1 .. n + b /\ ~(p <= n) /\ p - n \in 1 .. b
      BY <1>1
    <3> QED BY <1>2, <1>3, <1>5, <3>1, <3>2
  <2>2. n + b \in Nat /\ n <= n + b
    BY <1>1
  <2>3. Len(f.rows) = n /\ Len(g.rows) = n + b
    BY <1>2, <1>4 DEF n
  <2>4. Visible(f) \subseteq Physical(f) /\ Accounted(f)
    BY <1>1 DEF Visible, Physical, n, Faithful
  <2> QED BY <1>1, <1>2, <1>6, <2>1, <2>2, <2>3, <2>4, KeysGrown
<1>8. FooterHolds(g)
  <2>1. Physical(f) = 1 .. n /\ Physical(f) \subseteq Physical(g)
    BY <1>1, <1>2, <1>4 DEF Physical, n
  <2>2. \A p \in Physical(f) : g.rows[p] = f.rows[p]
    BY <1>2, <1>4, <2>1
  <2> QED BY <1>2, <2>1, <2>2 DEF FooterHolds, Faithful
<1> QED BY <1>1, <1>7, <1>8 DEF Faithful, g

LEMMA InsertRowsTypedFaithful ==
  ASSUME NEW f, Faithful(f), NEW block \in Seq(Row)
  PROVE  Faithful(InsertRowsTyped(f, block))
<1> DEFINE h == AppendRows(f, block)
           g == [h EXCEPT !.agg = NoFooter]
<1>1. Faithful(h) /\ Sound(g) /\ g = InsertRowsTyped(f, block)
  BY AppendRowsFaithful, InsertRowsTypedSound DEF Faithful, InsertRowsTyped
<1> HIDE DEF h
<1>2. h \in Frame
  BY <1>1, SoundParts DEF Faithful
<1>3. /\ g.rows = h.rows /\ g.ids = h.ids /\ g.deleted = h.deleted
      /\ g.rowOrder = h.rowOrder /\ g.agg = NoFooter
  BY <1>2 DEF Frame
<1> HIDE DEF g
<1>4. Faithful(g)
  BY <1>1, <1>3, KeysSame DEF Faithful, FooterHolds, Visible
<1> QED BY <1>1, <1>4

LEMMA InsertEmptyRowFaithful ==
  ASSUME NEW f, Faithful(f), NEW at \in Nat \ {0}
  PROVE  Faithful(InsertEmptyRow(f, at))
<1> DEFINE n == Len(f.rows)
           here == IF at > Len(f.rowOrder) + 1 THEN Len(f.rowOrder) + 1 ELSE at
           o == Insert(f.rowOrder, here, n + 1)
           rows == Append(f.rows, EmptyRow)
           ids == Append(f.ids, NoKey)
           g == InsertEmptyRow(f, at)
<1>1. /\ Sound(f) /\ Sound(g) /\ f \in Frame /\ f.rows \in Seq(Row) /\ n \in Nat
      /\ f.rowOrder \in Seq(Nat) /\ f.ids \in Seq(Nat) /\ Len(f.ids) = n
      /\ DupFree(f.rowOrder) /\ Range(f.rowOrder) \subseteq 1 .. n
  BY InsertEmptyRowSound, SoundParts, FrameParts DEF Faithful, Physical
<1>2. /\ g.rows = rows /\ g.ids = ids /\ g.deleted = f.deleted
      /\ g.rowOrder = o /\ g.agg = NoFooter
  BY <1>1 DEF InsertEmptyRow, Frame
<1>3. here \in 1 .. Len(f.rowOrder) + 1
  BY <1>1
<1>4. Len(rows) = n + 1 /\ ids[n + 1] = NoKey /\ \A p \in 1 .. n : ids[p] = f.ids[p]
  <2>1. EmptyRow \in Row /\ NoKey \in Nat
    BY DEF EmptyRow, Row, NoKey
  <2>2. Len(rows) = n + 1
    BY <1>1, <2>1, AppendProperties
  <2>3. /\ \A i \in 1 .. Len(f.ids) : ids[i] = f.ids[i]
        /\ ids[Len(f.ids) + 1] = NoKey
    BY <1>1, <2>1, AppendProperties
  <2> HIDE DEF n, rows, ids
  <2> QED BY <1>1, <2>2, <2>3
<1> HIDE DEF here, rows, ids, g
<1>5. Range(o) = Range(f.rowOrder) \cup {n + 1}
  <2>1. n + 1 \notin Range(f.rowOrder) /\ n + 1 \in Nat
    BY <1>1
  <2>2. f.rowOrder \in Seq(Nat) /\ DupFree(f.rowOrder)
    BY <1>1
  <2> HIDE DEF n
  <2> QED BY <1>3, <2>1, <2>2, InsertProperties
<1> HIDE DEF o
<1>6. Accounted(g)
  <2>1. {n + 1} = n + 1 .. n + 1 /\ n + 1 \in Nat /\ n <= n + 1
    BY <1>1
  <2>2. Visible(g) = Visible(f) \cup n + 1 .. n + 1
    BY <1>2, <1>5, <2>1 DEF Visible
  <2>3. /\ \A p \in 1 .. n : g.ids[p] = f.ids[p]
        /\ \A p \in n + 1 .. n + 1 : g.ids[p] = NoKey
    BY <1>1, <1>2, <1>4
  <2>4. Visible(f) \subseteq Physical(f) /\ Accounted(f) /\ Len(g.rows) = n + 1
    BY <1>1, <1>2, <1>4 DEF Visible, Physical, Faithful
  <2> QED BY <1>1, <1>2, <2>1, <2>2, <2>3, <2>4, KeysGrown
<1> QED BY <1>1, <1>2, <1>6 DEF Faithful, FooterHolds, g

LEMMA DeleteSelectedFaithful ==
  ASSUME NEW f, Faithful(f)
  PROVE  Faithful(DeleteSelected(f))
<1> DEFINE o == Retain(f.rowOrder, Visible(f) \ f.selected)
           g == DeleteSelected(f)
<1>1. /\ Sound(f) /\ Sound(g) /\ f \in Frame /\ f.rowOrder \in Seq(Nat)
      /\ f.selected \subseteq Visible(f) /\ Visible(f) \subseteq Physical(f)
  BY DeleteSelectedSound, SoundParts, FrameParts DEF Faithful, Visible
<1>2. /\ g.rows = f.rows /\ g.ids = f.ids /\ g.rowOrder = o /\ g.agg = f.agg
      /\ g.deleted = f.deleted \cup KeysOf(f, f.selected)
  BY <1>1 DEF DeleteSelected, Frame
<1>3. Range(o) = Range(f.rowOrder) \cap (Visible(f) \ f.selected)
  BY <1>1, RetainProperties
<1> HIDE DEF o, g
<1>4. Visible(g) = Visible(f) \ f.selected /\ Visible(f) \ Visible(g) = f.selected
  BY <1>1, <1>2, <1>3 DEF Visible
<1>5. Accounted(g)
  BY <1>1, <1>2, <1>4, KeysThinned DEF Faithful
<1> QED BY <1>1, <1>2, <1>5 DEF Faithful, FooterHolds, Physical, g

LEMMA DeduplicateFaithful ==
  ASSUME NEW f, Faithful(f), NEW kept
  PROVE  Faithful(Deduplicate(f, kept))
<1> DEFINE o == Retain(f.rowOrder, kept)
           g == Deduplicate(f, kept)
<1>1. /\ Sound(f) /\ Sound(g) /\ f \in Frame /\ f.rowOrder \in Seq(Nat)
      /\ Range(f.originalOrder) = Visible(f) /\ Visible(f) \subseteq Physical(f)
  BY DeduplicateSound, SoundParts, FrameParts DEF Faithful, Visible
<1>2. /\ g.rows = f.rows /\ g.ids = f.ids /\ g.rowOrder = o /\ g.agg = NoFooter
      /\ g.deleted = f.deleted \cup KeysOf(f, Range(f.originalOrder) \ Range(o))
  BY <1>1 DEF Deduplicate, Frame
<1>3. Range(o) = Range(f.rowOrder) \cap kept
  BY <1>1, RetainProperties
<1> HIDE DEF o, g
<1>4. Visible(g) = Range(o) /\ Visible(g) \subseteq Visible(f)
  BY <1>2, <1>3 DEF Visible
<1>5. Accounted(g)
  BY <1>1, <1>2, <1>4, KeysThinned DEF Faithful
<1> QED BY <1>1, <1>2, <1>5 DEF Faithful, FooterHolds, g

-----------------------------------------------------------------------------
(* The whole history.                                                      *)

FaithfulFrame == {f \in Frame : Faithful(f)}

(* The frames a command is given are sound only if the ones undo brings    *)
(* back are, so the invariant is about the whole history; and the caps in  *)
(* pop_undo and pop_redo are harmless only within the budget.  A faithful  *)
(* frame is sound, accounts for every key of the table, and has no footer  *)
(* over values that its rows no longer hold.                               *)
IInv ==
    /\ frame \in FaithfulFrame
    /\ sortKeys \in Seq(SortKey)
    /\ undo \in Seq(FaithfulFrame)
    /\ redo \in Seq(FaithfulFrame)
    /\ edits \in 0 .. MaxEdits
    /\ HistoryBudget

LEMMA FaithfulIsFrame == \A f : Faithful(f) => f \in FaithfulFrame
BY SoundParts DEF FaithfulFrame, Faithful

LEMMA ElementsOf ==
  ASSUME NEW T, NEW s \in Seq(T)
  PROVE  \A x \in Range(s) : x \in T
<1>1. \A i \in DOMAIN s : s[i] \in T
  OBVIOUS
<1> QED BY <1>1, InRange

(* What the invariant says in the words of SheetEdit.                      *)
LEMMA Consequences ==
  IInv => /\ TypeOK /\ FramesWellFormed /\ MarksVisible
          /\ KeysAccountedFor /\ FooterValuesCurrent
<1> SUFFICES ASSUME IInv PROVE /\ TypeOK /\ FramesWellFormed /\ MarksVisible
                               /\ KeysAccountedFor /\ FooterValuesCurrent
  OBVIOUS
<1>1. TypeOK
  <2>1. FaithfulFrame \subseteq Frame
    BY DEF FaithfulFrame
  <2>2. ASSUME NEW s \in Seq(FaithfulFrame) PROVE s \in Seq(Frame)
    <3>1. Len(s) \in Nat /\ DOMAIN s = 1 .. Len(s) /\ \A i \in 1 .. Len(s) : s[i] \in FaithfulFrame
      OBVIOUS
    <3> QED BY <2>1, <3>1
  <2> QED BY <2>1, <2>2 DEF IInv, TypeOK
<1>2. \A f \in Remembered : f \in FaithfulFrame
  BY ElementsOf DEF IInv, Remembered
<1>3. \A f \in FaithfulFrame : /\ WellFormed(f) /\ f.selected \subseteq Visible(f)
                                /\ Accounted(f)
  BY DEF FaithfulFrame, Faithful, Sound
<1>4. KeysAccountedFor
  BY <1>2, <1>3 DEF KeysAccountedFor, ShownKeys, Accounted
<1>5. FooterValuesCurrent
  BY DEF IInv, FaithfulFrame, Faithful, FooterHolds, FooterValuesCurrent
<1> QED BY <1>1, <1>2, <1>3, <1>4, <1>5 DEF FramesWellFormed, MarksVisible

-----------------------------------------------------------------------------

LEMMA InitSound ==
  Init => IInv
<1> SUFFICES ASSUME Init PROVE IInv
  OBVIOUS
<1>1. PICK rows \in Loaded :
        LET order == [i \in 1 .. Len(rows) |-> i] IN
        frame = [ rows |-> rows, rowOrder |-> order, originalOrder |-> order,
                  selected |-> {}, ids |-> order, deleted |-> {},
                  agg |-> NoFooter ]
  BY DEF Init
<1> DEFINE n == Len(rows)
           order == [i \in 1 .. n |-> i]
<1>2. rows \in Seq(Row) /\ n \in Nat
  BY LoadedAssumption
<1> HIDE DEF n
<1>3. order \in Seq(Nat) /\ Len(order) = n /\ DOMAIN order = 1 .. n
      /\ \A i \in 1 .. n : order[i] = i
  BY <1>2
<1> HIDE DEF order
<1>4. frame = [ rows |-> rows, rowOrder |-> order, originalOrder |-> order,
                selected |-> {}, ids |-> order, deleted |-> {},
                agg |-> NoFooter ]
  BY <1>1 DEF order, n
<1>5. frame \in Frame
  BY <1>2, <1>3, <1>4 DEF Frame
<1>6. DupFree(order) /\ Range(order) = 1 .. n
  BY <1>3, InRange DEF DupFree
<1>7. Faithful(frame)
  <2>1. Sound(frame)
    BY <1>3, <1>4, <1>5, <1>6, SoundParts DEF Physical, n
  <2>2. /\ Visible(frame) = Physical(frame) /\ frame.deleted = {}
        /\ \A p \in Physical(frame) : frame.ids[p] = p
    BY <1>3, <1>4, <1>6 DEF Visible, Physical, n
  <2>3. Accounted(frame)
    BY <2>2 DEF Accounted
  <2>4. FooterHolds(frame)
    BY <1>4 DEF FooterHolds
  <2> QED BY <2>1, <2>3, <2>4 DEF Faithful
<1>8. <<>> \in Seq(FaithfulFrame) /\ <<>> \in Seq(SortKey) /\ Len(<<>>) = 0
  BY EmptySeq
<1>9. HistoryBudget
  BY <1>8, MaxUndoAssumption DEF Init, HistoryBudget
<1> QED BY <1>7, <1>8, <1>9, FaithfulIsFrame, MaxEditsAssumption DEF Init, IInv

-----------------------------------------------------------------------------
(* The stacks.                                                             *)

LEMMA PushProperties ==
  ASSUME NEW T, NEW stack \in Seq(T), Len(stack) <= MaxUndo, NEW x \in T
  PROVE  /\ PushSnapshot(stack, x) \in Seq(T)
         /\ Len(PushSnapshot(stack, x)) \in 1 .. MaxUndo
         /\ Len(stack) < MaxUndo =>
                Len(PushSnapshot(stack, x)) = Len(stack) + 1
<1>1. CASE Len(stack) >= MaxUndo
  <2>0. Len(stack) = MaxUndo
    BY <1>1, MaxUndoAssumption
  <2>1. stack # <<>>
    BY <1>1, MaxUndoAssumption
  <2>2. Tail(stack) \in Seq(T) /\ Len(Tail(stack)) = Len(stack) - 1
    BY <2>1, HeadTailProperties
  <2> DEFINE t == Tail(stack)
  <2>3. PushSnapshot(stack, x) = Append(t, x)
    BY <1>1 DEF PushSnapshot
  <2>4. t \in Seq(T) /\ Len(t) = MaxUndo - 1
    BY <2>0, <2>2
  <2> HIDE DEF t
  <2>5. Append(t, x) \in Seq(T) /\ Len(Append(t, x)) = Len(t) + 1
    BY <2>4, AppendProperties
  <2> QED BY <1>1, <2>3, <2>4, <2>5, MaxUndoAssumption
<1>2. CASE Len(stack) < MaxUndo
  <2>1. PushSnapshot(stack, x) = Append(stack, x)
    BY <1>2, MaxUndoAssumption DEF PushSnapshot
  <2>2. Append(stack, x) \in Seq(T) /\ Len(Append(stack, x)) = Len(stack) + 1
    BY AppendProperties
  <2> QED BY <1>2, <2>1, <2>2, MaxUndoAssumption
<1> QED BY <1>1, <1>2, MaxUndoAssumption

LEMMA PopProperties ==
  ASSUME NEW T, NEW stack \in Seq(T), stack # <<>>
  PROVE  /\ stack[Len(stack)] \in T
         /\ Len(stack) \in Nat \ {0}
         /\ SubSeq(stack, 1, Len(stack) - 1) \in Seq(T)
         /\ Len(SubSeq(stack, 1, Len(stack) - 1)) = Len(stack) - 1
<1>1. Len(stack) \in Nat \ {0}
  BY EmptySeq
<1>2. stack[Len(stack)] \in T
  BY <1>1
<1> DEFINE n == Len(stack)
<1>3. /\ 1 \in Int /\ n - 1 \in Int
      /\ \A i \in 1 .. n - 1 : stack[i] \in T
  BY <1>1
<1> HIDE DEF n
<1>4. SubSeq(stack, 1, n - 1) \in Seq(T)
      /\ Len(SubSeq(stack, 1, n - 1)) = n - 1
  <2>1. n \in Nat \ {0}
    BY <1>1 DEF n
  <2> QED BY <2>1, <1>3, SubSeqProperties
<1> QED BY <1>1, <1>2, <1>4 DEF n

LEMMA CommitKeeps ==
  ASSUME IInv, NEW f, Faithful(f), Commit(f), sortKeys' \in Seq(SortKey)
  PROVE  IInv'
<1>1. /\ undo \in Seq(FaithfulFrame) /\ redo \in Seq(FaithfulFrame)
      /\ Len(undo) <= MaxUndo /\ frame \in FaithfulFrame
  BY MaxUndoAssumption DEF IInv, HistoryBudget
<1>2. undo' \in Seq(FaithfulFrame) /\ Len(undo') \in 1 .. MaxUndo
  BY <1>1, PushProperties DEF Commit
<1>3. redo' \in Seq(FaithfulFrame) /\ Len(redo') = 0
  BY EmptySeq DEF Commit
<1>4. HistoryBudget'
  BY <1>2, <1>3, MaxUndoAssumption DEF HistoryBudget
<1>5. frame' \in FaithfulFrame
  BY FaithfulIsFrame DEF Commit
<1>6. edits' \in 0 .. MaxEdits
  BY MaxEditsAssumption DEF IInv, Commit
<1> QED BY <1>2, <1>3, <1>4, <1>5, <1>6 DEF IInv

LEMMA MarkKeeps ==
  ASSUME IInv, NEW f, Faithful(f), Mark(f)
  PROVE  IInv'
<1>1. frame' \in FaithfulFrame
  BY FaithfulIsFrame DEF Mark
<1> QED BY <1>1 DEF IInv, Mark, HistoryBudget

LEMMA SelectKeeps ==
  ASSUME IInv, NEW S \in SUBSET Visible(frame), Select(S)
  PROVE  IInv'
<1>1. Faithful([frame EXCEPT !.selected = S])
  BY SelectFaithful DEF IInv, FaithfulFrame
<1> QED BY <1>1, MarkKeeps DEF Select

LEMMA RefuseKeeps ==
  ASSUME IInv, Refuse
  PROVE  IInv'
<1> DEFINE pushed == PushSnapshot(undo, frame)
<1>1. /\ undo \in Seq(FaithfulFrame) /\ Len(undo) <= MaxUndo /\ frame \in FaithfulFrame
      /\ redo \in Seq(FaithfulFrame)
  BY MaxUndoAssumption DEF IInv, HistoryBudget
<1>2. pushed \in Seq(FaithfulFrame) /\ Len(pushed) \in 1 .. MaxUndo
  BY <1>1, PushProperties
<1>3. undo' = SubSeq(pushed, 1, Len(pushed) - 1)
  BY DEF Refuse
<1> HIDE DEF pushed
<1>4. pushed # <<>>
  BY <1>2, EmptySeq
<1>5. undo' \in Seq(FaithfulFrame) /\ Len(undo') = Len(pushed) - 1
  BY <1>2, <1>3, <1>4, PopProperties
<1>6. redo' \in Seq(FaithfulFrame) /\ Len(redo') = 0
  BY EmptySeq DEF Refuse
<1>7. HistoryBudget'
  BY <1>2, <1>5, <1>6, MaxUndoAssumption DEF HistoryBudget
<1> QED BY <1>5, <1>6, <1>7 DEF IInv, Refuse

LEMMA UndoKeeps ==
  ASSUME IInv, Undo
  PROVE  IInv'
<1>1. /\ undo \in Seq(FaithfulFrame) /\ redo \in Seq(FaithfulFrame)
      /\ undo # <<>> /\ frame \in FaithfulFrame
      /\ Len(undo) + Len(redo) <= MaxUndo
  BY DEF IInv, HistoryBudget, Undo
<1>2. /\ undo[Len(undo)] \in FaithfulFrame
      /\ Len(undo) \in Nat \ {0}
      /\ SubSeq(undo, 1, Len(undo) - 1) \in Seq(FaithfulFrame)
      /\ Len(SubSeq(undo, 1, Len(undo) - 1)) = Len(undo) - 1
  BY <1>1, PopProperties
<1>3. /\ frame' \in FaithfulFrame
      /\ undo' \in Seq(FaithfulFrame) /\ Len(undo') = Len(undo) - 1
  BY <1>2 DEF Undo
<1>4. Len(redo) \in Nat /\ Len(redo) < MaxUndo
  BY <1>1, <1>2, MaxUndoAssumption
<1>5. redo' \in Seq(FaithfulFrame) /\ Len(redo') = Len(redo) + 1
  <2>1. redo' = PushSnapshot(redo, frame)
    BY DEF Undo
  <2>2. Len(redo) <= MaxUndo
    BY <1>4, MaxUndoAssumption
  <2> QED BY <1>1, <1>4, <2>1, <2>2, PushProperties
<1>6. HistoryBudget'
  BY <1>1, <1>2, <1>3, <1>4, <1>5, MaxUndoAssumption DEF HistoryBudget
<1> QED BY <1>3, <1>5, <1>6 DEF IInv, Undo

LEMMA RedoKeeps ==
  ASSUME IInv, Redo
  PROVE  IInv'
<1>1. /\ undo \in Seq(FaithfulFrame) /\ redo \in Seq(FaithfulFrame)
      /\ redo # <<>> /\ frame \in FaithfulFrame
      /\ Len(undo) + Len(redo) <= MaxUndo
  BY DEF IInv, HistoryBudget, Redo
<1>2. /\ redo[Len(redo)] \in FaithfulFrame
      /\ Len(redo) \in Nat \ {0}
      /\ SubSeq(redo, 1, Len(redo) - 1) \in Seq(FaithfulFrame)
      /\ Len(SubSeq(redo, 1, Len(redo) - 1)) = Len(redo) - 1
  BY <1>1, PopProperties
<1>3. /\ frame' \in FaithfulFrame
      /\ redo' \in Seq(FaithfulFrame) /\ Len(redo') = Len(redo) - 1
  BY <1>2 DEF Redo
<1>4. Len(undo) \in Nat /\ Len(undo) < MaxUndo
  BY <1>1, <1>2, MaxUndoAssumption
<1>5. undo' \in Seq(FaithfulFrame) /\ Len(undo') = Len(undo) + 1
  <2>1. undo' = PushSnapshot(undo, frame)
    BY DEF Redo
  <2>2. Len(undo) <= MaxUndo
    BY <1>4, MaxUndoAssumption
  <2> QED BY <1>1, <1>4, <2>1, <2>2, PushProperties
<1>6. HistoryBudget'
  BY <1>1, <1>2, <1>3, <1>4, <1>5, MaxUndoAssumption DEF HistoryBudget
<1> QED BY <1>3, <1>5, <1>6 DEF IInv, Redo

-----------------------------------------------------------------------------

LEMMA MarkingKeeps ==
  ASSUME IInv, Marking
  PROVE  IInv'
<1>1. /\ Faithful(frame) /\ frame.selected \subseteq Visible(frame)
      /\ \A d \in DOMAIN frame.rowOrder : frame.rowOrder[d] \in Visible(frame)
  BY InRange DEF IInv, FaithfulFrame, Faithful, Sound, Visible
<1>2. CASE \E d \in DOMAIN frame.rowOrder : SelectRow(d)
  BY <1>1, <1>2, SelectKeeps DEF SelectRow
<1>3. CASE \E d \in DOMAIN frame.rowOrder : UnselectRow(d)
  BY <1>1, <1>3, SelectKeeps DEF UnselectRow
<1>4. CASE SelectAllRows
  BY <1>1, <1>4, SelectKeeps DEF SelectAllRows
<1>5. CASE UnselectAllRows
  BY <1>5, SelectKeeps DEF UnselectAllRows
<1>6. CASE ToggleAllSelection
  BY <1>6, SelectKeeps DEF ToggleAllSelection
<1>7. CASE \E d \in DOMAIN frame.rowOrder, col \in Columns : SelectByValue(d, col)
  <2>1. PICK d \in DOMAIN frame.rowOrder, col \in Columns : SelectByValue(d, col)
    BY <1>7
  <2> DEFINE value == frame.rows[frame.rowOrder[d]][col]
             same  == {p \in Visible(frame) : frame.rows[p][col] = value}
             S == IF same \subseteq frame.selected THEN frame.selected \ same
                  ELSE frame.selected \cup same
  <2>2. Select(S)
    BY <2>1 DEF SelectByValue
  <2>3. S \in SUBSET Visible(frame)
    BY <1>1
  <2> HIDE DEF S
  <2> QED BY <2>2, <2>3, SelectKeeps
<1>8. CASE \E matches \in SUBSET Visible(frame) : SelectByRegex(matches)
  BY <1>1, <1>8, SelectKeeps DEF SelectByRegex
<1>9. CASE \E chosen \in SUBSET Visible(frame) : ApplySelectRandom(chosen)
  BY <1>9, SelectKeeps DEF ApplySelectRandom
<1>10. CASE SelectDuplicates
  <2> DEFINE S == {p \in Visible(frame) : Cardinality(Group(frame, Columns, p)) > 1}
  <2>1. Select(S) /\ S \in SUBSET Visible(frame)
    BY <1>10 DEF SelectDuplicates
  <2> HIDE DEF S
  <2> QED BY <2>1, SelectKeeps
<1> QED BY <1>2, <1>3, <1>4, <1>5, <1>6, <1>7, <1>8, <1>9, <1>10 DEF Marking

LEMMA EditingKeeps ==
  ASSUME IInv, Editing
  PROVE  IInv'
<1>1. Faithful(frame) /\ sortKeys \in Seq(SortKey)
  BY DEF IInv, FaithfulFrame
<1>2. CASE \E d \in DOMAIN frame.rowOrder, col \in Columns,
              value \in Values \cup {Null} : ApplyEdit(d, col, value)
  BY <1>1, <1>2, SetCellsFaithful, CommitKeeps DEF ApplyEdit
<1>3. CASE \E col \in Columns, value \in Values \cup {Null} : ApplyBulkEdit(col, value)
  BY <1>1, <1>3, SetCellsFaithful, CommitKeeps DEF ApplyBulkEdit
<1>4. CASE \E d \in 1 .. Len(frame.rowOrder) \cup {1} : AddEmptyRow(d + 1)
  <2>1. PICK d \in Nat : AddEmptyRow(d + 1)
    BY <1>4
  <2>2. d + 1 \in Nat \ {0}
    OBVIOUS
  <2>3. Faithful(InsertEmptyRow(frame, d + 1))
    BY <1>1, <2>2, InsertEmptyRowFaithful
  <2> QED BY <1>1, <2>1, <2>3, CommitKeeps DEF AddEmptyRow
<1>5. CASE \E row \in Row : ApplyRowForm(row)
  <2>1. PICK row \in Row : ApplyRowForm(row)
    BY <1>5
  <2>2. <<row>> \in Seq(Row)
    OBVIOUS
  <2>3. Faithful(InsertRowsTyped(frame, <<row>>))
    BY <1>1, <2>2, InsertRowsTypedFaithful
  <2> QED BY <1>1, <2>1, <2>3, CommitKeeps DEF ApplyRowForm
<1>6. CASE RowFormRefused
  BY <1>6, RefuseKeeps DEF RowFormRefused
<1>7. CASE \E block \in Clipboards : Paste(block)
  BY <1>1, <1>7, AppendRowsFaithful, ClipboardsAssumption, CommitKeeps
     DEF Paste, PasteRows
<1>8. CASE PasteRefused
  BY <1>8, RefuseKeeps DEF PasteRefused
<1>9. CASE DeleteSelectedRows
  BY <1>1, <1>9, DeleteSelectedFaithful, CommitKeeps DEF DeleteSelectedRows
<1>10. CASE \E keys \in SUBSET Columns \ {{}} :
               \E keep \in Keeps(keys) : SmartDedup(keys, keep)
  BY <1>1, <1>10, DeduplicateFaithful, CommitKeeps DEF SmartDedup
<1>11. CASE \E col \in Columns, desc, append \in BOOLEAN :
               SortCursorColumn(col, desc, append)
  <2>1. PICK col \in Columns, desc \in BOOLEAN, append \in BOOLEAN :
           SortCursorColumn(col, desc, append)
    BY <1>11
  <2> DEFINE key == [col |-> col, desc |-> desc]
             rest == Retain(sortKeys, {k \in SortKey : k.col # col})
             keys == IF append THEN Append(rest, key) ELSE <<key>>
  <2>2. key \in SortKey
    BY DEF SortKey
  <2>3. rest \in Seq(SortKey)
    BY <1>1, RetainProperties
  <2>4. keys \in Seq(SortKey)
    <3> HIDE DEF key, rest
    <3> QED BY <2>2, <2>3, AppendProperties
  <2>5. sortKeys' = keys /\ Commit(SortByKeys(frame, keys))
    BY <2>1 DEF SortCursorColumn
  <2> HIDE DEF keys
  <2>6. Faithful(SortByKeys(frame, keys))
    BY <1>1, <2>4, SortByKeysFaithful
  <2> QED BY <2>4, <2>5, <2>6, CommitKeeps
<1>12. CASE ResetSort
  BY <1>1, <1>12, ResetOrderFaithful, CommitKeeps, EmptySeq DEF ResetSort
<1> QED BY <1>2, <1>3, <1>4, <1>5, <1>6, <1>7, <1>8, <1>9, <1>10, <1>11, <1>12
        DEF Editing

LEMMA DrawKeeps ==
  ASSUME IInv, Draw
  PROVE  IInv'
<1>1. Faithful(ComputeAggregates(frame))
  BY ComputeAggregatesFaithful DEF IInv, FaithfulFrame
<1> QED BY <1>1, MarkKeeps DEF Draw

LEMMA StepSound ==
  IInv /\ [Next]_vars => IInv'
<1> SUFFICES ASSUME IInv, [Next]_vars PROVE IInv'
  OBVIOUS
<1>1. CASE UNCHANGED vars
  BY <1>1 DEF vars, IInv, HistoryBudget
<1>2. CASE Next
  BY <1>2, MarkingKeeps, EditingKeeps, UndoKeeps, RedoKeeps, DrawKeeps DEF Next
<1> QED BY <1>1, <1>2

-----------------------------------------------------------------------------

THEOREM Soundness == Spec => []IInv
<1>1. Init => IInv
  BY InitSound
<1>2. IInv /\ [Next]_vars => IInv'
  BY StepSound
<1> QED BY <1>1, <1>2, PTL DEF Spec

(* Type correctness.                                                       *)
THEOREM TypeCorrect == Spec => []TypeOK
<1>1. IInv => TypeOK
  BY Consequences
<1> QED BY <1>1, Soundness, PTL

(* Every frame on screen or in the history has index lists that agree.     *)
THEOREM FramesStayWellFormed == Spec => []FramesWellFormed
<1>1. IInv => FramesWellFormed
  BY Consequences
<1> QED BY <1>1, Soundness, PTL

(* No mark is ever on a row that is not on screen.                         *)
THEOREM MarksStayVisible == Spec => []MarksVisible
<1>1. IInv => MarksVisible
  BY Consequences
<1> QED BY <1>1, Soundness, PTL

(* Undo and redo never hold more than MaxUndo snapshots between them.      *)
THEOREM BudgetHolds == Spec => []HistoryBudget
<1>1. IInv => HistoryBudget
  BY DEF IInv
<1> QED BY <1>1, Soundness, PTL

(* Every row of the database table is either in the sheet under its key or *)
(* written down for deletion, in the frame shown and in every frame undo   *)
(* or redo can bring back (record_deleted_rows, paste_rows, deduplicate).  *)
THEOREM KeysStayAccountedFor == Spec => []KeysAccountedFor
<1>1. IInv => KeysAccountedFor
  BY Consequences
<1> QED BY <1>1, Soundness, PTL

(* The footer may lag behind in the rows it counts, never in the values of *)
(* those rows (aggregates_cache).                                          *)
THEOREM FooterStaysCurrent == Spec => []FooterValuesCurrent
<1>1. IInv => FooterValuesCurrent
  BY Consequences
<1> QED BY <1>1, Soundness, PTL

-----------------------------------------------------------------------------
(* Undo and redo walk one line: what undo remembers, the frame shown, and  *)
(* what redo remembers, the next one first.                                *)

Line(u, x, r) == u \o <<x>> \o Reverse(r)

LEMMA ReverseProperties ==
  ASSUME NEW T, NEW r \in Seq(T)
  PROVE  /\ Reverse(r) \in Seq(T) /\ Len(Reverse(r)) = Len(r)
         /\ \A i \in 1 .. Len(r) : Reverse(r)[i] = r[Len(r) - i + 1]
<1> DEFINE n == Len(r)
<1>1. n \in Nat /\ \A i \in 1 .. n : n - i + 1 \in 1 .. n /\ r[n - i + 1] \in T
  OBVIOUS
<1>2. Reverse(r) = [i \in 1 .. n |-> r[(n - i) + 1]]
  BY DEF Reverse
<1> HIDE DEF n
<1>3. Reverse(r) \in [1 .. n -> T]
  BY <1>1, <1>2
<1>4. Reverse(r) \in Seq(T) /\ Len(Reverse(r)) = n
  BY <1>1, <1>3
<1> QED BY <1>2, <1>4 DEF n

LEMMA LineProperties ==
  ASSUME NEW T, NEW u \in Seq(T), NEW x \in T, NEW r \in Seq(T)
  PROVE  /\ Line(u, x, r) \in Seq(T)
         /\ Len(Line(u, x, r)) = Len(u) + 1 + Len(r)
         /\ \A i \in 1 .. Len(u) : Line(u, x, r)[i] = u[i]
         /\ Line(u, x, r)[Len(u) + 1] = x
<1> DEFINE v == u \o <<x>>
           w == Reverse(r)
           n == Len(u)
           m == Len(r)
<1>1. <<x>> \in Seq(T) /\ Len(<<x>>) = 1 /\ <<x>>[1] = x
  OBVIOUS
<1>2. n \in Nat /\ m \in Nat
  OBVIOUS
<1>3. /\ v \in Seq(T) /\ Len(v) = n + 1 /\ v[n + 1] = x
      /\ \A i \in 1 .. n : v[i] = u[i]
  <2>1. /\ v \in Seq(T) /\ Len(v) = n + Len(<<x>>)
        /\ \A i \in 1 .. n + Len(<<x>>) : v[i] = IF i <= n THEN u[i] ELSE <<x>>[i - n]
    BY <1>1, ConcatProperties
  <2> HIDE DEF v, n
  <2> QED BY <1>1, <1>2, <2>1
<1>4. w \in Seq(T) /\ Len(w) = m
  BY ReverseProperties
<1>5. /\ v \o w \in Seq(T) /\ Len(v \o w) = Len(v) + Len(w)
      /\ \A i \in 1 .. Len(v) + Len(w) :
            (v \o w)[i] = IF i <= Len(v) THEN v[i] ELSE w[i - Len(v)]
  <2>1. v \in Seq(T) /\ w \in Seq(T)
    BY <1>3, <1>4
  <2> HIDE DEF v, w
  <2> QED BY <2>1, ConcatProperties
<1>6. Line(u, x, r) = v \o w
  BY DEF Line
<1> HIDE DEF v, w, n, m
<1>7. \A i \in 1 .. n : i \in 1 .. (n + 1) + m /\ i <= n + 1
  BY <1>2
<1>8. n + 1 \in 1 .. (n + 1) + m /\ n + 1 <= n + 1
  BY <1>2
<1> QED BY <1>3, <1>4, <1>5, <1>6, <1>7, <1>8 DEF n, m

LEMMA LineTail ==
  ASSUME NEW T, NEW u \in Seq(T), NEW x \in T, NEW y \in T, NEW r \in Seq(T)
  PROVE  \A i \in Len(u) + 2 .. Len(u) + 1 + Len(r) : Line(u, x, r)[i] = Line(u, y, r)[i]
<1> DEFINE w == Reverse(r)
           n == Len(u)
           m == Len(r)
<1>1. n \in Nat /\ m \in Nat /\ w \in Seq(T) /\ Len(w) = m
  BY ReverseProperties
<1>2. ASSUME NEW z \in T
      PROVE  \A i \in n + 2 .. n + 1 + m : Line(u, z, r)[i] = w[i - (n + 1)]
  <2> DEFINE v == u \o <<z>>
  <2>1. <<z>> \in Seq(T) /\ Len(<<z>>) = 1
    OBVIOUS
  <2>2. v \in Seq(T) /\ Len(v) = n + 1
    BY <2>1, ConcatProperties
  <2>3. Line(u, z, r) = v \o w
    BY DEF Line
  <2>4. \A i \in 1 .. Len(v) + Len(w) :
           (v \o w)[i] = IF i <= Len(v) THEN v[i] ELSE w[i - Len(v)]
    <3>1. v \in Seq(T) /\ w \in Seq(T)
      BY <1>1, <2>2
    <3> HIDE DEF v, w
    <3> QED BY <3>1, ConcatProperties
  <2> HIDE DEF v, w, n, m
  <2>5. \A i \in n + 2 .. n + 1 + m : i \in 1 .. (n + 1) + m /\ ~(i <= n + 1)
    BY <1>1
  <2> QED BY <1>1, <2>2, <2>3, <2>4, <2>5
<1> QED BY <1>2

LEMMA PopPush ==
  ASSUME NEW T, NEW stack \in Seq(T), stack # <<>>
  PROVE  stack = Append(SubSeq(stack, 1, Len(stack) - 1), stack[Len(stack)])
<1> DEFINE n == Len(stack)
           pop == SubSeq(stack, 1, n - 1)
           back == Append(pop, stack[n])
<1>1. n \in Nat \ {0} /\ stack[n] \in T /\ pop \in Seq(T) /\ Len(pop) = n - 1
  BY PopProperties
<1>2. \A i \in 1 .. n - 1 : pop[i] = stack[i]
  <2>1. \A i \in 1 .. n - 1 : stack[i] \in T
    OBVIOUS
  <2>2. \A i \in 1 .. (n - 1) - 1 + 1 : pop[i] = stack[1 + i - 1]
    BY <1>1, <2>1, SubSeqProperties
  <2> HIDE DEF n, pop
  <2> QED BY <1>1, <2>2
<1>3. /\ back \in Seq(T) /\ Len(back) = Len(pop) + 1
      /\ \A i \in 1 .. Len(pop) : back[i] = pop[i]
      /\ back[Len(pop) + 1] = stack[n]
  <2> HIDE DEF n, pop
  <2> QED BY <1>1, AppendProperties
<1> HIDE DEF pop, back
<1>4. \A i \in 1 .. n : back[i] = stack[i]
  <2> HIDE DEF n
  <2> QED BY <1>1, <1>2, <1>3
<1>5. Len(back) = n
  <2> HIDE DEF n
  <2> QED BY <1>1, <1>3
<1>6. back = stack
  BY <1>3, <1>4, <1>5, SeqEqual
<1> QED BY <1>6 DEF back, pop

LEMMA ReverseAppend ==
  ASSUME NEW T, NEW r \in Seq(T), NEW y \in T
  PROVE  Reverse(Append(r, y)) = <<y>> \o Reverse(r)
<1> DEFINE n == Len(r)
           a == Append(r, y)
           l == Reverse(a)
           v == Reverse(r)
           w == <<y>> \o v
<1>1. /\ n \in Nat /\ a \in Seq(T) /\ Len(a) = n + 1 /\ a[n + 1] = y
      /\ \A i \in 1 .. n : a[i] = r[i]
  BY AppendProperties
<1>2. /\ v \in Seq(T) /\ Len(v) = n
      /\ \A i \in 1 .. n : v[i] = r[n - i + 1]
  BY ReverseProperties
<1>3. /\ l \in Seq(T) /\ Len(l) = n + 1
      /\ \A i \in 1 .. n + 1 : l[i] = a[(n + 1) - i + 1]
  <2> HIDE DEF a, n
  <2> QED BY <1>1, ReverseProperties
<1>4. /\ w \in Seq(T) /\ Len(w) = n + 1 /\ w[1] = y
      /\ \A i \in 2 .. n + 1 : w[i] = v[i - 1]
  <2>1. <<y>> \in Seq(T) /\ Len(<<y>>) = 1 /\ <<y>>[1] = y
    OBVIOUS
  <2> HIDE DEF n, v
  <2>2. /\ w \in Seq(T) /\ Len(w) = 1 + n
        /\ \A i \in 1 .. 1 + n : w[i] = IF i <= 1 THEN <<y>>[i] ELSE v[i - 1]
    BY <1>2, <2>1, ConcatProperties
  <2> HIDE DEF w
  <2> QED BY <1>1, <2>1, <2>2
<1> HIDE DEF n, a, l, v, w
<1>5. ASSUME NEW i \in 1 .. n + 1 PROVE l[i] = w[i]
  <2>1. CASE i = 1
    BY <1>1, <1>3, <1>4, <2>1
  <2>2. CASE i # 1
    <3>1. i \in 2 .. n + 1 /\ i - 1 \in 1 .. n /\ (n + 1) - i + 1 \in 1 .. n
          /\ n - (i - 1) + 1 = (n + 1) - i + 1
      BY <1>1, <2>2
    <3> QED BY <1>1, <1>2, <1>3, <1>4, <3>1
  <2> QED BY <2>1, <2>2
<1>6. l = w
  BY <1>3, <1>4, <1>5, SeqEqual
<1> QED BY <1>6 DEF l, w, v, a

(* Moving the mark back by one does not change the line.                   *)
LEMMA LineShift ==
  ASSUME NEW T, NEW u \in Seq(T), NEW x \in T, NEW y \in T, NEW r \in Seq(T)
  PROVE  Line(Append(u, x), y, r) = Line(u, x, Append(r, y))
<1> DEFINE v == u \o <<x>>
           w == Reverse(r)
<1>1. <<x>> \in Seq(T) /\ <<y>> \in Seq(T)
  OBVIOUS
<1>2. v \in Seq(T) /\ Append(u, x) = v
  BY <1>1, ConcatProperties, AppendIsConcat
<1>3. w \in Seq(T) /\ Reverse(Append(r, y)) = <<y>> \o w
  BY ReverseProperties, ReverseAppend
<1>4. Line(Append(u, x), y, r) = (v \o <<y>>) \o w
  BY <1>2 DEF Line
<1>5. Line(u, x, Append(r, y)) = v \o (<<y>> \o w)
  BY <1>3 DEF Line
<1> HIDE DEF v, w
<1>6. (v \o <<y>>) \o w = v \o (<<y>> \o w)
  BY <1>1, <1>2, <1>3, ConcatAssociative
<1> QED BY <1>4, <1>5, <1>6

LEMMA LineEnd ==
  ASSUME NEW T, NEW u \in Seq(T), NEW x \in T, NEW r \in Seq(T)
  PROVE  Len(r) = 0 => Line(u, x, r) = Append(u, x)
<1>1. /\ Line(u, x, r) \in Seq(T)
      /\ Len(Line(u, x, r)) = Len(u) + 1 + Len(r)
      /\ \A i \in 1 .. Len(u) : Line(u, x, r)[i] = u[i]
      /\ Line(u, x, r)[Len(u) + 1] = x
  BY LineProperties
<1> SUFFICES ASSUME Len(r) = 0 PROVE Line(u, x, r) = Append(u, x)
  OBVIOUS
<1> DEFINE l == Line(u, x, r)
           a == Append(u, x)
           n == Len(u)
<1>2. /\ a \in Seq(T) /\ Len(a) = n + 1 /\ a[n + 1] = x
      /\ \A i \in 1 .. n : a[i] = u[i]
  BY AppendProperties
<1>3. n \in Nat /\ Len(r) = 0
  OBVIOUS
<1>4. l \in Seq(T) /\ Len(l) = n + 1 + Len(r) /\ l[n + 1] = x
      /\ \A i \in 1 .. n : l[i] = u[i]
  BY <1>1
<1> HIDE DEF l, a, n
<1>5. \A i \in 1 .. n + 1 : l[i] = a[i]
  BY <1>2, <1>3, <1>4
<1>6. l = a
  BY <1>2, <1>3, <1>4, <1>5, SeqEqual
<1> QED BY <1>6 DEF l, a

(* A stretch of the line that ends at the mark.                            *)
LEMMA LineUpToMark ==
  ASSUME NEW T, NEW u \in Seq(T), NEW x \in T, NEW r \in Seq(T),
         NEW from \in {1, 2}, from <= Len(u) + 1
  PROVE  SubSeq(Line(u, x, r), from, Len(u) + 1)
            = Append(IF from = 2 THEN Tail(u) ELSE u, x)
<1>0. /\ Line(u, x, r) \in Seq(T)
      /\ Len(Line(u, x, r)) = Len(u) + 1 + Len(r)
      /\ \A i \in 1 .. Len(u) : Line(u, x, r)[i] = u[i]
      /\ Line(u, x, r)[Len(u) + 1] = x
  BY LineProperties
<1> DEFINE l == Line(u, x, r)
           n == Len(u)
           s == SubSeq(l, from, n + 1)
           t == IF from = 2 THEN Tail(u) ELSE u
           a == Append(t, x)
<1>1. /\ n \in Nat /\ Len(r) \in Nat /\ l \in Seq(T) /\ Len(l) = n + 1 + Len(r)
      /\ \A i \in 1 .. n : l[i] = u[i]
      /\ l[n + 1] = x
  <2>1. /\ l \in Seq(T) /\ Len(l) = n + 1 + Len(r)
        /\ \A i \in 1 .. n : l[i] = u[i]
        /\ l[n + 1] = x
    BY <1>0
  <2>2. n \in Nat /\ Len(r) \in Nat
    OBVIOUS
  <2> HIDE DEF l, n
  <2> QED BY <2>1, <2>2
<1>2. \A i \in from .. n + 1 : l[i] \in T
  <2> HIDE DEF l, n
  <2>1. \A i \in 1 .. n + 1 : i \in 1 .. n + 1 + Len(r)
    BY <1>1
  <2> QED BY <1>1, <2>1, ElementOfSeq
<1>3. /\ s \in Seq(T) /\ Len(s) = (n + 1) - from + 1
      /\ \A i \in 1 .. (n + 1) - from + 1 : s[i] = l[from + i - 1]
  <2> HIDE DEF l, n
  <2> QED BY <1>1, <1>2, SubSeqProperties
<1>4. /\ t \in Seq(T) /\ Len(t) = n - from + 1
      /\ \A i \in 1 .. n - from + 1 : t[i] = u[from + i - 1]
  <2>1. CASE from = 1
    BY <1>1, <2>1
  <2>2. CASE from = 2
    <3>1. u # <<>>
      BY <2>2, EmptySeq
    <3>2. /\ Tail(u) \in Seq(T) /\ Len(Tail(u)) = n - 1
          /\ \A i \in 1 .. Len(Tail(u)) : Tail(u)[i] = u[i + 1]
      BY <3>1, HeadTailProperties
    <3> HIDE DEF n
    <3> QED BY <1>1, <2>2, <3>2
  <2> QED BY <2>1, <2>2
<1>5. /\ a \in Seq(T) /\ Len(a) = Len(t) + 1 /\ a[Len(t) + 1] = x
      /\ \A i \in 1 .. Len(t) : a[i] = t[i]
  <2> HIDE DEF t
  <2> QED BY <1>4, AppendProperties
<1> HIDE DEF l, n, s, t, a
<1>6. ASSUME NEW i \in 1 .. Len(s) PROVE s[i] = a[i]
  <2>1. CASE i = Len(s)
    <3>1. from + i - 1 = n + 1 /\ i = Len(t) + 1
      BY <1>1, <1>3, <1>4, <2>1
    <3> QED BY <1>1, <1>3, <1>5, <3>1
  <2>2. CASE i # Len(s)
    <3>1. i \in 1 .. n - from + 1 /\ from + i - 1 \in 1 .. n /\ i \in 1 .. Len(t)
      BY <1>1, <1>3, <1>4, <2>2
    <3> QED BY <1>1, <1>3, <1>4, <1>5, <3>1
  <2> QED BY <2>1, <2>2
<1>7. Len(s) = Len(a)
  BY <1>1, <1>3, <1>4, <1>5
<1>8. s = a
  BY <1>3, <1>5, <1>6, <1>7, SeqEqual
<1> QED BY <1>8 DEF s, a, l, n, t

-----------------------------------------------------------------------------
(* Each command is a step of EditHistory on that line.                     *)

TimeLine == Line(undo, frame, redo)

LEMMA OnTheLine ==
  IInv => /\ undo \in Seq(FaithfulFrame) /\ redo \in Seq(FaithfulFrame)
          /\ frame \in FaithfulFrame
          /\ Len(undo) \in Nat /\ Len(redo) \in Nat /\ Len(undo) + Len(redo) <= MaxUndo
BY DEF IInv, HistoryBudget

LEMMA Push ==
  ASSUME IInv
  PROVE  /\ PushSnapshot(undo, frame) = History!Kept
         /\ PushSnapshot(undo, frame) \in Seq(FaithfulFrame)
         /\ PushSnapshot(undo, frame) # <<>>
         /\ PushSnapshot(undo, frame)[Len(PushSnapshot(undo, frame))] = frame
<1> DEFINE u == undo
           n == Len(u)
           from == IF n >= MaxUndo THEN 2 ELSE 1
           t == IF from = 2 THEN Tail(u) ELSE u
           p == PushSnapshot(u, frame)
<1>1. n \in Nat /\ n <= MaxUndo /\ u \in Seq(FaithfulFrame) /\ frame \in FaithfulFrame
      /\ redo \in Seq(FaithfulFrame)
  BY OnTheLine, MaxUndoAssumption
<1>2. from \in {1, 2} /\ from <= n + 1
  BY <1>1, MaxUndoAssumption
<1>3. p = Append(t, frame)
  BY DEF PushSnapshot
<1>4. t \in Seq(FaithfulFrame)
  <2>1. CASE n >= MaxUndo
    <3>1. u # <<>>
      BY <1>1, <2>1, MaxUndoAssumption, EmptySeq
    <3>2. Tail(u) \in Seq(FaithfulFrame)
      BY <1>1, <3>1, HeadTailProperties
    <3> QED BY <2>1, <3>2
  <2>2. CASE ~(n >= MaxUndo)
    BY <1>1, <2>2
  <2> QED BY <2>1, <2>2
<1>5. History!Kept = SubSeq(TimeLine, from, n + 1)
  <2>1. History!Kept = SubSeq(TimeLine, IF n + 1 > MaxUndo THEN (n + 1) - MaxUndo + 1 ELSE 1, n + 1)
    BY DEF History!Kept, TimeLine, Line
  <2>2. (IF n + 1 > MaxUndo THEN (n + 1) - MaxUndo + 1 ELSE 1) = from
    <3> HIDE DEF n
    <3> QED BY <1>1, MaxUndoAssumption
  <2> HIDE DEF n, from
  <2> QED BY <2>1, <2>2
<1>6. History!Kept = p
  <2> HIDE DEF p
  <2>1. SubSeq(TimeLine, from, n + 1) = Append(t, frame)
    <3>1. from <= Len(u) + 1
      BY <1>2
    <3> HIDE DEF from, u
    <3> QED BY <1>1, <1>2, <3>1, LineUpToMark DEF TimeLine, u
  <2> QED BY <1>3, <1>5, <2>1
<1>7. /\ Append(t, frame) \in Seq(FaithfulFrame) /\ Append(t, frame) # <<>>
      /\ Append(t, frame)[Len(Append(t, frame))] = frame
  <2> HIDE DEF t
  <2> QED BY <1>1, <1>4, AppendProperties
<1> HIDE DEF t
<1> QED BY <1>3, <1>6, <1>7

LEMMA CommitIsEdit ==
  ASSUME IInv, IInv', NEW f, Commit(f)
  PROVE  History!Edit
<1>1. /\ undo' = PushSnapshot(undo, frame) /\ redo' = <<>>
      /\ History!Kept = undo'
  BY Push DEF Commit
<1>2. /\ undo' \in Seq(FaithfulFrame) /\ redo' \in Seq(FaithfulFrame)
      /\ frame' \in FaithfulFrame /\ Len(redo') = 0 /\ Len(undo') \in Nat
  BY <1>1, OnTheLine, EmptySeq DEF IInv
<1>3. TimeLine' = Append(undo', frame')
  <2>1. TimeLine' = Line(undo', frame', redo')
    BY DEF TimeLine
  <2> QED BY <1>2, <2>1, LineEnd
<1> DEFINE u == undo'
           x == frame'
           a == Append(u, x)
<1>4. /\ a \in Seq(FaithfulFrame) /\ Len(a) = Len(u) + 1
      /\ \A i \in 1 .. Len(u) : a[i] = u[i]
  BY <1>2, AppendProperties
<1>5. SubSeq(a, 1, Len(u)) = u
  <2> DEFINE s == SubSeq(a, 1, Len(u))
  <2>1. \A i \in 1 .. Len(u) : a[i] \in FaithfulFrame
    BY <1>2, <1>4
  <2>2. /\ s \in Seq(FaithfulFrame)
        /\ Len(s) = IF 1 <= Len(u) THEN Len(u) - 1 + 1 ELSE 0
        /\ \A i \in 1 .. Len(u) - 1 + 1 : s[i] = a[1 + i - 1]
    <3> HIDE DEF a, u
    <3>1. Len(u) \in Int
      BY <1>2 DEF u
    <3> QED BY <2>1, <3>1, SubSeqProperties
  <2> HIDE DEF s, a
  <2>3. Len(s) = Len(u) /\ \A i \in 1 .. Len(s) : s[i] = u[i]
    BY <1>2, <1>4, <2>2
  <2>4. s = u
    BY <1>2, <2>2, <2>3, SeqEqual
  <2> QED BY <2>4 DEF s
<1>6. (Len(undo) + 1)' = Len(u) + 1
  OBVIOUS
<1>7. (undo \o <<frame>> \o Reverse(redo))' = a
  BY <1>3 DEF TimeLine, Line
<1> HIDE DEF a
<1>8. Len(a) = Len(u) + 1 /\ SubSeq(a, 1, (Len(u) + 1) - 1) = u
  BY <1>2, <1>4, <1>5
<1> QED BY <1>1, <1>6, <1>7, <1>8 DEF History!Edit

LEMMA RefuseIsRefused ==
  ASSUME IInv, IInv', Refuse
  PROVE  History!Refused
<1> DEFINE p == PushSnapshot(undo, frame)
<1>1. /\ undo' = SubSeq(p, 1, Len(p) - 1) /\ redo' = <<>> /\ frame' = frame
      /\ p = History!Kept /\ p \in Seq(FaithfulFrame) /\ p # <<>> /\ p[Len(p)] = frame
  BY Push DEF Refuse
<1> HIDE DEF p
<1>2. /\ undo' \in Seq(FaithfulFrame) /\ redo' \in Seq(FaithfulFrame)
      /\ frame' \in FaithfulFrame /\ Len(redo') = 0 /\ Len(undo') \in Nat
  BY <1>1, OnTheLine, EmptySeq DEF IInv
<1>3. p = Append(undo', frame')
  BY <1>1, PopPush
<1>4. TimeLine' = p
  <2>1. TimeLine' = Line(undo', frame', redo')
    BY DEF TimeLine
  <2> QED BY <1>2, <1>3, <2>1, LineEnd
<1>5. (undo \o <<frame>> \o Reverse(redo))' = p
  BY <1>4 DEF TimeLine, Line
<1>6. (Len(undo) + 1)' = Len(p)
  BY <1>1, PopProperties
<1> QED BY <1>1, <1>5, <1>6 DEF History!Refused

LEMMA MarkIsTouch ==
  ASSUME IInv, IInv', NEW f, Mark(f)
  PROVE  History!Touch
<1>1. /\ undo \in Seq(FaithfulFrame) /\ redo \in Seq(FaithfulFrame)
      /\ frame \in FaithfulFrame /\ frame' \in FaithfulFrame
  BY OnTheLine DEF Mark, IInv
<1>2. ASSUME NEW x \in FaithfulFrame
      PROVE  /\ Line(undo, x, redo) \in Seq(FaithfulFrame)
             /\ Len(Line(undo, x, redo)) = Len(undo) + 1 + Len(redo)
             /\ \A i \in 1 .. Len(undo) : Line(undo, x, redo)[i] = undo[i]
             /\ Line(undo, x, redo)[Len(undo) + 1] = x
  BY <1>1, LineProperties
<1> DEFINE n == Len(undo)
           l == Line(undo, frame, redo)
           m == Line(undo, frame', redo)
           e == [l EXCEPT ![n + 1] = frame']
<1>3. /\ undo \in Seq(FaithfulFrame) /\ redo \in Seq(FaithfulFrame)
      /\ frame \in FaithfulFrame /\ frame' \in FaithfulFrame
      /\ undo' = undo /\ redo' = redo
      /\ n \in Nat /\ Len(redo) \in Nat
  BY OnTheLine DEF Mark, IInv
<1>4. /\ l \in Seq(FaithfulFrame) /\ Len(l) = n + 1 + Len(redo)
      /\ \A i \in 1 .. n : l[i] = undo[i]
  BY <1>1, <1>2
<1>5. /\ m \in Seq(FaithfulFrame) /\ Len(m) = n + 1 + Len(redo) /\ m[n + 1] = frame'
      /\ \A i \in 1 .. n : m[i] = undo[i]
  BY <1>1, <1>2
<1>6. ASSUME NEW i \in n + 2 .. n + 1 + Len(redo) PROVE m[i] = l[i]
  BY <1>3, LineTail
<1> HIDE DEF n, l, m
<1>7. n + 1 \in 1 .. Len(l)
  BY <1>3, <1>4
<1>8. /\ e \in Seq(FaithfulFrame) /\ Len(e) = Len(l)
      /\ \A j \in 1 .. Len(l) : e[j] = IF j = n + 1 THEN frame' ELSE l[j]
  BY <1>3, <1>4, <1>7, ExceptSeq
<1> HIDE DEF e
<1>9. ASSUME NEW j \in 1 .. Len(m) PROVE m[j] = e[j]
  <2>1. CASE j \in 1 .. n
    BY <1>3, <1>4, <1>5, <1>8, <2>1
  <2>2. CASE j = n + 1
    BY <1>3, <1>4, <1>5, <1>8, <2>2
  <2>3. CASE j \in n + 2 .. n + 1 + Len(redo)
    BY <1>3, <1>4, <1>6, <1>8, <2>3
  <2> QED BY <1>3, <1>5, <2>1, <2>2, <2>3
<1>10. m = e
  BY <1>4, <1>5, <1>8, <1>9, SeqEqual
<1>11. /\ (undo \o <<frame>> \o Reverse(redo))' = m
       /\ undo \o <<frame>> \o Reverse(redo) = l
       /\ (Len(undo) + 1)' = n + 1 /\ Len(undo) + 1 = n + 1
  BY <1>3 DEF l, m, n, Line
<1>12. m[n + 1] \in {m[n + 1]} /\ m = [l EXCEPT ![n + 1] = m[n + 1]]
  BY <1>5, <1>10 DEF e
<1> QED BY <1>11, <1>12 DEF History!Touch

LEMMA UndoIsUndo ==
  ASSUME IInv, IInv', Undo
  PROVE  History!Undo
<1>1. /\ undo \in Seq(FaithfulFrame) /\ redo \in Seq(FaithfulFrame)
      /\ frame \in FaithfulFrame /\ frame' \in FaithfulFrame
      /\ undo' \in Seq(FaithfulFrame) /\ redo' \in Seq(FaithfulFrame)
      /\ Len(undo) \in Nat /\ Len(redo) \in Nat /\ Len(undo) + Len(redo) <= MaxUndo
      /\ undo # <<>>
  BY OnTheLine DEF Undo, IInv
<1>2. Len(undo) \in Nat \ {0} /\ Len(undo') = Len(undo) - 1
  BY <1>1, PopProperties DEF Undo
<1>3. undo = Append(undo', frame')
  BY <1>1, PopPush DEF Undo
<1>4. redo' = Append(redo, frame)
  <2>1. ~(Len(redo) >= MaxUndo)
    BY <1>1, <1>2, MaxUndoAssumption
  <2> QED BY <2>1 DEF Undo, PushSnapshot
<1>5. Line(undo', frame', redo') = Line(undo, frame, redo)
  BY <1>1, <1>3, <1>4, LineShift
<1>6. (undo \o <<frame>> \o Reverse(redo))' = undo \o <<frame>> \o Reverse(redo)
  BY <1>5 DEF Line
<1>7. Len(undo) + 1 > 1 /\ (Len(undo) + 1)' = (Len(undo) + 1) - 1
  BY <1>2
<1> QED BY <1>6, <1>7 DEF History!Undo

LEMMA RedoIsRedo ==
  ASSUME IInv, IInv', Redo
  PROVE  History!Redo
<1>1. /\ undo \in Seq(FaithfulFrame) /\ redo \in Seq(FaithfulFrame)
      /\ frame \in FaithfulFrame /\ frame' \in FaithfulFrame
      /\ undo' \in Seq(FaithfulFrame) /\ redo' \in Seq(FaithfulFrame)
      /\ Len(undo) \in Nat /\ Len(redo) \in Nat /\ Len(undo) + Len(redo) <= MaxUndo
      /\ redo # <<>>
  BY OnTheLine DEF Redo, IInv
<1>2. Len(redo) \in Nat \ {0} /\ Len(redo') = Len(redo) - 1
  BY <1>1, PopProperties DEF Redo
<1>3. redo = Append(redo', frame')
  BY <1>1, PopPush DEF Redo
<1>4. undo' = Append(undo, frame)
  <2>1. ~(Len(undo) >= MaxUndo)
    BY <1>1, <1>2, MaxUndoAssumption
  <2> QED BY <2>1 DEF Redo, PushSnapshot
<1>5. Line(undo', frame', redo') = Line(undo, frame, redo)
  BY <1>1, <1>3, <1>4, LineShift
<1>6. (undo \o <<frame>> \o Reverse(redo))' = undo \o <<frame>> \o Reverse(redo)
  BY <1>5 DEF Line
<1>7. /\ Len(undo') = Len(undo) + 1
      /\ Len(Line(undo, frame, redo)) = Len(undo) + 1 + Len(redo)
  BY <1>1, <1>4, AppendProperties, LineProperties
<1>8. /\ Len(undo) + 1 < Len(undo \o <<frame>> \o Reverse(redo))
      /\ (Len(undo) + 1)' = (Len(undo) + 1) + 1
  BY <1>1, <1>2, <1>7 DEF Line
<1> QED BY <1>6, <1>8 DEF History!Redo

LEMMA StepIsHistory ==
  IInv /\ IInv' /\ [Next]_vars => [History!Next]_(History!vars)
<1> SUFFICES ASSUME IInv, IInv', [Next]_vars PROVE [History!Next]_(History!vars)
  OBVIOUS
<1>1. CASE UNCHANGED vars
  BY <1>1 DEF vars, History!vars
<1>2. CASE Marking
  <2>1. \E f : Mark(f)
    BY <1>2 DEF Marking, SelectRow, UnselectRow, SelectAllRows, UnselectAllRows,
        ToggleAllSelection, SelectByValue, SelectByRegex, ApplySelectRandom,
        SelectDuplicates, Select
  <2> QED BY <2>1, MarkIsTouch DEF History!Next
<1>3. CASE Editing
  <2>1. Refuse \/ \E f : Commit(f)
    BY <1>3 DEF Editing, ApplyEdit, ApplyBulkEdit, AddEmptyRow, ApplyRowForm,
        RowFormRefused, Paste, PasteRefused, DeleteSelectedRows, SmartDedup,
        SortCursorColumn, ResetSort
  <2> QED BY <2>1, CommitIsEdit, RefuseIsRefused DEF History!Next
<1>4. CASE Undo
  BY <1>4, UndoIsUndo DEF History!Next
<1>5. CASE Redo
  BY <1>5, RedoIsRedo DEF History!Next
<1>6. CASE Draw
  BY <1>6, MarkIsTouch DEF Draw, History!Next
<1> QED BY <1>1, <1>2, <1>3, <1>4, <1>5, <1>6 DEF Next

(* Undo and redo bring back exactly what was there: every command, refused *)
(* or not, is one step along a single line of remembered tables            *)
(* (push_undo, pop_undo, pop_redo).                                        *)
THEOREM HistoryIsOneLine == Spec => ImplementsEditHistory
<1>1. Init => History!Init
  <2> SUFFICES ASSUME Init PROVE History!Init
    OBVIOUS
  <2>1. /\ undo \in Seq(FaithfulFrame) /\ redo \in Seq(FaithfulFrame)
        /\ frame \in FaithfulFrame
    BY InitSound DEF IInv
  <2>2. Len(Line(undo, frame, redo)) = Len(undo) + 1 + Len(redo)
    BY <2>1, LineProperties
  <2>3. Len(undo) = 0 /\ Len(redo) = 0
    BY EmptySeq DEF Init
  <2> QED BY <2>2, <2>3 DEF Line, History!Init
<1>2. IInv /\ IInv' /\ [Next]_vars => [History!Next]_(History!vars)
  BY StepIsHistory
<1> QED BY <1>1, <1>2, Soundness, PTL DEF Spec, ImplementsEditHistory, History!Spec

-----------------------------------------------------------------------------
(* What sorting and dropping duplicates leave on screen.                   *)

LEMMA PositionOf ==
  ASSUME NEW f, Sound(f), NEW i \in DOMAIN f.rowOrder
  PROVE  Position(f, f.rowOrder[i]) = i
<1>1. \A j \in DOMAIN f.rowOrder : f.rowOrder[j] = f.rowOrder[i] => j = i
  BY SoundParts DEF DupFree
<1> QED BY <1>1 DEF Position

LEMMA SortedFollows ==
  ASSUME NEW f, Sound(f), NEW keys \in Seq(SortKey)
  PROVE  FollowsMarkers(SortByKeys(f, keys), keys, f)
<1> DEFINE n == Len(f.rowOrder)
           D == DOMAIN f.rowOrder
           R == SortsBefore(f, keys)
           order == InOrder(D, R)
           g == SortByKeys(f, keys)
<1>1. /\ f \in Frame /\ f.rows \in Seq(Row) /\ D = 1 .. n /\ n \in Nat
      /\ f.rowOrder \in Seq(Nat) /\ \A i \in D : f.rowOrder[i] \in DOMAIN f.rows
  <2>1. Physical(f) = DOMAIN f.rows
    BY SoundParts, FrameParts DEF Physical
  <2> QED BY <2>1, SoundParts, FrameParts, InRange
<1>2. g.rows = f.rows /\ g.rowOrder = [k \in D |-> f.rowOrder[order[k]]]
  BY <1>1 DEF SortByKeys, Frame
<1>3. IsFiniteSet(D) /\ Cardinality(D) = n /\ StrictTotalOrder(R, D)
  BY <1>1, FS_Interval, SortsBeforeIsOrder
<1>4. \A k \in D : order[k] \in D
  <2>1. order \in Bijection(1 .. n, 1 .. n)
    BY SortedBijection
  <2> HIDE DEF order, n
  <2> QED BY <1>1, <2>1, ListingFacts
<1>5. \A i, j \in D : i < j => <<order[i], order[j]>> \in R
  <2> HIDE DEF R, D
  <2> QED BY <1>1, <1>3, InOrderAscends
<1>6. DOMAIN g.rowOrder = D /\ \A k \in D : g.rowOrder[k] = f.rowOrder[order[k]]
  BY <1>2
<1> HIDE DEF order, g
<1> SUFFICES ASSUME NEW i \in DOMAIN g.rowOrder, NEW j \in DOMAIN g.rowOrder, i < j
             PROVE  LET a == g.rows[g.rowOrder[i]]
                        b == g.rows[g.rowOrder[j]]
                        apart == {m \in DOMAIN keys : a[keys[m].col] # b[keys[m].col]}
                    IN  IF apart = {}
                        THEN Position(f, g.rowOrder[i]) < Position(f, g.rowOrder[j])
                        ELSE LET key == keys[Min(apart)]
                                 x == a[key.col]
                                 y == b[key.col]
                             IN  x # Null /\ (y # Null => IF key.desc THEN x > y ELSE x < y)
  BY DEF FollowsMarkers, g
<1> DEFINE p == order[i]
           q == order[j]
           a == g.rows[g.rowOrder[i]]
           b == g.rows[g.rowOrder[j]]
           N == Len(keys)
           x(m) == a[keys[m].col]
           y(m) == b[keys[m].col]
           apart == {m \in DOMAIN keys : x(m) # y(m)}
<1>7. a = f.rows[f.rowOrder[p]] /\ b = f.rows[f.rowOrder[q]] /\ i \in D /\ j \in D
       /\ g.rowOrder[i] = f.rowOrder[p] /\ g.rowOrder[j] = f.rowOrder[q]
  BY <1>2, <1>6
<1> HIDE DEF a, b
<1>8. p \in D /\ q \in D /\ <<p, q>> \in R
  BY <1>4, <1>5, <1>7
<1>9. DOMAIN keys = 1 .. N /\ N \in Nat
  OBVIOUS
<1>10. \A m \in 1 .. N : x(m) \in Nat /\ y(m) \in Nat
  <2> TAKE m \in 1 .. N
  <2>1. a \in Row /\ b \in Row
    <3>1. \A k \in DOMAIN f.rows : f.rows[k] \in Row
      BY <1>1
    <3>2. f.rowOrder[p] \in DOMAIN f.rows /\ f.rowOrder[q] \in DOMAIN f.rows
      BY <1>1, <1>8
    <3> HIDE DEF p, q
    <3> QED BY <1>7, <3>1, <3>2
  <2>2. keys[m] \in SortKey
    BY <1>9
  <2>3. keys[m].col \in Columns
    BY <2>2 DEF SortKey
  <2>4. Values \cup {Null} \subseteq Nat
    BY ValuesAssumption DEF Null
  <2> QED BY <2>1, <2>3, <2>4 DEF Row
<1>11. \/ \E m \in 1 .. N : (\A l \in 1 .. m - 1 : x(l) = y(l)) /\ KeyBefore(keys[m], a, b)
       \/ (\A l \in 1 .. N : x(l) = y(l)) /\ p < q
  BY <1>8, <1>9, <1>7 DEF SortsBefore
<1>12. \A m \in 1 .. N : KeyBefore(keys[m], a, b) =>
          /\ x(m) # Null
          /\ y(m) # Null => IF keys[m].desc THEN x(m) > y(m) ELSE x(m) < y(m)
          /\ x(m) # y(m)
  <2> SUFFICES ASSUME NEW m \in 1 .. N, KeyBefore(keys[m], a, b)
               PROVE  /\ x(m) # Null
                      /\ y(m) # Null => IF keys[m].desc THEN x(m) > y(m) ELSE x(m) < y(m)
                      /\ x(m) # y(m)
    OBVIOUS
  <2>1. /\ x(m) # Null
        /\ y(m) = Null \/ IF keys[m].desc THEN x(m) > y(m) ELSE x(m) < y(m)
    BY DEF KeyBefore
  <2>2. x(m) \in Nat /\ y(m) \in Nat
    BY <1>10
  <2> HIDE DEF x, y
  <2> QED BY <2>1, <2>2
<1>13. Position(f, g.rowOrder[i]) = p /\ Position(f, g.rowOrder[j]) = q
  BY <1>8, <1>7, PositionOf
<1> HIDE DEF x, y
<1>14. CASE apart = {}
  <2>1. p < q
    BY <1>9, <1>11, <1>12, <1>14
  <2> QED BY <1>13, <1>14, <2>1 DEF x, y, a, b
<1>15. CASE apart # {}
  <2>1. PICK m \in 1 .. N : (\A l \in 1 .. m - 1 : x(l) = y(l)) /\ KeyBefore(keys[m], a, b)
    BY <1>9, <1>11, <1>15
  <2>2. m \in apart /\ \A l \in apart : m <= l
    BY <1>9, <1>12, <2>1
  <2>3. Min(apart) = m
    <3>1. \A l \in apart : (\A k \in apart : l <= k) => l = m
      BY <1>9, <2>2
    <3> HIDE DEF apart
    <3> QED BY <2>2, <3>1 DEF Min
  <2>4. x(m) # Null /\ (y(m) # Null => IF keys[m].desc THEN x(m) > y(m) ELSE x(m) < y(m))
    BY <1>12, <2>1
  <2> QED BY <1>15, <2>3, <2>4 DEF x, y, a, b
<1> QED BY <1>14, <1>15

(* A sort leaves the rows as the markers in the header say, the first one  *)
(* deciding, NULLs last either way, ties as they were (sort_by_keys).      *)
THEOREM SortsAsMarked == Spec => SortFollowsMarkers
<1>1. ASSUME IInv, NEW col \in Columns, NEW desc \in BOOLEAN, NEW append \in BOOLEAN,
             SortCursorColumn(col, desc, append)
      PROVE  FollowsMarkers(frame', sortKeys', frame)
  <2>1. Sound(frame) /\ sortKeys \in Seq(SortKey)
    BY <1>1 DEF IInv, FaithfulFrame, Faithful
  <2>2. sortKeys' \in Seq(SortKey) /\ frame' = SortByKeys(frame, sortKeys')
    <3> DEFINE key == [col |-> col, desc |-> desc]
               rest == Retain(sortKeys, {k \in SortKey : k.col # col})
    <3>1. key \in SortKey /\ rest \in Seq(SortKey)
      BY <2>1, RetainProperties DEF SortKey
    <3>2. sortKeys' = (IF append THEN Append(rest, key) ELSE <<key>>)
          /\ frame' = SortByKeys(frame, sortKeys')
      BY <1>1 DEF SortCursorColumn, Commit
    <3> HIDE DEF key, rest
    <3> QED BY <3>1, <3>2, AppendProperties
  <2> QED BY <2>1, <2>2, SortedFollows
<1>2. ASSUME IInv, [Next]_vars
      PROVE  [ \A col \in Columns, desc, append \in BOOLEAN :
                  SortCursorColumn(col, desc, append) =>
                      FollowsMarkers(frame', sortKeys', frame) ]_vars
  BY <1>1, <1>2
<1> QED BY <1>2, Soundness, PTL DEF Spec, SortFollowsMarkers

(* Dropping duplicates leaves one row of every combination of key cells,   *)
(* and the rows that stay do not change places (smart_dedup_with_keys).    *)
THEOREM DedupLeavesOne == Spec => DedupKeepsOneOfEach
<1>1. ASSUME IInv, NEW keys, NEW keep, SmartDedup(keys, keep)
      PROVE  /\ \A p \in Visible(frame) :
                   Cardinality(Group(frame, keys, p) \cap Visible(frame')) = 1
             /\ \A i, j \in DOMAIN frame'.rowOrder : i < j =>
                   Position(frame, frame'.rowOrder[i])
                       < Position(frame, frame'.rowOrder[j])
  <2>1. PICK kept \in Keepers(frame, keys, keep) : frame' = Deduplicate(frame, kept)
    BY <1>1 DEF SmartDedup, Commit
  <2> DEFINE s == frame.rowOrder
             r == Retain(s, kept)
  <2>2. Sound(frame) /\ frame \in Frame /\ s \in Seq(Nat)
    BY <1>1, SoundParts, FrameParts DEF IInv, FaithfulFrame, Faithful
  <2>3. frame'.rowOrder = r
    BY <2>1, <2>2 DEF Deduplicate, Frame
  <2>4. PICK from \in [DOMAIN r -> DOMAIN s] :
           /\ \A k \in DOMAIN r : r[k] = s[from[k]]
           /\ \A k, m \in DOMAIN r : k < m => from[k] < from[m]
    BY <2>2, RetainProperties
  <2>5. Range(r) = Range(s) \cap kept
    BY <2>2, RetainProperties
  <2> HIDE DEF r
  <2>6. Visible(frame') = kept
    BY <2>1, <2>3, <2>5 DEF Visible, Keepers
  <2>7. \A p \in Visible(frame) : Cardinality(kept \cap Group(frame, keys, p)) = 1
    BY <2>1 DEF Keepers
  <2>8. \A p : Group(frame, keys, p) \cap kept = kept \cap Group(frame, keys, p)
    OBVIOUS
  <2>9. \A k \in DOMAIN r : Position(frame, r[k]) = from[k]
    BY <2>2, <2>4, PositionOf
  <2> QED BY <2>3, <2>4, <2>6, <2>7, <2>8, <2>9
<1>2. ASSUME IInv, [Next]_vars
      PROVE  [ \A keys \in SUBSET Columns \ {{}} :
                  (\E keep \in Keeps(keys) : SmartDedup(keys, keep)) =>
                  /\ \A p \in Visible(frame) :
                        Cardinality(Group(frame, keys, p) \cap Visible(frame')) = 1
                  /\ \A i, j \in DOMAIN frame'.rowOrder : i < j =>
                        Position(frame, frame'.rowOrder[i])
                            < Position(frame, frame'.rowOrder[j]) ]_vars
  BY <1>1, <1>2
<1> QED BY <1>2, Soundness, PTL DEF Spec, DedupKeepsOneOfEach
=============================================================================
