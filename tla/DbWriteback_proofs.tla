------------------------- MODULE DbWriteback_proofs -------------------------
(***************************************************************************)
(* Whatever the table, however many sheets show it and whenever another    *)
(* program writes to it: a save changes no row but as this sheet read it.  *)
(***************************************************************************)
EXTENDS DbWriteback, Orders_proofs

(* The statements are worked out from base and deleted, the check from     *)
(* base alone, so what has to be known of a sheet is that the two agree:   *)
(* the rows with a key are the ones that were read, no two of them share   *)
(* one, and a key written down for deletion is the key of one of them.     *)
Tied(s) ==
    /\ WellFormed(s.frame)
    /\ s.frame.selected \subseteq Physical(s.frame)
    /\ Range(s.frame.ids) \subseteq Keys \cup {NoKey}
    /\ Len(s.added) = Len(s.frame.rows)
    /\ Len(s.base) <= Len(s.frame.rows)
    /\ \A p \in Physical(s.frame) :
          /\ s.frame.ids[p] = NoKey <=> s.added[p] # 0
          /\ s.frame.ids[p] # NoKey <=> p \in DOMAIN s.base
    /\ \A p, q \in DOMAIN s.base : s.frame.ids[p] = s.frame.ids[q] => p = q
    /\ \A k \in s.frame.deleted :
          \E p \in DOMAIN s.base : s.frame.ids[p] = k

TiedSheet == {s \in Sheet : Tied(s)}

IInv ==
    /\ DOMAIN table \subseteq Keys /\ Range(table) \subseteq Row
    /\ sheets \in Seq(TiedSheet) /\ Len(sheets) \in 1 .. MaxDepth
    /\ mode \in {"Normal", "Saving", "SqlConfirm", "Reload"}
    /\ plan = IF mode = "SqlConfirm" THEN BuildPlan(Active) ELSE NoPlan
    /\ landed \in Seq(Nat)
    /\ edits \in 0 .. MaxEdits /\ writes \in 0 .. MaxWrites

-----------------------------------------------------------------------------
(* Sheets and what is in them.                                             *)

LEMMA FrameParts ==
  ASSUME NEW f \in Frame
  PROVE  /\ f.rows \in Seq(Row) /\ Len(f.rows) \in Nat
         /\ f.rowOrder \in Seq(Nat) /\ f.originalOrder \in Seq(Nat)
         /\ f.selected \in SUBSET Nat /\ f.ids \in Seq(Nat)
         /\ f.deleted \in SUBSET Nat
BY DEF Frame

LEMMA TiedParts ==
  ASSUME NEW s \in TiedSheet
  PROVE  /\ s \in Sheet /\ Tied(s)
         /\ s.frame \in Frame
         /\ s.frame.rows \in Seq(Row) /\ Len(s.frame.rows) \in Nat
         /\ s.frame.ids \in Seq(Nat) /\ Len(s.frame.ids) = Len(s.frame.rows)
         /\ s.frame.rowOrder \in Seq(Nat) /\ s.frame.originalOrder \in Seq(Nat)
         /\ Visible(s.frame) \subseteq Physical(s.frame)
         /\ Physical(s.frame) = 1 .. Len(s.frame.rows)
         /\ s.base \in Seq(Row) /\ Len(s.base) \in Nat
         /\ DOMAIN s.base \subseteq Physical(s.frame)
         /\ s.added \in Seq(Nat) /\ s.gone \in SUBSET Nat
<1>1. s \in Sheet /\ Tied(s)
  BY DEF TiedSheet
<1>2. s.frame \in Frame /\ s.base \in Seq(Row) /\ s.added \in Seq(Nat) /\ s.gone \in SUBSET Nat
  BY <1>1 DEF Sheet
<1>3. /\ s.frame.rows \in Seq(Row) /\ Len(s.frame.rows) \in Nat
      /\ s.frame.ids \in Seq(Nat)
      /\ s.frame.rowOrder \in Seq(Nat) /\ s.frame.originalOrder \in Seq(Nat)
  BY <1>2, FrameParts
<1>4. Len(s.frame.ids) = Len(s.frame.rows) /\ OrderOK(s.frame, s.frame.rowOrder)
  BY <1>1 DEF Tied, WellFormed
<1>5. Visible(s.frame) \subseteq Physical(s.frame)
  BY <1>4, InRange DEF OrderOK, Visible
<1>6. Len(s.base) \in Nat /\ DOMAIN s.base \subseteq Physical(s.frame)
  BY <1>1, <1>2, <1>3 DEF Tied, Physical
<1> QED BY <1>1, <1>2, <1>3, <1>4, <1>5, <1>6 DEF Physical

\* The keys of the rows that were read.
LEMMA ReadKeys ==
  ASSUME NEW s \in TiedSheet
  PROVE  /\ \A p \in DOMAIN s.base : s.frame.ids[p] \in Keys /\ s.frame.ids[p] # NoKey
         /\ s.frame.deleted \subseteq Keys
<1>1. /\ DOMAIN s.frame.ids = Physical(s.frame) /\ DOMAIN s.base \subseteq Physical(s.frame)
  BY TiedParts
<1>2. \A p \in DOMAIN s.base : s.frame.ids[p] \in Range(s.frame.ids) /\ s.frame.ids[p] # NoKey
  BY <1>1, TiedParts, InRange DEF Tied
<1>3. \A p \in DOMAIN s.base : s.frame.ids[p] \in Keys /\ s.frame.ids[p] # NoKey
  BY <1>2, TiedParts DEF Tied
<1> QED BY <1>3, TiedParts DEF Tied

\* What ByKey gives to a key belongs to a row with that key that was read.
LEMMA ByKeyFrom ==
  ASSUME NEW s \in TiedSheet, NEW P, P \subseteq DOMAIN s.base, NEW F,
         NEW k \in DOMAIN ByKey(s, P, F)
  PROVE  \E p \in DOMAIN s.base :
             s.frame.ids[p] = k /\ ByKey(s, P, F)[k] = F[p]
<1> DEFINE D == {s.frame.ids[p] : p \in P}
           at == CHOOSE p \in DOMAIN s.base : s.frame.ids[p] = k
<1>1. k \in D /\ ByKey(s, P, F)[k] = F[at]
  BY DEF ByKey
<1>2. at \in DOMAIN s.base /\ s.frame.ids[at] = k
  <2>1. \E p \in DOMAIN s.base : s.frame.ids[p] = k
    BY <1>1
  <2> QED BY <2>1
<1> QED BY <1>1, <1>2

LEMMA ByKeyType ==
  ASSUME NEW s \in TiedSheet, NEW P \in SUBSET DOMAIN s.base, NEW F,
         \A p \in DOMAIN s.base : F[p] \in Row
  PROVE  ByKey(s, P, F) \in UNION {[K -> Row] : K \in SUBSET Keys}
<1> DEFINE D == {s.frame.ids[p] : p \in P}
           b == ByKey(s, P, F)
<1>1. D \subseteq Keys
  BY ReadKeys
<1>2. DOMAIN b = D
  BY DEF ByKey
<1>3. \A k \in DOMAIN b : \E p \in DOMAIN s.base : b[k] = F[p]
  BY ByKeyFrom
<1>4. b = [k \in DOMAIN b |-> b[k]]
  BY DEF ByKey
<1> HIDE DEF D, b
<1>5. b \in [D -> Row]
  BY <1>2, <1>3, <1>4
<1> QED BY <1>1, <1>5 DEF b

LEMMA UnsavedListed ==
  ASSUME NEW s \in TiedSheet
  PROVE  LET new == InOrder(Unsaved(s), Ascending(Unsaved(s))) IN
         /\ DOMAIN new = 1 .. Cardinality(Unsaved(s))
         /\ Cardinality(Unsaved(s)) \in Nat
         /\ \A i \in DOMAIN new : new[i] \in Unsaved(s)
         /\ \A p \in Unsaved(s) : \E i \in DOMAIN new : new[i] = p
         /\ \A i, j \in DOMAIN new : new[i] = new[j] => i = j
<1> DEFINE U == Unsaved(s)
           new == InOrder(U, Ascending(U))
           n == Cardinality(U)
<1>1. U \in SUBSET (1 .. Len(s.frame.rows)) /\ U \in SUBSET Int
  BY TiedParts DEF Unsaved
<1>2. IsFiniteSet(U) /\ n \in Nat
  <2>1. IsFiniteSet(1 .. Len(s.frame.rows))
    BY TiedParts, FS_Interval
  <2> HIDE DEF U
  <2> QED BY <1>1, <2>1, FS_Subset, FS_CardinalityType
<1> HIDE DEF U
<1>3. StrictTotalOrder(Ascending(U), U)
  BY <1>1, AscendingIsOrder
<1>4. new \in Bijection(1 .. n, U)
  BY <1>2, <1>3, InOrderBijection
<1>5. DOMAIN new = 1 .. n
  BY DEF InOrder
<1> HIDE DEF new, n
<1>6. /\ \A i \in 1 .. n : new[i] \in U
      /\ \A p \in U : \E i \in 1 .. n : new[i] = p
      /\ \A i, j \in 1 .. n : new[i] = new[j] => i = j
  BY <1>4, ListingFacts
<1> QED BY <1>2, <1>5, <1>6 DEF U, new, n

LEMMA BuildPlanType ==
  ASSUME NEW s \in TiedSheet
  PROVE  BuildPlan(s) \in Plans /\ BuildPlan(s) # NoPlan
<1> DEFINE doomed == {p \in DOMAIN s.base : s.frame.ids[p] \in s.frame.deleted}
           new == InOrder(Unsaved(s), Ascending(Unsaved(s)))
           sets == ByKey(s, Changed(s), s.frame.rows)
           checks == ByKey(s, Changed(s) \cup doomed, s.base)
           inserts == [i \in DOMAIN new |-> <<s.added[new[i]], s.frame.rows[new[i]]>>]
<1>1. BuildPlan(s) = [ sets |-> sets, inserts |-> inserts,
                       deletes |-> s.frame.deleted, checks |-> checks ]
  BY DEF BuildPlan
<1>2. /\ Changed(s) \in SUBSET DOMAIN s.base
      /\ Changed(s) \cup doomed \in SUBSET DOMAIN s.base
  BY DEF Changed
<1>3. \A p \in DOMAIN s.base : s.frame.rows[p] \in Row /\ s.base[p] \in Row
  BY TiedParts
<1>4. sets \in UNION {[K -> Row] : K \in SUBSET Keys}
  BY <1>2, <1>3, ByKeyType
<1>5. checks \in UNION {[K -> Row] : K \in SUBSET Keys}
  BY <1>2, <1>3, ByKeyType
<1>6. inserts \in Seq(Nat \X Row)
  <2> DEFINE n == Cardinality(Unsaved(s))
  <2>1. DOMAIN new = 1 .. n /\ n \in Nat /\ \A i \in 1 .. n : new[i] \in Physical(s.frame)
    BY UnsavedListed DEF Unsaved
  <2>2. \A p \in Physical(s.frame) : s.added[p] \in Nat /\ s.frame.rows[p] \in Row
    BY TiedParts DEF Tied
  <2> HIDE DEF n, new
  <2> QED BY <2>1, <2>2
<1>7. s.frame.deleted \in SUBSET Keys
  BY ReadKeys
<1> HIDE DEF sets, inserts, checks
<1>8. BuildPlan(s) \in Plans
  BY <1>1, <1>4, <1>5, <1>6, <1>7 DEF Plans
<1>9. "sets" \in DOMAIN BuildPlan(s) /\ "sets" \notin DOMAIN NoPlan
  BY <1>1 DEF NoPlan
<1> QED BY <1>8, <1>9

-----------------------------------------------------------------------------
(* What the invariant says.                                                *)

LEMMA ActiveTied ==
  ASSUME IInv
  PROVE  /\ Active \in TiedSheet
         /\ Len(sheets) \in Nat \ {0}
         /\ \A i \in 1 .. Len(sheets) : sheets[i] \in TiedSheet
<1>1. Len(sheets) \in 1 .. Len(sheets) /\ Len(sheets) \in Nat \ {0}
  BY BoundsAssumption DEF IInv
<1> QED BY <1>1 DEF IInv, Active

LEMMA IInvTypeOK ==
  ASSUME IInv
  PROVE  TypeOK
<1>1. sheets \in Seq(Sheet)
  <2>1. \A i \in 1 .. Len(sheets) : sheets[i] \in Sheet
    BY ActiveTied, TiedParts
  <2> QED BY <2>1 DEF IInv
<1>2. \A s \in Range(sheets) : s \in TiedSheet
  BY ActiveTied, InRange DEF IInv
<1>3. \A s \in Range(sheets) :
          /\ WellFormed(s.frame)
          /\ Range(s.frame.ids) \subseteq Keys \cup {NoKey}
          /\ Len(s.added) = Len(s.frame.rows)
          /\ \A p \in Physical(s.frame) :
                s.frame.ids[p] = NoKey <=> s.added[p] # 0
  BY <1>2, TiedParts DEF Tied
<1>4. BuildPlan(Active) \in Plans /\ BuildPlan(Active) # NoPlan
  BY ActiveTied, BuildPlanType
<1> QED BY <1>1, <1>3, <1>4 DEF IInv, TypeOK

(* Every key a plan touches is checked, against the row that was read      *)
(* under it.                                                               *)
LEMMA PlanChecks ==
  ASSUME NEW s \in TiedSheet, NEW k,
         k \in BuildPlan(s).deletes \/ k \in DOMAIN BuildPlan(s).sets
  PROVE  /\ k \in DOMAIN BuildPlan(s).checks
         /\ \E p \in DOMAIN s.base :
               s.frame.ids[p] = k /\ BuildPlan(s).checks[k] = s.base[p]
<1> DEFINE doomed == {p \in DOMAIN s.base : s.frame.ids[p] \in s.frame.deleted}
           sets == ByKey(s, Changed(s), s.frame.rows)
           checks == ByKey(s, Changed(s) \cup doomed, s.base)
<1>1. /\ BuildPlan(s).sets = sets /\ BuildPlan(s).checks = checks
      /\ BuildPlan(s).deletes = s.frame.deleted
  BY DEF BuildPlan
<1>2. /\ Changed(s) \in SUBSET DOMAIN s.base
      /\ Changed(s) \cup doomed \in SUBSET DOMAIN s.base
  BY DEF Changed
<1>4. DOMAIN sets = {s.frame.ids[p] : p \in Changed(s)}
  BY DEF ByKey
<1>5. /\ DOMAIN checks = {s.frame.ids[p] : p \in Changed(s) \cup doomed}
      /\ \A j \in DOMAIN checks :
            \E p \in DOMAIN s.base : s.frame.ids[p] = j /\ checks[j] = s.base[p]
  <2>1. DOMAIN checks = {s.frame.ids[p] : p \in Changed(s) \cup doomed}
    BY DEF ByKey
  <2>2. ASSUME NEW j \in DOMAIN checks
        PROVE  \E p \in DOMAIN s.base : s.frame.ids[p] = j /\ checks[j] = s.base[p]
    <3> DEFINE P == Changed(s) \cup doomed
    <3>1. P \subseteq DOMAIN s.base /\ j \in DOMAIN ByKey(s, P, s.base)
      BY <1>2
    <3> HIDE DEF P
    <3>2. \E p \in DOMAIN s.base :
             s.frame.ids[p] = j /\ ByKey(s, P, s.base)[j] = s.base[p]
      BY <3>1, ByKeyFrom
    <3> QED BY <3>2 DEF P
  <2> QED BY <2>1, <2>2
<1>6. k \in {s.frame.ids[p] : p \in Changed(s) \cup doomed}
  <2>1. CASE k \in s.frame.deleted
    <3>1. PICK p \in DOMAIN s.base : s.frame.ids[p] = k
      BY <2>1, TiedParts DEF Tied
    <3> QED BY <2>1, <3>1
  <2>2. CASE k \in DOMAIN sets
    BY <2>2, <1>4
  <2> QED BY <2>1, <2>2, <1>1
<1> HIDE DEF sets, checks, doomed
<1> QED BY <1>1, <1>5, <1>6

(* The rows that running a plan changes or removes are among the ones it   *)
(* names.                                                                  *)
LEMMA RunChanges ==
  ASSUME NEW pl, NEW t, NEW assigned \in [DOMAIN pl.inserts -> Keys \ DOMAIN t],
         NEW k \in DOMAIN t,
         k \notin DOMAIN Run(pl, t, assigned) \/ Run(pl, t, assigned)[k] # t[k]
  PROVE  k \in pl.deletes \/ k \in DOMAIN pl.sets
<1> DEFINE kept == DOMAIN t \cup Range(assigned)
           all == [j \in kept |->
                     IF j \in Range(assigned)
                     THEN pl.inserts[CHOOSE i \in DOMAIN assigned : assigned[i] = j][2]
                     ELSE IF j \in DOMAIN pl.sets THEN pl.sets[j] ELSE t[j]]
<1>1. Run(pl, t, assigned) = [j \in kept \ pl.deletes |-> all[j]]
  BY DEF Run, Restrict
<1>2. k \notin Range(assigned) /\ k \in kept
  BY InRange
<1> SUFFICES ASSUME k \notin pl.deletes PROVE k \in DOMAIN pl.sets
  OBVIOUS
<1>3. Run(pl, t, assigned)[k] = all[k] /\ k \in DOMAIN Run(pl, t, assigned)
  BY <1>1, <1>2
<1>4. all[k] = IF k \in DOMAIN pl.sets THEN pl.sets[k] ELSE t[k]
  BY <1>2
<1> QED BY <1>3, <1>4

LEMMA SaveKeepsOthers ==
  ASSUME IInv, ApplySql, NEW k \in DOMAIN table,
         k \notin DOMAIN table' \/ table'[k] # table[k]
  PROVE  \E p \in DOMAIN Active.base :
             HasRead(p, k) /\ Active.base[p] = table[k]
<1>1. plan = BuildPlan(Active) /\ Active \in TiedSheet
  BY ActiveTied DEF IInv, ApplySql
<1>2. PICK assigned \in [DOMAIN plan.inserts -> Keys \ DOMAIN table] :
        table' = Run(plan, table, assigned)
  BY DEF ApplySql
<1>3. k \in plan.deletes \/ k \in DOMAIN plan.sets
  BY <1>2, RunChanges
<1>4. PICK p \in DOMAIN Active.base :
        Active.frame.ids[p] = k /\ plan.checks[k] = Active.base[p]
  BY <1>1, <1>3, PlanChecks
<1>5. k \in DOMAIN plan.checks
  BY <1>1, <1>3, PlanChecks
<1>6. table[k] = plan.checks[k]
  BY <1>5 DEF ApplySql, NoDrift
<1> QED BY <1>4, <1>6 DEF HasRead

-----------------------------------------------------------------------------
(* What the operations do to a sheet.                                      *)

LEMMA WellFormedParts ==
  ASSUME NEW f
  PROVE  WellFormed(f) <=>
            /\ f \in Frame
            /\ Len(f.ids) = Len(f.rows)
            /\ DupFree(f.rowOrder) /\ DupFree(f.originalOrder)
            /\ Range(f.rowOrder) = Range(f.originalOrder)
            /\ Range(f.rowOrder) \subseteq Physical(f)
<1>1. \A order : (\A i \in DOMAIN order : order[i] \in Physical(f))
                    <=> Range(order) \subseteq Physical(f)
  BY InRange
<1> QED BY <1>1 DEF WellFormed, OrderOK, DupFree, Visible

LEMMA SetCellsWellFormed ==
  ASSUME NEW f, WellFormed(f), NEW ps, NEW col \in Columns,
         NEW value \in Values \cup {Null}
  PROVE  /\ WellFormed(SetCells(f, ps, col, value))
         /\ Len(SetCells(f, ps, col, value).rows) = Len(f.rows)
         /\ SetCells(f, ps, col, value).ids = f.ids
         /\ SetCells(f, ps, col, value).selected = f.selected
         /\ SetCells(f, ps, col, value).deleted = f.deleted
<1> DEFINE rows == [p \in DOMAIN f.rows |->
                       IF p \in ps THEN [f.rows[p] EXCEPT ![col] = value]
                       ELSE f.rows[p]]
           g == SetCells(f, ps, col, value)
<1>1. f \in Frame /\ f.rows \in Seq(Row)
  BY WellFormedParts, FrameParts
<1>2. \A p \in DOMAIN f.rows : rows[p] \in Row
  <2>1. \A p \in DOMAIN f.rows : f.rows[p] \in Row
    BY <1>1
  <2> QED BY <2>1 DEF Row
<1>3. rows \in Seq(Row) /\ Len(rows) = Len(f.rows)
  <2> DEFINE n == Len(f.rows)
  <2>1. DOMAIN f.rows = 1 .. n /\ n \in Nat
    BY <1>1
  <2>2. rows \in [1 .. n -> Row]
    BY <1>2, <2>1
  <2> HIDE DEF rows, n
  <2>3. rows \in Seq(Row) /\ Len(rows) = n
    BY <2>1, <2>2
  <2> QED BY <2>3 DEF n
<1>4. g = [f EXCEPT !.rows = rows, !.agg = NoFooter]
  BY DEF SetCells
<1> HIDE DEF rows, g
<1>5. /\ g \in Frame /\ g.rows = rows
      /\ g.ids = f.ids /\ g.selected = f.selected /\ g.deleted = f.deleted
      /\ g.rowOrder = f.rowOrder /\ g.originalOrder = f.originalOrder
  BY <1>1, <1>3, <1>4 DEF Frame
<1>6. WellFormed(g)
  BY <1>3, <1>5, WellFormedParts DEF Physical
<1> QED BY <1>3, <1>5, <1>6 DEF g

LEMMA OneMore ==
  ASSUME NEW T, NEW q \in Seq(T), NEW w \in Seq(T), Len(w) = 1
  PROVE  /\ q \o w \in Seq(T) /\ Len(q \o w) = Len(q) + 1
         /\ \A i \in 1 .. Len(q) : (q \o w)[i] = q[i]
         /\ (q \o w)[Len(q) + 1] = w[1]
<1> DEFINE r == q \o w
           n == Len(q)
<1>1. /\ r \in Seq(T) /\ Len(r) = n + 1
      /\ \A i \in 1 .. n + 1 : r[i] = IF i <= n THEN q[i] ELSE w[i - n]
  <2>1. /\ q \o w \in Seq(T) /\ Len(q \o w) = Len(q) + Len(w)
        /\ \A i \in 1 .. Len(q) + Len(w) :
              (q \o w)[i] = IF i <= Len(q) THEN q[i] ELSE w[i - Len(q)]
    BY ConcatProperties
  <2> QED BY <2>1
<1>2. n \in Nat
  OBVIOUS
<1> HIDE DEF r, n
<1>3. (n + 1) - n = 1 /\ n + 1 \in 1 .. n + 1 /\ ~(n + 1 <= n)
  BY <1>2
<1>4. r[n + 1] = w[1]
  BY <1>1, <1>3
<1>5. \A i \in 1 .. n : r[i] = q[i]
  BY <1>1, <1>2
<1> QED BY <1>1, <1>4, <1>5 DEF r, n

LEMMA AddedWellFormed ==
  ASSUME NEW f, WellFormed(f), NEW row \in Row
  PROVE  WellFormed(InsertRowsTyped(f, <<row>>))
<1> DEFINE n == Len(f.rows)
           block == <<row>>
           new == [k \in 1 .. Len(block) |-> n + k]
           keys == [k \in 1 .. Len(block) |-> NoKey]
           g == InsertRowsTyped(f, block)
<1>1. /\ f \in Frame /\ f.rows \in Seq(Row) /\ n \in Nat
      /\ f.rowOrder \in Seq(Nat) /\ f.originalOrder \in Seq(Nat)
      /\ f.ids \in Seq(Nat) /\ Len(f.ids) = n
      /\ DupFree(f.rowOrder) /\ DupFree(f.originalOrder)
      /\ Range(f.rowOrder) = Range(f.originalOrder)
      /\ Range(f.rowOrder) \subseteq 1 .. n
  BY WellFormedParts, FrameParts DEF Physical
<1>2. block \in Seq(Row) /\ Len(block) = 1
  OBVIOUS
<1>3. g = [f EXCEPT !.rows = f.rows \o block,
                    !.rowOrder = f.rowOrder \o new,
                    !.originalOrder = f.originalOrder \o new,
                    !.ids = f.ids \o keys, !.agg = NoFooter]
  BY <1>1 DEF InsertRowsTyped, AppendRows, Frame
<1>4. /\ new \in Seq(Nat) /\ Len(new) = 1 /\ \A k \in 1 .. 1 : new[k] = n + k
      /\ keys \in Seq(Nat) /\ Len(keys) = 1
  <2> HIDE DEF n, block
  <2> QED BY <1>1, <1>2 DEF NoKey
<1> HIDE DEF new, keys, g, n, block
<1>5. ASSUME NEW s \in Seq(Nat), DupFree(s), Range(s) \subseteq 1 .. n
      PROVE  /\ s \o new \in Seq(Nat)
             /\ DupFree(s \o new)
             /\ Range(s \o new) = Range(s) \cup n + 1 .. n + 1
  <2>1. n \in Nat /\ 1 \in Nat
    BY <1>1
  <2> QED BY <1>4, <1>5, <2>1, AppendedProperties
<1>6. f.rows \o block \in Seq(Row) /\ Len(f.rows \o block) = n + 1
  BY <1>1, <1>2, OneMore DEF n
<1>7. f.ids \o keys \in Seq(Nat) /\ Len(f.ids \o keys) = n + 1
  BY <1>1, <1>4, OneMore
<1>8. /\ g \in Frame /\ g.rows = f.rows \o block /\ g.ids = f.ids \o keys
      /\ g.rowOrder = f.rowOrder \o new
      /\ g.originalOrder = f.originalOrder \o new
  BY <1>1, <1>3, <1>5, <1>6, <1>7 DEF Frame
<1>9. /\ DupFree(g.rowOrder) /\ DupFree(g.originalOrder)
      /\ Range(g.rowOrder) = Range(g.originalOrder)
      /\ Range(g.rowOrder) \subseteq 1 .. n + 1
  <2>1. \A x \in 1 .. n : x \in 1 .. n + 1
    BY <1>1
  <2>2. \A x \in n + 1 .. n + 1 : x \in 1 .. n + 1
    BY <1>1
  <2> QED BY <1>1, <1>5, <1>8, <2>1, <2>2
<1>10. WellFormed(g)
  BY <1>6, <1>7, <1>8, <1>9, WellFormedParts DEF Physical
<1> QED BY <1>10 DEF g, block

\* A sheet is still tied to its table after what neither adds a row nor
\* writes down a key that was not read.
LEMMA SameRowsTied ==
  ASSUME NEW s \in TiedSheet, NEW r \in Sheet,
         r.base = s.base, r.added = s.added, r.frame.ids = s.frame.ids,
         Len(r.frame.rows) = Len(s.frame.rows),
         WellFormed(r.frame),
         r.frame.selected \subseteq Physical(s.frame),
         \A k \in r.frame.deleted \ s.frame.deleted :
             \E p \in DOMAIN s.base : s.frame.ids[p] = k
  PROVE  r \in TiedSheet
<1>1. Tied(s)
  BY TiedParts
<1>2. Physical(r.frame) = Physical(s.frame)
  BY DEF Physical
<1>3. \A k \in r.frame.deleted : \E p \in DOMAIN r.base : r.frame.ids[p] = k
  BY <1>1 DEF Tied
<1>4. Tied(r)
  BY <1>1, <1>2, <1>3 DEF Tied
<1> QED BY <1>4 DEF TiedSheet

LEMMA MarksTied ==
  ASSUME NEW s \in TiedSheet, NEW S, S \subseteq Physical(s.frame)
  PROVE  [s EXCEPT !.frame = [s.frame EXCEPT !.selected = S]] \in TiedSheet
<1> DEFINE f == s.frame
           g == [f EXCEPT !.selected = S]
           r == [s EXCEPT !.frame = g]
<1>1. s \in Sheet /\ f \in Frame /\ WellFormed(f) /\ S \in SUBSET Nat
  BY TiedParts DEF Tied
<1>2. /\ g \in Frame /\ g.selected = S /\ g.rows = f.rows /\ g.ids = f.ids
      /\ g.rowOrder = f.rowOrder /\ g.originalOrder = f.originalOrder
      /\ g.deleted = f.deleted
  BY <1>1 DEF Frame
<1> HIDE DEF g
<1>3. WellFormed(g)
  BY <1>1, <1>2, WellFormedParts DEF Physical
<1>4. r \in Sheet /\ r.frame = g /\ r.base = s.base /\ r.added = s.added
  BY <1>1, <1>2 DEF Sheet
<1> HIDE DEF r
<1>5. r \in TiedSheet
  BY <1>2, <1>3, <1>4, SameRowsTied
<1> QED BY <1>5 DEF r, g

LEMMA SetCellsTied ==
  ASSUME NEW s \in TiedSheet, NEW ps, NEW col \in Columns,
         NEW value \in Values \cup {Null}
  PROVE  [s EXCEPT !.frame = SetCells(s.frame, ps, col, value)] \in TiedSheet
<1> DEFINE f == s.frame
           g == SetCells(f, ps, col, value)
           r == [s EXCEPT !.frame = g]
<1>1. s \in Sheet /\ WellFormed(f) /\ f.selected \subseteq Physical(f)
  BY TiedParts DEF Tied
<1>2. /\ WellFormed(g) /\ Len(g.rows) = Len(f.rows)
      /\ g.ids = f.ids /\ g.selected = f.selected /\ g.deleted = f.deleted
  BY <1>1, SetCellsWellFormed
<1> HIDE DEF g
<1>3. g \in Frame
  BY <1>2, WellFormedParts
<1>4. r \in Sheet /\ r.frame = g /\ r.base = s.base /\ r.added = s.added
  BY <1>1, <1>3 DEF Sheet
<1> HIDE DEF r
<1>5. r \in TiedSheet
  BY <1>1, <1>2, <1>4, SameRowsTied
<1> QED BY <1>5 DEF r, g

LEMMA DeleteTied ==
  ASSUME NEW s \in TiedSheet
  PROVE  [s EXCEPT
            !.frame = DeleteSelected(s.frame),
            !.gone = s.gone \cup ({s.added[p] : p \in s.frame.selected} \ {0})]
            \in TiedSheet
<1> DEFINE f == s.frame
           o1 == Retain(f.rowOrder, Visible(f) \ f.selected)
           o2 == Retain(f.originalOrder, Range(f.originalOrder) \ f.selected)
           deleted == f.deleted \cup KeysOf(f, f.selected)
           gone == s.gone \cup ({s.added[p] : p \in f.selected} \ {0})
           g == DeleteSelected(f)
           r == [s EXCEPT !.frame = g, !.gone = gone]
<1>1. /\ s \in Sheet /\ Tied(s) /\ f \in Frame /\ WellFormed(f)
      /\ f.selected \subseteq Physical(f)
  BY TiedParts DEF Tied
<1>2. /\ o1 \in Seq(Nat) /\ DupFree(o1)
      /\ Range(o1) = Range(f.rowOrder) \cap (Visible(f) \ f.selected)
  BY <1>1, TiedParts, WellFormedParts, RetainProperties
<1>3. /\ o2 \in Seq(Nat) /\ DupFree(o2)
      /\ Range(o2) = Range(f.originalOrder) \cap (Range(f.originalOrder) \ f.selected)
  BY <1>1, TiedParts, WellFormedParts, RetainProperties
<1>4. Range(o1) = Range(o2) /\ Range(o1) \subseteq Physical(f)
  BY <1>1, <1>2, <1>3, WellFormedParts DEF Visible
<1>5. \A k \in KeysOf(f, f.selected) : \E p \in DOMAIN s.base : f.ids[p] = k
  BY <1>1 DEF KeysOf, Tied
<1>6. deleted \in SUBSET Nat /\ f.deleted \in SUBSET Nat
  <2>1. \A k \in KeysOf(f, f.selected) : k \in Keys
    BY <1>5, ReadKeys
  <2> QED BY <2>1, <1>1, FrameParts, KeysAssumption
<1>7. gone \in SUBSET Nat
  <2>1. \A p \in Physical(f) : s.added[p] \in Nat
    BY <1>1, TiedParts DEF Tied
  <2> QED BY <1>1, <2>1, TiedParts
<1>8. g = [f EXCEPT !.deleted = deleted, !.rowOrder = o1, !.originalOrder = o2,
                    !.selected = {}]
  BY DEF DeleteSelected
<1> HIDE DEF o1, o2, g
<1>9. /\ g \in Frame /\ g.selected = {} /\ g.rows = f.rows /\ g.ids = f.ids
      /\ g.rowOrder = o1 /\ g.originalOrder = o2 /\ g.deleted = deleted
  BY <1>1, <1>2, <1>3, <1>6, <1>8 DEF Frame
<1> HIDE DEF gone
<1>10. WellFormed(g)
  BY <1>1, <1>2, <1>3, <1>4, <1>9, WellFormedParts DEF Physical
<1>11. r \in Sheet /\ r.frame = g /\ r.base = s.base /\ r.added = s.added
  BY <1>1, <1>7, <1>9 DEF Sheet
<1> HIDE DEF r
<1>12. r \in TiedSheet
  BY <1>5, <1>9, <1>10, <1>11, SameRowsTied
<1> QED BY <1>12 DEF r, g, gone

\* drill_down: fewer rows on screen, in both orders.
LEMMA DrillTied ==
  ASSUME NEW s \in TiedSheet, NEW keep
  PROVE  LET order == Retain(s.frame.rowOrder, keep) IN
         [s EXCEPT !.frame = [s.frame EXCEPT !.rowOrder = order,
                                             !.originalOrder = order,
                                             !.agg = NoFooter]] \in TiedSheet
<1> DEFINE f == s.frame
           order == Retain(f.rowOrder, keep)
           g == [f EXCEPT !.rowOrder = order, !.originalOrder = order, !.agg = NoFooter]
           r == [s EXCEPT !.frame = g]
<1>1. /\ s \in Sheet /\ f \in Frame /\ WellFormed(f)
      /\ f.selected \subseteq Physical(f)
  BY TiedParts DEF Tied
<1>2. /\ order \in Seq(Nat) /\ DupFree(order)
      /\ Range(order) = Range(f.rowOrder) \cap keep
  BY <1>1, TiedParts, WellFormedParts, RetainProperties
<1> HIDE DEF order
<1>3. /\ g \in Frame /\ g.selected = f.selected /\ g.rows = f.rows /\ g.ids = f.ids
      /\ g.rowOrder = order /\ g.originalOrder = order /\ g.deleted = f.deleted
  BY <1>1, <1>2 DEF Frame
<1> HIDE DEF g
<1>4. WellFormed(g)
  BY <1>1, <1>2, <1>3, WellFormedParts DEF Physical
<1>5. r \in Sheet /\ r.frame = g /\ r.base = s.base /\ r.added = s.added
  BY <1>1, <1>3 DEF Sheet
<1> HIDE DEF r
<1>6. r \in TiedSheet
  BY <1>1, <1>3, <1>4, <1>5, SameRowsTied
<1> QED BY <1>6 DEF r, g, order

LEMMA LoadTied ==
  ASSUME NEW t, DOMAIN t \subseteq Keys, Range(t) \subseteq Row
  PROVE  /\ Load(t) \in TiedSheet
         /\ Load(t).frame.selected = {}
<1> DEFINE K == DOMAIN t
           n == Cardinality(K)
           ids == InOrder(K, Ascending(K))
           rows == [p \in DOMAIN ids |-> t[ids[p]]]
           order == [p \in DOMAIN ids |-> p]
           added == [p \in DOMAIN ids |-> 0]
           f == [ rows |-> rows, rowOrder |-> order, originalOrder |-> order,
                  selected |-> {}, ids |-> ids, deleted |-> {}, agg |-> NoFooter ]
           s == [ frame |-> f, base |-> rows, added |-> added, gone |-> {} ]
<1>1. Load(t) = s
  BY DEF Load
<1>2. K \in SUBSET Int /\ IsFiniteSet(K) /\ n \in Nat /\ NoKey \notin K /\ K \subseteq Nat
  <2>1. Keys \subseteq Nat /\ NoKey \notin Keys /\ IsFiniteSet(Keys) /\ K \subseteq Keys
    BY KeysAssumption
  <2> HIDE DEF K
  <2>2. IsFiniteSet(K)
    BY <2>1, FS_Subset
  <2>3. n \in Nat
    BY <2>2, FS_CardinalityType
  <2>4. K \subseteq Nat /\ NoKey \notin K
    BY <2>1
  <2>5. K \in SUBSET Int
    BY <2>4
  <2> HIDE DEF n
  <2> QED BY <2>2, <2>3, <2>4, <2>5
<1>3. \A k \in K : t[k] \in Row
  BY InRange
<1>4. K \subseteq Keys
  OBVIOUS
<1> HIDE DEF K
<1>5. StrictTotalOrder(Ascending(K), K)
  BY <1>2, AscendingIsOrder
<1>6. ids \in Bijection(1 .. n, K)
  BY <1>2, <1>5, InOrderBijection
<1>7. DOMAIN ids = 1 .. n /\ ids = [p \in 1 .. n |-> ids[p]]
  BY DEF InOrder
<1> HIDE DEF ids, n
<1>8. /\ \A p \in 1 .. n : ids[p] \in K
      /\ \A p, q \in 1 .. n : ids[p] = ids[q] => p = q
  BY <1>6, ListingFacts
<1>9. ids \in Seq(Nat) /\ Len(ids) = n
  BY <1>2, <1>7, <1>8
<1>10. rows \in Seq(Row) /\ Len(rows) = n /\ DOMAIN rows = 1 .. n
  BY <1>2, <1>3, <1>7, <1>8
<1>11. /\ order \in Seq(Nat) /\ DOMAIN order = 1 .. n
       /\ \A p \in 1 .. n : order[p] = p
  BY <1>2, <1>7
<1>12. added \in Seq(Nat) /\ Len(added) = n /\ \A p \in 1 .. n : added[p] = 0
  BY <1>2, <1>7
<1> HIDE DEF rows, order, added
<1>13. DupFree(order) /\ Range(order) = 1 .. n
  BY <1>11, InRange DEF DupFree
<1>14. f \in Frame
  BY <1>9, <1>10, <1>11 DEF Frame
<1>15. WellFormed(f)
  BY <1>9, <1>10, <1>13, <1>14, WellFormedParts DEF Physical
<1>16. s \in Sheet
  BY <1>10, <1>12, <1>14 DEF Sheet
<1>17. Range(ids) \subseteq Keys \cup {NoKey}
  <2>1. \A p \in 1 .. n : ids[p] \in Keys
    BY <1>4, <1>8
  <2>2. DOMAIN ids = 1 .. n
    BY <1>7
  <2>3. \A x : x \in Range(ids) <=> \E p \in 1 .. n : ids[p] = x
    BY <2>2, InRange
  <2> HIDE DEF f, s
  <2> QED BY <2>1, <2>3
<1>18. Tied(s)
  <2>1. \A p \in 1 .. n : ids[p] # NoKey
    BY <1>2, <1>8
  <2>2. /\ s.frame = f /\ s.base = rows /\ s.added = added
        /\ f.selected = {} /\ f.deleted = {} /\ f.ids = ids /\ f.rows = rows
    OBVIOUS
  <2>3. Physical(f) = 1 .. n
    BY <1>10, <2>2 DEF Physical
  <2> HIDE DEF f, s
  <2> QED BY <1>2, <1>8, <1>10, <1>12, <1>15, <1>17, <2>1, <2>2, <2>3 DEF Tied
<1> QED BY <1>1, <1>16, <1>18 DEF TiedSheet

LEMMA AddTied ==
  ASSUME NEW s \in TiedSheet, NEW row \in Row, NEW tag \in Nat \ {0}
  PROVE  [s EXCEPT !.frame = InsertRowsTyped(s.frame, <<row>>),
                   !.added = Append(s.added, tag)] \in TiedSheet
<1> DEFINE f == s.frame
           n == Len(f.rows)
           m == Len(s.base)
           block == <<row>>
           key == [k \in 1 .. Len(block) |-> NoKey]
           ids == f.ids \o key
           added == Append(s.added, tag)
           g == InsertRowsTyped(f, block)
           r == [s EXCEPT !.frame = g, !.added = added]
<1>1. /\ s \in Sheet /\ Tied(s) /\ f \in Frame /\ WellFormed(f)
      /\ f.selected \subseteq 1 .. n /\ f.selected \in SUBSET Nat
      /\ n \in Nat /\ m \in 0 .. n /\ DOMAIN s.base = 1 .. m
      /\ f.ids \in Seq(Nat) /\ Len(f.ids) = n /\ f.rows \in Seq(Row)
      /\ s.added \in Seq(Nat) /\ Len(s.added) = n
  BY TiedParts, FrameParts DEF Tied
<1>2. block \in Seq(Row) /\ Len(block) = 1
  OBVIOUS
<1>3. WellFormed(g) /\ g \in Frame
  BY <1>1, AddedWellFormed, WellFormedParts
<1>6. /\ g.selected = f.selected /\ g.deleted = f.deleted
      /\ g.rows = f.rows \o block /\ g.ids = ids
  BY <1>1 DEF Frame, InsertRowsTyped, AppendRows
<1>7. /\ Len(f.rows \o block) = n + 1
      /\ Len(ids) = n + 1 /\ DOMAIN ids = 1 .. n + 1
      /\ \A p \in 1 .. n : ids[p] = f.ids[p]
      /\ ids[n + 1] = NoKey
  <2>1. key \in Seq(Nat) /\ Len(key) = 1 /\ key[1] = NoKey
    BY <1>2 DEF NoKey
  <2> HIDE DEF key
  <2>2. /\ ids \in Seq(Nat) /\ Len(ids) = Len(f.ids) + 1
        /\ \A i \in 1 .. Len(f.ids) : ids[i] = f.ids[i]
        /\ ids[Len(f.ids) + 1] = key[1]
    BY <1>1, <2>1, OneMore
  <2>3. Len(f.rows \o block) = n + 1
    BY <1>1, <1>2, OneMore
  <2> HIDE DEF ids, n
  <2> QED BY <1>1, <2>1, <2>2, <2>3
<1>8. /\ added \in Seq(Nat) /\ Len(added) = n + 1
      /\ \A p \in 1 .. n : added[p] = s.added[p]
      /\ added[n + 1] = tag
  <2> HIDE DEF n
  <2> QED BY <1>1, AppendProperties
<1> HIDE DEF ids, added, block, g
<1>11. /\ r \in Sheet /\ r.frame = g /\ r.base = s.base /\ r.added = added
  BY <1>1, <1>3, <1>8 DEF Sheet
<1> HIDE DEF r
<1>12. Tied(r)
  <2>1. Physical(g) = 1 .. n + 1 /\ Physical(f) = 1 .. n
    BY <1>6, <1>7 DEF Physical
  <2>2. g.selected \subseteq Physical(g)
    <3> HIDE DEF n, f
    <3> QED BY <1>1, <1>6, <2>1
  <2>3. Range(ids) \subseteq Keys \cup {NoKey}
    <3>1. \A p \in 1 .. n : f.ids[p] \in Range(f.ids)
      BY <1>1, InRange
    <3>2. \A p \in 1 .. n : ids[p] \in Keys \cup {NoKey}
      BY <1>1, <1>7, <3>1 DEF Tied
    <3> HIDE DEF n, f
    <3>3. \A p \in 1 .. n + 1 : p \in 1 .. n \/ p = n + 1
      BY <1>1
    <3>4. \A p \in 1 .. n + 1 : ids[p] \in Keys \cup {NoKey}
      BY <1>7, <3>2, <3>3
    <3> QED BY <1>7, <3>4, InRange
  <2>4. \A p \in 1 .. n : /\ ids[p] = NoKey <=> added[p] # 0
                          /\ ids[p] # NoKey <=> p \in 1 .. m
    BY <1>1, <1>7, <1>8, <2>1 DEF Tied
  <2>5. /\ ids[n + 1] = NoKey /\ added[n + 1] # 0 /\ n + 1 \notin 1 .. m
        /\ m <= n + 1 /\ \A p \in 1 .. n + 1 : p \in 1 .. n \/ p = n + 1
    <3> HIDE DEF n, m
    <3> QED BY <1>1, <1>7, <1>8
  <2>6. \A p \in 1 .. n + 1 : /\ ids[p] = NoKey <=> added[p] # 0
                              /\ ids[p] # NoKey <=> p \in 1 .. m
    <3> HIDE DEF n, m
    <3> QED BY <2>4, <2>5
  <2>7. \A k \in f.deleted : \E p \in 1 .. m : ids[p] = k
    <3>1. \A k \in f.deleted : \E p \in 1 .. m : f.ids[p] = k
      BY <1>1 DEF Tied
    <3>2. \A p \in 1 .. m : p \in 1 .. n
      BY <1>1
    <3> QED BY <1>7, <3>1, <3>2
  <2>8. /\ r.frame = g /\ r.base = s.base /\ r.added = added
        /\ g.ids = ids /\ g.deleted = f.deleted
        /\ Len(g.rows) = n + 1 /\ Len(added) = n + 1
        /\ Len(s.base) <= n + 1 /\ DOMAIN s.base = 1 .. m
    BY <1>1, <1>6, <1>7, <1>8, <1>11, <2>5
  <2>9. \A p, q \in 1 .. m : ids[p] = ids[q] => p = q
    <3>1. \A p, q \in 1 .. m : f.ids[p] = f.ids[q] => p = q
      BY <1>1 DEF Tied
    <3>2. \A p \in 1 .. m : p \in 1 .. n
      BY <1>1
    <3> QED BY <1>7, <3>1, <3>2
  <2> HIDE DEF n, f, m
  <2> QED BY <2>9, <1>3, <2>1, <2>2, <2>3, <2>6, <2>7, <2>8 DEF Tied
<1>13. r \in TiedSheet
  BY <1>11, <1>12 DEF TiedSheet
<1> QED BY <1>13 DEF r, g, added, block

-----------------------------------------------------------------------------
(* The steps.                                                              *)

LEMMA InitIInv ==
  ASSUME Init
  PROVE  IInv
<1>1. DOMAIN table \subseteq Keys /\ Range(table) \subseteq Row
  BY TablesAssumption DEF Init
<1> DEFINE s == Load(table)
<1>2. s \in TiedSheet /\ sheets = <<s>>
  BY <1>1, LoadTied DEF Init
<1> HIDE DEF s
<1>3. sheets \in Seq(TiedSheet) /\ Len(sheets) = 1
  BY <1>2
<1> QED BY <1>1, <1>3, BoundsAssumption DEF Init, IInv

LEMMA SetActiveKeeps ==
  ASSUME IInv, NEW s \in TiedSheet, SetActive(s)
  PROVE  sheets' \in Seq(TiedSheet) /\ Len(sheets') \in 1 .. MaxDepth
<1> DEFINE n == Len(sheets)
<1>1. sheets \in Seq(TiedSheet) /\ n \in Nat \ {0} /\ n \in 1 .. MaxDepth
  BY ActiveTied DEF IInv
<1>2. sheets' = [sheets EXCEPT ![n] = s]
  BY DEF SetActive
<1>3. sheets' \in Seq(TiedSheet) /\ Len(sheets') = n
  BY <1>1, <1>2
<1> QED BY <1>1, <1>3

\* An edit leaves everything but the sheet and the rows added as it was.
LEMMA EditKeeps ==
  ASSUME IInv, Edit, NEW s \in TiedSheet, SetActive(s), landed' \in Seq(Nat)
  PROVE  IInv'
<1>1. sheets' \in Seq(TiedSheet) /\ Len(sheets') \in 1 .. MaxDepth
  BY SetActiveKeeps
<1>2. edits' \in 0 .. MaxEdits
  BY BoundsAssumption DEF IInv, Edit
<1> QED BY <1>1, <1>2 DEF IInv, Edit

LEMMA MarkKeeps ==
  ASSUME IInv, NEW S, S \subseteq Physical(Active.frame), mode = "Normal",
         SetFrame([Active.frame EXCEPT !.selected = S]),
         UNCHANGED <<table, mode, plan, landed, edits, writes>>
  PROVE  IInv'
<1> DEFINE s == [Active EXCEPT !.frame = [Active.frame EXCEPT !.selected = S]]
<1>1. s \in TiedSheet /\ SetActive(s)
  BY ActiveTied, MarksTied DEF SetFrame
<1> HIDE DEF s
<1>2. sheets' \in Seq(TiedSheet) /\ Len(sheets') \in 1 .. MaxDepth
  BY <1>1, SetActiveKeeps
<1> QED BY <1>2 DEF IInv

LEMMA MarkRowsKeeps ==
  ASSUME IInv, NEW S \in SUBSET Visible(Active.frame), MarkRows(S)
  PROVE  IInv'
<1> DEFINE f == Active.frame
           T == (f.selected \ Visible(f)) \cup S
<1>1. T \subseteq Physical(f)
  BY ActiveTied, TiedParts DEF Tied
<1>2. SetFrame([f EXCEPT !.selected = T]) /\ mode = "Normal"
      /\ UNCHANGED <<table, mode, plan, landed, edits, writes>>
  BY DEF MarkRows
<1> HIDE DEF T
<1> QED BY <1>1, <1>2, MarkKeeps

LEMMA ApplyEditKeeps ==
  ASSUME IInv, NEW ps, NEW col \in Columns, NEW value \in Values \cup {Null},
         Edit, SetFrame(SetCells(Active.frame, ps, col, value)), UNCHANGED landed
  PROVE  IInv'
<1> DEFINE s == [Active EXCEPT !.frame = SetCells(Active.frame, ps, col, value)]
<1>1. s \in TiedSheet /\ SetActive(s)
  BY ActiveTied, SetCellsTied DEF SetFrame
<1>2. landed' \in Seq(Nat)
  BY DEF IInv
<1> HIDE DEF s
<1> QED BY <1>1, <1>2, EditKeeps

LEMMA AddRowKeeps ==
  ASSUME IInv, NEW row \in Row, AddRow(row)
  PROVE  IInv'
<1> DEFINE tag == Len(landed) + 1
           s == [Active EXCEPT !.frame = InsertRowsTyped(Active.frame, <<row>>),
                               !.added = Append(Active.added, tag)]
<1>1. tag \in Nat \ {0} /\ landed \in Seq(Nat)
  BY DEF IInv
<1>2. SetActive(s) /\ Edit /\ landed' = Append(landed, 0)
  BY DEF AddRow
<1>3. landed' \in Seq(Nat)
  BY <1>1, <1>2, AppendProperties
<1> HIDE DEF tag
<1>4. s \in TiedSheet
  BY <1>1, ActiveTied, AddTied
<1> HIDE DEF s
<1> QED BY <1>2, <1>3, <1>4, EditKeeps

LEMMA DeleteKeeps ==
  ASSUME IInv, DeleteSelectedRows
  PROVE  IInv'
<1> DEFINE a == Active
           s == [a EXCEPT !.frame = DeleteSelected(a.frame),
                          !.gone = a.gone \cup ({a.added[p] : p \in a.frame.selected} \ {0})]
<1>1. SetActive(s) /\ Edit /\ UNCHANGED landed
  BY DEF DeleteSelectedRows
<1>2. s \in TiedSheet
  <2>1. a \in TiedSheet
    BY ActiveTied
  <2> HIDE DEF a
  <2> QED BY <2>1, DeleteTied
<1>3. landed' \in Seq(Nat)
  BY <1>1 DEF IInv
<1> HIDE DEF s
<1> QED BY <1>1, <1>2, <1>3, EditKeeps

LEMMA DrillKeeps ==
  ASSUME IInv, NEW col, NEW value, DrillDown(col, value)
  PROVE  IInv'
<1> DEFINE f == Active.frame
           keep == {p \in Visible(f) : f.rows[p][col] = value}
           order == Retain(f.rowOrder, keep)
           s == [Active EXCEPT !.frame = [f EXCEPT !.rowOrder = order,
                                                   !.originalOrder = order,
                                                   !.agg = NoFooter]]
           n == Len(sheets)
<1>1. /\ sheets' = Append(sheets, s) /\ n < MaxDepth /\ mode = "Normal"
      /\ UNCHANGED <<table, mode, plan, landed, edits, writes>>
  BY DEF DrillDown
<1>2. s \in TiedSheet
  BY ActiveTied, DrillTied
<1> HIDE DEF s
<1>3. sheets' \in Seq(TiedSheet) /\ Len(sheets') = n + 1
  BY <1>1, <1>2, AppendProperties DEF IInv
<1>4. n + 1 \in 1 .. MaxDepth
  BY <1>1, ActiveTied, BoundsAssumption
<1> QED BY <1>1, <1>3, <1>4 DEF IInv

LEMMA PopKeeps ==
  ASSUME IInv, PopSheet
  PROVE  IInv'
<1> DEFINE n == Len(sheets)
<1>1. /\ n \in Nat \ {0} /\ n > 1 /\ n \in 1 .. MaxDepth
      /\ sheets' = SubSeq(sheets, 1, n - 1)
      /\ sheets \in Seq(TiedSheet)
  BY ActiveTied DEF PopSheet, IInv
<1>2. /\ 1 \in 1 .. n + 1 /\ n - 1 \in 0 .. n /\ n - 1 \in 1 .. MaxDepth
      /\ \A i \in 1 .. n - 1 : sheets[i] \in TiedSheet
  BY <1>1, BoundsAssumption
<1>3. sheets' \in Seq(TiedSheet) /\ Len(sheets') = n - 1
  <2> HIDE DEF n
  <2> QED BY <1>1, <1>2, SubSeqProperties
<1> QED BY <1>2, <1>3 DEF IInv, PopSheet

LEMMA SamePlan ==
  ASSUME sheets' = sheets
  PROVE  Active' = Active /\ BuildPlan(Active)' = BuildPlan(Active)
BY DEF Active, BuildPlan, ByKey, Changed, Unsaved

LEMMA SaveKeeps ==
  ASSUME IInv, SaveIntoDatabase
  PROVE  IInv'
<1>1. Active' = Active /\ BuildPlan(Active)' = BuildPlan(Active)
  BY SamePlan DEF SaveIntoDatabase
<1>2. mode' \in {"Normal", "SqlConfirm"}
  BY DEF SaveIntoDatabase
<1>3. plan' = IF mode' = "SqlConfirm" THEN BuildPlan(Active) ELSE NoPlan
  BY DEF SaveIntoDatabase, IInv
<1> QED BY <1>1, <1>2, <1>3 DEF SaveIntoDatabase, IInv

LEMMA RunType ==
  ASSUME NEW pl \in Plans, NEW t, DOMAIN t \subseteq Keys, Range(t) \subseteq Row,
         NEW assigned \in [DOMAIN pl.inserts -> Keys \ DOMAIN t]
  PROVE  DOMAIN Run(pl, t, assigned) \subseteq Keys /\ Range(Run(pl, t, assigned)) \subseteq Row
<1> DEFINE kept == DOMAIN t \cup Range(assigned)
           slot(k) == CHOOSE i \in DOMAIN assigned : assigned[i] = k
           all == [k \in kept |->
                     IF k \in Range(assigned) THEN pl.inserts[slot(k)][2]
                     ELSE IF k \in DOMAIN pl.sets THEN pl.sets[k] ELSE t[k]]
           r == Run(pl, t, assigned)
<1>1. r = [k \in kept \ pl.deletes |-> all[k]]
  BY DEF Run, Restrict
<1>2. kept \subseteq Keys
  BY InRange
<1>3. /\ pl.inserts \in Seq(Nat \X Row)
      /\ \A k \in DOMAIN pl.sets : pl.sets[k] \in Row
  BY DEF Plans
<1>4. \A k \in kept : all[k] \in Row
  <2> TAKE k \in kept
  <2>1. CASE k \in Range(assigned)
    <3>1. \E i \in DOMAIN assigned : assigned[i] = k
      BY <2>1, InRange
    <3>2. slot(k) \in DOMAIN pl.inserts
      BY <3>1
    <3> HIDE DEF slot
    <3>3. pl.inserts[slot(k)] \in Nat \X Row
      BY <1>3, <3>2
    <3>4. pl.inserts[slot(k)][2] \in Row
      BY <3>3
    <3> QED BY <2>1, <3>4
  <2>2. CASE k \notin Range(assigned)
    <3>1. t[k] \in Row
      BY <2>2, InRange
    <3> QED BY <2>2, <3>1, <1>3
  <2> QED BY <2>1, <2>2
<1> HIDE DEF all, kept, r
<1>5. DOMAIN r \subseteq Keys
  BY <1>1, <1>2
<1>6. \A k \in DOMAIN r : r[k] \in Row
  BY <1>1, <1>4
<1> QED BY <1>5, <1>6, InRange DEF r

LEMMA ApplyKeeps ==
  ASSUME IInv, ApplySql
  PROVE  IInv'
<1>1. plan \in Plans
  BY ActiveTied, BuildPlanType DEF IInv, ApplySql
<1>2. PICK assigned \in [DOMAIN plan.inserts -> Keys \ DOMAIN table] :
        table' = Run(plan, table, assigned)
  BY DEF ApplySql
<1>3. DOMAIN table' \subseteq Keys /\ Range(table') \subseteq Row
  BY <1>1, <1>2, RunType DEF IInv
<1>4. landed' \in Seq(Nat)
  <2> DEFINE into(t) == {i \in DOMAIN plan.inserts : plan.inserts[i][1] = t}
  <2>1. plan.inserts \in Seq(Nat \X Row)
    BY <1>1 DEF Plans
  <2>2. DOMAIN plan.inserts = 1 .. Len(plan.inserts) /\ Len(plan.inserts) \in Nat
    BY <2>1
  <2>3. IsFiniteSet(DOMAIN plan.inserts)
    BY <2>2, FS_Interval
  <2>4. \A t : Cardinality(into(t)) \in Nat
    <3> SUFFICES ASSUME NEW t PROVE Cardinality(into(t)) \in Nat
      OBVIOUS
    <3>1. into(t) \subseteq DOMAIN plan.inserts
      OBVIOUS
    <3> HIDE DEF into
    <3> QED BY <2>3, <3>1, FS_Subset, FS_CardinalityType
  <2>5. landed' = [t \in DOMAIN landed |-> landed[t] + Cardinality(into(t))]
    BY DEF ApplySql
  <2> HIDE DEF into
  <2>6. landed \in Seq(Nat)
    BY DEF IInv
  <2>7. DOMAIN landed = 1 .. Len(landed) /\ Len(landed) \in Nat
        /\ \A t \in DOMAIN landed : landed[t] + Cardinality(into(t)) \in Nat
    BY <2>4, <2>6
  <2> QED BY <2>5, <2>7
<1> QED BY <1>3, <1>4 DEF ApplySql, IInv

LEMMA ReloadKeeps ==
  ASSUME IInv, ReloadDbSheet
  PROVE  IInv'
<1> DEFINE f == Active.frame
           fresh == Load(table)
           marked == {p \in Physical(fresh.frame) :
                          fresh.frame.ids[p] \in KeysOf(f, f.selected)}
           s == [fresh EXCEPT !.frame = [fresh.frame EXCEPT !.selected = marked]]
<1>1. fresh \in TiedSheet
  BY LoadTied DEF IInv
<1>2. SetActive(s)
  BY DEF ReloadDbSheet
<1> HIDE DEF fresh
<1>3. s \in TiedSheet
  BY <1>1, MarksTied
<1> HIDE DEF s
<1>4. sheets' \in Seq(TiedSheet) /\ Len(sheets') \in 1 .. MaxDepth
  BY <1>2, <1>3, SetActiveKeeps
<1> QED BY <1>4 DEF ReloadDbSheet, IInv

LEMMA OtherWritesKeeps ==
  ASSUME IInv, NEW t \in OneWriteAway, OtherWrites(t)
  PROVE  IInv'
<1>1. DOMAIN table \subseteq Keys /\ \A k \in DOMAIN table : table[k] \in Row
  BY InRange DEF IInv
<1>2. DOMAIN t \subseteq Keys /\ \A k \in DOMAIN t : t[k] \in Row
  <2>1. CASE t \in {[table EXCEPT ![k] = row] : k \in DOMAIN table, row \in Row}
    BY <1>1, <2>1
  <2>2. CASE t \in {Restrict(table, DOMAIN table \ {k}) : k \in DOMAIN table}
    BY <1>1, <2>2 DEF Restrict
  <2>3. CASE t \in {[j \in DOMAIN table \cup {k} |-> IF j = k THEN row ELSE table[j]] :
                       k \in Keys \ DOMAIN table, row \in Row}
    <3>1. PICK k \in Keys \ DOMAIN table, row \in Row :
             t = [j \in DOMAIN table \cup {k} |-> IF j = k THEN row ELSE table[j]]
      BY <2>3
    <3>2. DOMAIN t = DOMAIN table \cup {k}
          /\ \A j \in DOMAIN t : t[j] = IF j = k THEN row ELSE table[j]
      BY <3>1
    <3> QED BY <1>1, <3>2
  <2> QED BY <2>1, <2>2, <2>3 DEF OneWriteAway
<1>3. DOMAIN table' \subseteq Keys /\ Range(table') \subseteq Row
  BY <1>2, InRange DEF OtherWrites
<1>4. Active' = Active /\ BuildPlan(Active)' = BuildPlan(Active)
  BY SamePlan DEF OtherWrites
<1>5. writes' \in 0 .. MaxWrites
  BY BoundsAssumption DEF IInv, OtherWrites
<1> QED BY <1>3, <1>4, <1>5 DEF OtherWrites, IInv

LEMMA NextIInv ==
  ASSUME IInv, [Next]_vars
  PROVE  IInv'
<1>1. ASSUME NEW S \in SUBSET Visible(Active.frame), MarkRows(S) PROVE IInv'
  BY <1>1, MarkRowsKeeps
<1>2. CASE UnselectAllRows
  BY <1>2, MarkKeeps DEF UnselectAllRows
<1>3. ASSUME NEW p, NEW col \in Columns, NEW value \in Values \cup {Null},
             ApplyEdit(p, col, value)
      PROVE  IInv'
  BY <1>3, ApplyEditKeeps DEF ApplyEdit
<1>4. ASSUME NEW col \in Columns, NEW value \in Values \cup {Null},
             ApplyBulkEdit(col, value)
      PROVE  IInv'
  BY <1>4, ApplyEditKeeps DEF ApplyBulkEdit
<1>5. ASSUME NEW row \in Row, AddRow(row) PROVE IInv'
  BY <1>5, AddRowKeeps
<1>6. CASE DeleteSelectedRows
  BY <1>6, DeleteKeeps
<1>7. ASSUME NEW col, NEW value, DrillDown(col, value) PROVE IInv'
  BY <1>7, DrillKeeps
<1>8. CASE PopSheet
  BY <1>8, PopKeeps
<1>9. CASE SaveFile \/ CancelSave \/ ApplySqlFails \/ CancelSql \/ ReloadFails
  BY <1>9 DEF SaveFile, CancelSave, ApplySqlFails, CancelSql, ReloadFails, IInv
<1>10. CASE SaveIntoDatabase
  BY <1>10, SaveKeeps
<1>11. CASE ApplySql
  BY <1>11, ApplyKeeps
<1>12. CASE ReloadDbSheet
  BY <1>12, ReloadKeeps
<1>13. ASSUME NEW t \in OneWriteAway, OtherWrites(t) PROVE IInv'
  BY <1>13, OtherWritesKeeps
<1>14. CASE UNCHANGED vars
  <2>1. Active' = Active /\ BuildPlan(Active)' = BuildPlan(Active)
    BY <1>14, SamePlan DEF vars
  <2> QED BY <1>14, <2>1 DEF vars, IInv
<1> QED BY <1>1, <1>2, <1>3, <1>4, <1>5, <1>6, <1>7, <1>8, <1>9, <1>10, <1>11,
           <1>12, <1>13, <1>14 DEF Next

-----------------------------------------------------------------------------

THEOREM Tethered == Spec => []IInv
BY InitIInv, NextIInv, PTL DEF Spec

(* Every variable of the writeback keeps its type, and the popup is open   *)
(* exactly as long as there is a plan to confirm.                          *)
THEOREM TypeCorrect == Spec => []TypeOK
<1>1. IInv => TypeOK
  BY IInvTypeOK
<1> QED BY <1>1, Tethered, PTL

(* A save never overwrites or deletes a row that was changed behind this   *)
(* sheet's back, for any table, any number of sheets over it and any       *)
(* writers.                                                                *)
THEOREM NothingLost == Spec => NoLostUpdate
<1>1. ASSUME IInv, [Next]_vars
      PROVE  [ ApplySql =>
                \A k \in DOMAIN table :
                    (k \notin DOMAIN table' \/ table'[k] # table[k]) =>
                        \E p \in DOMAIN Active.base :
                            HasRead(p, k) /\ Active.base[p] = table[k] ]_vars
  BY <1>1, SaveKeepsOthers
<1> QED BY <1>1, Tethered, PTL DEF Spec, NoLostUpdate

-----------------------------------------------------------------------------
(* Once the table is read again the sheet has nothing left to write.       *)

LEMMA CleanPlan ==
  ASSUME NEW s, Changed(s) = {}, Unsaved(s) = {}, s.frame.deleted = {}
  PROVE  IsEmpty(BuildPlan(s))
<1> DEFINE new == InOrder({}, Ascending({}))
           inserts == [i \in DOMAIN new |-> <<s.added[new[i]], s.frame.rows[new[i]]>>]
<1>1. /\ BuildPlan(s).sets = ByKey(s, {}, s.frame.rows)
      /\ BuildPlan(s).inserts = inserts
      /\ BuildPlan(s).deletes = {}
  BY DEF BuildPlan
<1>2. ByKey(s, {}, s.frame.rows) = <<>>
  BY DEF ByKey
<1>3. DOMAIN new = {}
  <2>1. Cardinality({}) = 0
    BY FS_EmptySet
  <2> QED BY <2>1 DEF InOrder
<1> HIDE DEF new
<1>4. inserts = <<>>
  BY <1>3
<1> HIDE DEF inserts
<1> QED BY <1>1, <1>2, <1>4 DEF IsEmpty

LEMMA ReloadCleans ==
  ASSUME IInv, ReloadDbSheet
  PROVE  IsEmpty(BuildPlan(Active))'
<1> DEFINE f == Active.frame
           fresh == Load(table)
           marked == {p \in Physical(fresh.frame) :
                          fresh.frame.ids[p] \in KeysOf(f, f.selected)}
           s == [fresh EXCEPT !.frame = [fresh.frame EXCEPT !.selected = marked]]
<1>1. fresh \in TiedSheet /\ fresh.frame.rows = fresh.base /\ fresh.frame.deleted = {}
  BY LoadTied DEF IInv, Load
<1>2. SetActive(s)
  BY DEF ReloadDbSheet
<1>3. Active' = s
  <2> HIDE DEF s
  <2>1. sheets \in Seq(TiedSheet) /\ Len(sheets) \in Nat \ {0} /\ s \in TiedSheet
    <3>1. marked \subseteq Physical(fresh.frame)
      OBVIOUS
    <3> HIDE DEF marked
    <3> QED BY <1>1, <3>1, ActiveTied, MarksTied DEF IInv, s
  <2>2. sheets' = [sheets EXCEPT ![Len(sheets)] = s]
    BY <1>2 DEF SetActive
  <2>3. Len(sheets') = Len(sheets) /\ sheets'[Len(sheets)] = s
    BY <2>1, <2>2
  <2> QED BY <2>3 DEF Active
<1> HIDE DEF fresh
<1>4. fresh \in Sheet /\ fresh.frame \in Frame
  BY <1>1, TiedParts
<1>5. /\ s.frame.rows = fresh.frame.rows /\ s.frame.ids = fresh.frame.ids
      /\ s.frame.deleted = {} /\ s.base = fresh.base
  BY <1>1, <1>4 DEF Sheet, Frame
<1>6. Changed(s) = {}
  <2> HIDE DEF s
  <2> QED BY <1>1, <1>5 DEF Changed
<1>7. Unsaved(s) = {}
  <2> HIDE DEF s
  <2>1. DOMAIN fresh.base = Physical(fresh.frame)
    BY <1>1, TiedParts
  <2>2. \A p \in Physical(fresh.frame) : fresh.frame.ids[p] # NoKey
    BY <1>1, <2>1, ReadKeys
  <2> QED BY <1>5, <2>2 DEF Unsaved, Physical
<1>8. IsEmpty(BuildPlan(s))
  <2> HIDE DEF s
  <2> QED BY <1>5, <1>6, <1>7, CleanPlan
<1>9. IsEmpty(BuildPlan(Active))' <=> IsEmpty(BuildPlan(Active'))
  BY DEF IsEmpty, BuildPlan, ByKey, Changed, Unsaved
<1> HIDE DEF s
<1> QED BY <1>3, <1>8, <1>9

(* Saving twice writes once: a sheet that was read again after a save has  *)
(* an empty plan, whatever others wrote in between.                        *)
THEOREM CleanAfterReload == Spec => SavedSheetIsClean
<1>1. ASSUME IInv, [Next]_vars
      PROVE  [ReloadDbSheet => IsEmpty(BuildPlan(Active))']_vars
  BY <1>1, ReloadCleans
<1> QED BY <1>1, Tethered, PTL DEF Spec, SavedSheetIsClean

-----------------------------------------------------------------------------
(* A save merges the sheet into the table as it now is.                    *)

LEMMA RunFacts ==
  ASSUME NEW pl, NEW t, NEW assigned \in [DOMAIN pl.inserts -> Keys \ DOMAIN t],
         IsInjective(assigned)
  PROVE  LET r == Run(pl, t, assigned) IN
         /\ DOMAIN r = (DOMAIN t \cup Range(assigned)) \ pl.deletes
         /\ \A k \in DOMAIN t \ pl.deletes :
               r[k] = IF k \in DOMAIN pl.sets THEN pl.sets[k] ELSE t[k]
         /\ \A i \in DOMAIN pl.inserts :
               assigned[i] \notin pl.deletes => r[assigned[i]] = pl.inserts[i][2]
<1> DEFINE kept == DOMAIN t \cup Range(assigned)
           slot(k) == CHOOSE i \in DOMAIN assigned : assigned[i] = k
           all == [k \in kept |->
                     IF k \in Range(assigned) THEN pl.inserts[slot(k)][2]
                     ELSE IF k \in DOMAIN pl.sets THEN pl.sets[k] ELSE t[k]]
           r == Run(pl, t, assigned)
<1>1. r = [k \in kept \ pl.deletes |-> all[k]]
  BY DEF Run, Restrict
<1>2. \A i \in DOMAIN assigned : assigned[i] \in Range(assigned) /\ slot(assigned[i]) = i
  <2> TAKE i \in DOMAIN assigned
  <2>1. slot(assigned[i]) \in DOMAIN assigned /\ assigned[slot(assigned[i])] = assigned[i]
    OBVIOUS
  <2> HIDE DEF slot
  <2> QED BY <2>1, InRange DEF IsInjective
<1>3. \A k \in DOMAIN t : k \notin Range(assigned)
  BY InRange
<1> HIDE DEF r, slot
<1>4. DOMAIN r = kept \ pl.deletes
  BY <1>1
<1>5. \A k \in DOMAIN t \ pl.deletes :
         r[k] = IF k \in DOMAIN pl.sets THEN pl.sets[k] ELSE t[k]
  BY <1>1, <1>3
<1>6. ASSUME NEW i \in DOMAIN pl.inserts, assigned[i] \notin pl.deletes
      PROVE  r[assigned[i]] = pl.inserts[i][2]
  <2>1. assigned[i] \in Range(assigned) /\ slot(assigned[i]) = i
    BY <1>2
  <2>2. r[assigned[i]] = all[assigned[i]]
    BY <1>1, <1>6, <2>1
  <2>3. all[assigned[i]] = pl.inserts[slot(assigned[i])][2]
    BY <2>1
  <2> QED BY <2>1, <2>2, <2>3
<1> QED BY <1>4, <1>5, <1>6 DEF r

\* What the plan sets a key to is the row of the sheet with that key.
LEMMA PlanSets ==
  ASSUME NEW s \in TiedSheet, NEW p \in Changed(s)
  PROVE  /\ s.frame.ids[p] \in DOMAIN BuildPlan(s).sets
         /\ BuildPlan(s).sets[s.frame.ids[p]] = s.frame.rows[p]
<1> DEFINE P == Changed(s)
           F == s.frame.rows
           k == s.frame.ids[p]
<1>1. BuildPlan(s).sets = ByKey(s, P, F) /\ P \subseteq DOMAIN s.base /\ p \in P
  BY DEF BuildPlan, Changed
<1>2. k \in DOMAIN ByKey(s, P, F)
  BY <1>1 DEF ByKey
<1> HIDE DEF P, F
<1>3. PICK q \in DOMAIN s.base : s.frame.ids[q] = k /\ ByKey(s, P, F)[k] = F[q]
  BY <1>1, <1>2, ByKeyFrom
<1>4. q = p
  BY <1>1, <1>3, TiedParts DEF Tied
<1> QED BY <1>1, <1>2, <1>3, <1>4 DEF F

\* What the plan names was in the table when the save began.
LEMMA PlanInTable ==
  ASSUME NEW s \in TiedSheet, NEW t, NoDrift(BuildPlan(s), t)
  PROVE  BuildPlan(s).deletes \subseteq DOMAIN t
<1>1. \A k \in BuildPlan(s).deletes : k \in DOMAIN BuildPlan(s).checks
  BY PlanChecks
<1> QED BY <1>1 DEF NoDrift

LEMMA InsertsListed ==
  ASSUME NEW s \in TiedSheet
  PROVE  /\ DOMAIN BuildPlan(s).inserts = 1 .. Cardinality(Unsaved(s))
         /\ Cardinality(Unsaved(s)) \in Nat
         /\ \A p \in Unsaved(s) : \E i \in DOMAIN BuildPlan(s).inserts :
               BuildPlan(s).inserts[i][2] = s.frame.rows[p]
<1> DEFINE new == InOrder(Unsaved(s), Ascending(Unsaved(s)))
           inserts == [i \in DOMAIN new |-> <<s.added[new[i]], s.frame.rows[new[i]]>>]
<1>1. BuildPlan(s).inserts = inserts
  BY DEF BuildPlan
<1>2. /\ DOMAIN new = 1 .. Cardinality(Unsaved(s)) /\ Cardinality(Unsaved(s)) \in Nat
      /\ \A p \in Unsaved(s) : \E i \in DOMAIN new : new[i] = p
  BY UnsavedListed
<1> HIDE DEF new
<1>3. \A p \in Unsaved(s) : \E i \in DOMAIN inserts : inserts[i][2] = s.frame.rows[p]
  <2> TAKE p \in Unsaved(s)
  <2>1. PICK i \in DOMAIN new : new[i] = p
    BY <1>2
  <2>2. i \in DOMAIN inserts /\ inserts[i] = <<s.added[p], s.frame.rows[p]>>
    BY <2>1
  <2> QED BY <2>2
<1>4. DOMAIN inserts = DOMAIN new
  OBVIOUS
<1> HIDE DEF inserts
<1> QED BY <1>1, <1>2, <1>3, <1>4

LEMMA SaveMergesStep ==
  ASSUME IInv, ApplySql
  PROVE  /\ \A k \in DOMAIN table :
               \/ k \in Active.frame.deleted /\ k \notin DOMAIN table'
               \/ /\ k \in DOMAIN table' \ Active.frame.deleted
                  /\ \/ \E p \in Changed(Active) :
                           HasRead(p, k) /\ table'[k] = Active.frame.rows[p]
                     \/ /\ ~\E p \in Changed(Active) : HasRead(p, k)
                        /\ table'[k] = table[k]
         /\ Cardinality(DOMAIN table' \ DOMAIN table) = Cardinality(Unsaved(Active))
         /\ \A p \in Unsaved(Active) :
               \E k \in DOMAIN table' \ DOMAIN table :
                   table'[k] = Active.frame.rows[p]
<1> DEFINE a == Active
           n == Cardinality(Unsaved(a))
<1>1. plan = BuildPlan(a) /\ a \in TiedSheet /\ NoDrift(plan, table)
  BY ActiveTied DEF IInv, ApplySql
<1>2. PICK assigned \in [DOMAIN plan.inserts -> Keys \ DOMAIN table] :
        IsInjective(assigned) /\ table' = Run(plan, table, assigned)
  BY DEF ApplySql
<1>3. /\ DOMAIN table' = (DOMAIN table \cup Range(assigned)) \ plan.deletes
      /\ \A k \in DOMAIN table \ plan.deletes :
            table'[k] = IF k \in DOMAIN plan.sets THEN plan.sets[k] ELSE table[k]
      /\ \A i \in DOMAIN plan.inserts :
            assigned[i] \notin plan.deletes => table'[assigned[i]] = plan.inserts[i][2]
  BY <1>2, RunFacts
<1>4. plan.deletes = a.frame.deleted
  BY <1>1 DEF BuildPlan
<1>5. plan.deletes \subseteq DOMAIN table
  BY <1>1, PlanInTable
<1>6. \A k \in Range(assigned) : k \notin DOMAIN table
  BY <1>2, InRange
<1>7. DOMAIN table' \ DOMAIN table = Range(assigned)
  BY <1>3, <1>5, <1>6
<1>8. /\ DOMAIN plan.inserts = 1 .. n /\ n \in Nat
      /\ \A p \in Unsaved(a) : \E i \in DOMAIN plan.inserts :
            plan.inserts[i][2] = a.frame.rows[p]
  BY <1>1, InsertsListed
<1>9. ASSUME NEW k \in DOMAIN table
      PROVE  \/ k \in a.frame.deleted /\ k \notin DOMAIN table'
             \/ /\ k \in DOMAIN table' \ a.frame.deleted
                /\ \/ \E p \in Changed(a) :
                         HasRead(p, k) /\ table'[k] = a.frame.rows[p]
                   \/ /\ ~\E p \in Changed(a) : HasRead(p, k)
                      /\ table'[k] = table[k]
  <2>1. CASE k \in plan.deletes
    BY <2>1, <1>3, <1>4
  <2>2. CASE k \notin plan.deletes /\ \E p \in Changed(a) : HasRead(p, k)
    <3>1. PICK p \in Changed(a) : HasRead(p, k)
      BY <2>2
    <3>2. a.frame.ids[p] = k
      BY <3>1 DEF HasRead
    <3>3. k \in DOMAIN plan.sets /\ plan.sets[k] = a.frame.rows[p]
      BY <1>1, <3>2, PlanSets
    <3> HIDE DEF a
    <3>4. table'[k] = a.frame.rows[p] /\ k \in DOMAIN table' \ a.frame.deleted
      BY <1>3, <1>4, <2>2, <3>3
    <3> QED BY <3>1, <3>4
  <2>3. CASE k \notin plan.deletes /\ ~\E p \in Changed(a) : HasRead(p, k)
    <3>1. \A p \in Changed(a) : a.frame.ids[p] # k
      BY <2>3 DEF HasRead, Changed
    <3>2. DOMAIN plan.sets = {a.frame.ids[p] : p \in Changed(a)}
      BY <1>1 DEF BuildPlan, ByKey
    <3> HIDE DEF a
    <3>3. k \notin DOMAIN plan.sets
      BY <3>1, <3>2
    <3>4. table'[k] = table[k] /\ k \in DOMAIN table' \ a.frame.deleted
      BY <1>3, <1>4, <2>3, <3>3
    <3> QED BY <2>3, <3>4
  <2> QED BY <2>1, <2>2, <2>3
<1>10. Cardinality(DOMAIN table' \ DOMAIN table) = n
  <2>1. assigned \in [1 .. n -> Keys \ DOMAIN table] /\ IsInjective(assigned)
    BY <1>2, <1>8
  <2> HIDE DEF n
  <2>2. assigned \in Bijection(1 .. n, Range(assigned))
    BY <2>1, InRange DEF Bijection, Injection, Surjection
  <2>3. ExistsBijection(1 .. n, Range(assigned))
    BY <2>2 DEF ExistsBijection
  <2>4. Cardinality(Range(assigned)) = n
    BY <1>8, <2>3, FS_CountingElements
  <2> QED BY <1>7, <2>4
<1>11. ASSUME NEW p \in Unsaved(a)
       PROVE  \E k \in DOMAIN table' \ DOMAIN table : table'[k] = a.frame.rows[p]
  <2>1. PICK i \in DOMAIN plan.inserts : plan.inserts[i][2] = a.frame.rows[p]
    BY <1>8
  <2>2. assigned[i] \in Range(assigned)
    BY <1>2, InRange
  <2>3. assigned[i] \notin plan.deletes
    BY <2>2, <1>5, <1>6
  <2> HIDE DEF a
  <2> QED BY <1>3, <1>7, <2>1, <2>2, <2>3
<1> QED BY <1>9, <1>10, <1>11

(* A save does to the table what the user did to the sheet, and nothing    *)
(* else: the rows deleted go, the rows changed become what the sheet shows,*)
(* the rows added come in, once each, and every other row stays as the     *)
(* database has it at that moment, for any table and any writers.          *)
THEOREM Merges == Spec => SaveMerges
<1>1. ASSUME IInv, [Next]_vars
      PROVE  [ ApplySql =>
        /\ \A k \in DOMAIN table :
              \/ k \in Active.frame.deleted /\ k \notin DOMAIN table'
              \/ /\ k \in DOMAIN table' \ Active.frame.deleted
                 /\ \/ \E p \in Changed(Active) :
                          HasRead(p, k) /\ table'[k] = Active.frame.rows[p]
                    \/ /\ ~\E p \in Changed(Active) : HasRead(p, k)
                       /\ table'[k] = table[k]
        /\ Cardinality(DOMAIN table' \ DOMAIN table) = Cardinality(Unsaved(Active))
        /\ \A p \in Unsaved(Active) :
              \E k \in DOMAIN table' \ DOMAIN table :
                  table'[k] = Active.frame.rows[p] ]_vars
  BY <1>1, SaveMergesStep
<1> QED BY <1>1, Tethered, PTL DEF Spec, SaveMerges

-----------------------------------------------------------------------------
(* A row the user added is INSERTed once, as long as the table belongs to  *)
(* one sheet and can be read again after a save.  Both are needed: a sheet *)
(* drilled down from another takes the added rows with it (MC_DbTwice), and*)
(* a sheet that could not be read again still believes them unsaved.       *)

(* No two rows of the sheet are the same added row, and outside the step   *)
(* between a commit and the reload none of those without a key has landed. *)
OnceOnly ==
    /\ Len(sheets) = 1
    /\ \A p \in DOMAIN Active.added : Active.added[p] \in 0 .. Len(landed)
    /\ \A p, q \in DOMAIN Active.added :
          Active.added[p] = Active.added[q] /\ Active.added[p] # 0 => p = q
    /\ mode # "Reload" =>
          \A p \in DOMAIN Active.added : Active.added[p] # 0 => landed[Active.added[p]] = 0
    /\ AddedAtMostOnce

LEMMA OnceStays ==
  ASSUME OnceOnly, Len(sheets') = 1, Active'.added = Active.added, landed' = landed,
         mode' # "Reload" => mode # "Reload"
  PROVE  OnceOnly'
BY DEF OnceOnly, AddedAtMostOnce

LEMMA ActiveSet ==
  ASSUME IInv, OnceOnly, NEW s \in TiedSheet, SetActive(s)
  PROVE  Active' = s /\ Len(sheets') = 1
<1>1. sheets \in Seq(TiedSheet) /\ Len(sheets) = 1
  BY DEF IInv, OnceOnly
<1>2. sheets' = [sheets EXCEPT ![1] = s]
  BY <1>1 DEF SetActive
<1>3. Len(sheets') = 1 /\ sheets'[1] = s
  BY <1>1, <1>2
<1> QED BY <1>3 DEF Active

\* An edit of the rows that are there.
LEMMA OnceFrame ==
  ASSUME IInv, OnceOnly, NEW f, [Active EXCEPT !.frame = f] \in TiedSheet, SetFrame(f),
         UNCHANGED <<mode, landed>>
  PROVE  OnceOnly'
<1> DEFINE s == [Active EXCEPT !.frame = f]
<1>1. s.added = Active.added
  BY ActiveTied, TiedParts DEF Sheet
<1>2. SetActive(s)
  BY DEF SetFrame
<1> HIDE DEF s
<1>3. s \in TiedSheet
  BY DEF s
<1>4. Active' = s /\ Len(sheets') = 1
  BY <1>2, <1>3, ActiveSet
<1> QED BY <1>1, <1>4, OnceStays

LEMMA OnceSame ==
  ASSUME OnceOnly, sheets' = sheets, landed' = landed, mode' # "Reload" => mode # "Reload"
  PROVE  OnceOnly'
BY SamePlan, OnceStays DEF OnceOnly

LEMMA OnceMarks ==
  ASSUME IInv, OnceOnly, NEW S, S \subseteq Physical(Active.frame),
         SetFrame([Active.frame EXCEPT !.selected = S]), UNCHANGED <<mode, landed>>
  PROVE  OnceOnly'
<1> DEFINE f == [Active.frame EXCEPT !.selected = S]
<1>1. [Active EXCEPT !.frame = f] \in TiedSheet
  BY ActiveTied, MarksTied
<1> HIDE DEF f
<1>2. SetFrame(f)
  BY DEF f
<1> QED BY <1>1, <1>2, OnceFrame

LEMMA OnceCells ==
  ASSUME IInv, OnceOnly, NEW ps, NEW col \in Columns, NEW value \in Values \cup {Null},
         SetFrame(SetCells(Active.frame, ps, col, value)), UNCHANGED <<mode, landed>>
  PROVE  OnceOnly'
<1> DEFINE f == SetCells(Active.frame, ps, col, value)
<1>1. [Active EXCEPT !.frame = f] \in TiedSheet
  BY ActiveTied, SetCellsTied
<1> HIDE DEF f
<1>2. SetFrame(f)
  BY DEF f
<1> QED BY <1>1, <1>2, OnceFrame

LEMMA OnceAdd ==
  ASSUME IInv, OnceOnly, NEW row \in Row, AddRow(row)
  PROVE  OnceOnly'
<1> DEFINE tag == Len(landed) + 1
           s == [Active EXCEPT !.frame = InsertRowsTyped(Active.frame, <<row>>),
                               !.added = Append(Active.added, tag)]
           a == Active.added
           n == Len(a)
<1>1. landed \in Seq(Nat) /\ tag \in Nat \ {0} /\ Len(landed) \in Nat
  BY DEF IInv
<1>2. SetActive(s) /\ mode = "Normal" /\ mode' = mode /\ landed' = Append(landed, 0)
  BY DEF AddRow, Edit
<1>3. a \in Seq(Nat) /\ n \in Nat /\ Active \in Sheet
  BY ActiveTied, TiedParts
<1>4. s.added = Append(a, tag)
  BY <1>3 DEF Sheet
<1> HIDE DEF tag
<1>5. s \in TiedSheet
  BY <1>1, ActiveTied, AddTied
<1> HIDE DEF s
<1>6. Active' = s /\ Len(sheets') = 1
  BY <1>2, <1>5, ActiveSet
<1>7. /\ Len(landed') = tag /\ landed' \in Seq(Nat)
      /\ \A t \in 1 .. tag : landed'[t] = IF t = tag THEN 0 ELSE landed[t]
  BY <1>1, <1>2 DEF tag
<1>8. /\ DOMAIN Active'.added = 1 .. n + 1
      /\ \A p \in 1 .. n + 1 : Active'.added[p] = IF p = n + 1 THEN tag ELSE a[p]
  <2>1. tag \in Nat
    BY <1>1
  <2>2. /\ DOMAIN Append(a, tag) = 1 .. n + 1
        /\ \A p \in 1 .. n + 1 : Append(a, tag)[p] = IF p = n + 1 THEN tag ELSE a[p]
    BY <1>3, <2>1
  <2> HIDE DEF a, n
  <2> QED BY <1>4, <1>6, <2>2
<1>9. /\ \A p \in 1 .. n : a[p] \in 0 .. tag - 1 /\ (a[p] # 0 => landed[a[p]] = 0)
      /\ \A p, q \in 1 .. n : a[p] = a[q] /\ a[p] # 0 => p = q
  BY <1>1, <1>2, <1>3 DEF OnceOnly, tag
<1>10. \A t \in 1 .. tag - 1 : landed[t] <= 1
  BY <1>1 DEF OnceOnly, AddedAtMostOnce, tag
<1>11. \A p \in 1 .. n + 1 : p = n + 1 \/ p \in 1 .. n
  BY <1>3
<1> HIDE DEF a, n
<1>12. \A p \in 1 .. n + 1 : /\ Active'.added[p] \in 0 .. tag
                             /\ Active'.added[p] # 0 => landed'[Active'.added[p]] = 0
  BY <1>1, <1>7, <1>8, <1>9, <1>11
<1>13. \A p, q \in 1 .. n + 1 :
          Active'.added[p] = Active'.added[q] /\ Active'.added[p] # 0 => p = q
  BY <1>1, <1>8, <1>9, <1>11
<1>14. \A t \in DOMAIN landed' : landed'[t] <= 1
  BY <1>1, <1>7, <1>10
<1> QED BY <1>6, <1>7, <1>8, <1>12, <1>13, <1>14 DEF OnceOnly, AddedAtMostOnce

LEMMA OnceDelete ==
  ASSUME IInv, OnceOnly, DeleteSelectedRows
  PROVE  OnceOnly'
<1> DEFINE a == Active
           s == [a EXCEPT !.frame = DeleteSelected(a.frame),
                          !.gone = a.gone \cup ({a.added[p] : p \in a.frame.selected} \ {0})]
<1>1. SetActive(s) /\ UNCHANGED <<mode, landed>>
  BY DEF DeleteSelectedRows, Edit
<1>2. a \in TiedSheet
  BY ActiveTied
<1>3. s.added = a.added
  BY <1>2, TiedParts DEF Sheet
<1>4. s \in TiedSheet
  <2> HIDE DEF a
  <2> QED BY <1>2, DeleteTied
<1> HIDE DEF s
<1>5. Active' = s /\ Len(sheets') = 1
  BY <1>1, <1>4, ActiveSet
<1> QED BY <1>1, <1>3, <1>5, OnceStays

\* A save INSERTs each of the rows without a key once.
LEMMA OnceApply ==
  ASSUME IInv, OnceOnly, ApplySql
  PROVE  OnceOnly'
<1> DEFINE a == Active.added
           into(t) == {i \in DOMAIN plan.inserts : plan.inserts[i][1] = t}
           new == InOrder(Unsaved(Active), Ascending(Unsaved(Active)))
<1>1. plan = BuildPlan(Active) /\ Active \in TiedSheet /\ landed \in Seq(Nat)
      /\ mode # "Reload" /\ mode' = "Reload" /\ sheets' = sheets
  BY ActiveTied DEF IInv, ApplySql
<1>2. plan.inserts = [i \in DOMAIN new |-> <<a[new[i]], Active.frame.rows[new[i]]>>]
  BY <1>1 DEF BuildPlan
<1>3. /\ \A i \in DOMAIN new : new[i] \in Unsaved(Active)
      /\ \A i, j \in DOMAIN new : new[i] = new[j] => i = j
  BY <1>1, UnsavedListed
<1>4. DOMAIN a = Physical(Active.frame) /\ a \in Seq(Nat)
  BY <1>1, TiedParts DEF Tied
<1>5. landed' = [t \in DOMAIN landed |-> landed[t] + Cardinality(into(t))]
  BY DEF ApplySql
<1> HIDE DEF new
<1>6. \A i \in DOMAIN new : new[i] \in DOMAIN a
  BY <1>3, <1>4 DEF Unsaved
<1>7. DOMAIN plan.inserts = DOMAIN new /\ \A i \in DOMAIN new : plan.inserts[i][1] = a[new[i]]
  BY <1>2
<1>8. ASSUME NEW t \in DOMAIN landed
      PROVE  landed[t] + Cardinality(into(t)) <= 1
  <2>1. t \in Nat \ {0} /\ landed[t] \in Nat /\ landed[t] <= 1
    BY <1>1, <1>8 DEF OnceOnly, AddedAtMostOnce
  <2>2. CASE into(t) = {}
    BY <2>1, <2>2, FS_EmptySet
  <2>3. CASE into(t) # {}
    <3>1. PICK i \in DOMAIN new : a[new[i]] = t
      BY <1>7, <2>3
    <3>2. \A j \in DOMAIN new : a[new[j]] = t => j = i
      BY <1>3, <1>6, <2>1, <3>1 DEF OnceOnly
    <3>3. into(t) = {i}
      BY <1>7, <3>1, <3>2
    <3>4. landed[t] = 0
      BY <1>1, <1>6, <2>1, <3>1 DEF OnceOnly
    <3>5. Cardinality(into(t)) = 1
      BY <3>3, FS_Singleton
    <3> QED BY <3>4, <3>5
  <2> QED BY <2>2, <2>3
<1> HIDE DEF into
<1>9. AddedAtMostOnce'
  BY <1>5, <1>8 DEF AddedAtMostOnce
<1>10. Active' = Active /\ Len(landed') = Len(landed)
  BY <1>1, <1>5, SamePlan
<1> QED BY <1>1, <1>9, <1>10 DEF OnceOnly

\* What is read again was not added by anybody.
LEMMA OnceReload ==
  ASSUME IInv, OnceOnly, ReloadDbSheet
  PROVE  OnceOnly'
<1> DEFINE f == Active.frame
           fresh == Load(table)
           marked == {p \in Physical(fresh.frame) :
                          fresh.frame.ids[p] \in KeysOf(f, f.selected)}
           s == [fresh EXCEPT !.frame = [fresh.frame EXCEPT !.selected = marked]]
<1>1. fresh \in TiedSheet /\ \A p \in DOMAIN fresh.added : fresh.added[p] = 0
  BY LoadTied DEF IInv, Load
<1>2. SetActive(s) /\ landed' = landed
  BY DEF ReloadDbSheet
<1> HIDE DEF fresh
<1>3. s.added = fresh.added
  BY <1>1, TiedParts DEF Sheet
<1>4. s \in TiedSheet
  BY <1>1, MarksTied
<1> HIDE DEF s
<1>5. Active' = s /\ Len(sheets') = 1
  BY <1>2, <1>4, ActiveSet
<1>6. Len(landed) \in Nat
  BY DEF IInv
<1> QED BY <1>1, <1>2, <1>3, <1>5, <1>6 DEF OnceOnly, AddedAtMostOnce

LEMMA InitOnce ==
  ASSUME Init
  PROVE  OnceOnly
<1>1. DOMAIN table \subseteq Keys /\ Range(table) \subseteq Row
  BY TablesAssumption DEF Init
<1>2. Len(sheets) = 1 /\ Active = Load(table) /\ landed = <<>>
  BY DEF Init, Active
<1>3. \A p \in DOMAIN Active.added : Active.added[p] = 0
  BY <1>2 DEF Load
<1> QED BY <1>2, <1>3 DEF OnceOnly, AddedAtMostOnce

LEMMA NextOnce ==
  ASSUME ~Dives, ~ReloadMayFail, IInv, OnceOnly, [Next]_vars
  PROVE  OnceOnly'
<1>1. ASSUME NEW S \in SUBSET Visible(Active.frame), MarkRows(S) PROVE OnceOnly'
  <2> DEFINE T == (Active.frame.selected \ Visible(Active.frame)) \cup S
  <2>1. T \subseteq Physical(Active.frame)
    BY ActiveTied, TiedParts DEF Tied
  <2>2. SetFrame([Active.frame EXCEPT !.selected = T]) /\ UNCHANGED <<mode, landed>>
    BY <1>1 DEF MarkRows
  <2> HIDE DEF T
  <2> QED BY <2>1, <2>2, OnceMarks
<1>2. CASE UnselectAllRows
  BY <1>2, OnceMarks DEF UnselectAllRows
<1>3. ASSUME NEW p, NEW col \in Columns, NEW value \in Values \cup {Null},
             ApplyEdit(p, col, value)
      PROVE  OnceOnly'
  BY <1>3, OnceCells DEF ApplyEdit, Edit
<1>4. ASSUME NEW col \in Columns, NEW value \in Values \cup {Null},
             ApplyBulkEdit(col, value)
      PROVE  OnceOnly'
  BY <1>4, OnceCells DEF ApplyBulkEdit, Edit
<1>5. ASSUME NEW row \in Row, AddRow(row) PROVE OnceOnly'
  BY <1>5, OnceAdd
<1>6. CASE DeleteSelectedRows
  BY <1>6, OnceDelete
<1>7. ASSUME NEW col, NEW value, DrillDown(col, value) PROVE OnceOnly'
  BY <1>7 DEF DrillDown
<1>8. CASE PopSheet
  BY <1>8 DEF PopSheet, OnceOnly
<1>9. CASE SaveFile \/ CancelSave \/ ApplySqlFails \/ CancelSql \/ SaveIntoDatabase
  BY <1>9, OnceSame
     DEF SaveFile, CancelSave, ApplySqlFails, CancelSql, SaveIntoDatabase
<1>10. CASE ReloadFails
  BY <1>10 DEF ReloadFails
<1>11. CASE ApplySql
  BY <1>11, OnceApply
<1>12. CASE ReloadDbSheet
  BY <1>12, OnceReload
<1>13. ASSUME NEW t \in OneWriteAway, OtherWrites(t) PROVE OnceOnly'
  BY <1>13, OnceSame DEF OtherWrites
<1>14. CASE UNCHANGED vars
  BY <1>14, OnceSame DEF vars
<1> QED BY <1>1, <1>2, <1>3, <1>4, <1>5, <1>6, <1>7, <1>8, <1>9, <1>10, <1>11,
           <1>12, <1>13, <1>14 DEF Next

(* However often the user saves, edits on, gives up a plan or is refused,  *)
(* a row added in the sheet gets into the table at most once, if the sheet *)
(* is the only one over its table and reading it again does not fail.      *)
THEOREM AddedRowsLandOnce ==
  ASSUME ~Dives, ~ReloadMayFail
  PROVE  Spec => []AddedAtMostOnce
<1>1. Init => OnceOnly
  BY InitOnce
<1>2. IInv /\ OnceOnly /\ [Next]_vars => OnceOnly'
  BY NextOnce
<1>3. OnceOnly => AddedAtMostOnce
  BY DEF OnceOnly
<1> QED BY <1>1, <1>2, <1>3, Tethered, PTL DEF Spec
=============================================================================
