-------------------------- MODULE DocSheets_proofs --------------------------
(***************************************************************************)
(* Sheets over documents of any shape, stacked to any depth and edited any *)
(* number of times: a refused command leaves the trees alone, a list of    *)
(* hits opens only what it found, and a sort marker goes with the order,   *)
(* none of which depends on what the operations on trees compute.  What    *)
(* they write and how a projection is laid out carry the rest: each cell   *)
(* of the active sheet shows the node an edit of it would write to, the    *)
(* column commands lose no value, and every sheet keeps its shape.         *)
(***************************************************************************)
EXTENDS DocSheets, Orders_proofs

-----------------------------------------------------------------------------
(* Sheets as records with fields of any kind.                              *)

Parts == {"doc", "view", "hits", "sourced", "paths", "roles", "cells", "width",
          "marked", "ordered", "undo", "redo", "renamed"}
IsSheet(s) == s = [x \in Parts |-> s[x]]
IsDoc(d) == d = [x \in {"root", "revision"} |-> d[x]] /\ d.revision \in Nat

\* The same sheet over the same document, shown otherwise.
SameSheet(s, t) == IsSheet(t) /\ t.doc = s.doc /\ t.hits = s.hits

LEMMA NewSheet ==
  ASSUME NEW table, NEW d, NEW view, NEW sourced
  PROVE  /\ IsSheet(SheetOf(table, d, view, sourced))
         /\ SheetOf(table, d, view, sourced).doc = d
         /\ SheetOf(table, d, view, sourced).hits = NoHits
BY DEF SheetOf, IsSheet, Parts

LEMMA OverSheet ==
  ASSUME NEW d, NEW root, NEW view, NEW sourced
  PROVE  /\ IsSheet(SheetOver(d, root, view, sourced))
         /\ SheetOver(d, root, view, sourced).doc = d
         /\ SheetOver(d, root, view, sourced).hits = NoHits
BY NewSheet DEF SheetOver

LEMMA UndoPushed ==
  ASSUME NEW s, IsSheet(s)
  PROVE  /\ SameSheet(s, PushUndo(s))
         /\ PushUndo(s).marked = s.marked /\ PushUndo(s).ordered = s.ordered
<1> DEFINE pushed == Pushed(s.undo, Snapshot(s))
<1>1. PushUndo(s) = [s EXCEPT !.undo = pushed, !.redo = <<>>]
  BY DEF PushUndo
<1> HIDE DEF pushed
<1> QED BY <1>1 DEF SameSheet, IsSheet, Parts

LEMMA ShowingSame ==
  ASSUME NEW s, IsSheet(s), NEW table
  PROVE  SameSheet(s, Showing(s, table)) /\ Showing(s, table).marked = s.marked
BY DEF Showing, SameSheet, IsSheet, Parts

LEMMA ReprojectedSame ==
  ASSUME NEW s, IsSheet(s), NEW root
  PROVE  SameSheet(s, Reprojected(s, root)) /\ Reprojected(s, root).marked = s.marked
<1> DEFINE table == Project(root, s.view)
<1>1. Reprojected(s, root) = IF table = Refused THEN s ELSE Showing(s, table[2])
  BY DEF Reprojected, Refreshed
<1> HIDE DEF table
<1> QED BY <1>1, ShowingSame DEF SameSheet

LEMMA RestoredSame ==
  ASSUME NEW s, IsSheet(s), NEW snap
  PROVE  SameSheet(s, Restored(s, snap))
<1> DEFINE table == Project(snap.root, s.view)
           kept == [s EXCEPT !.cells = snap.cells, !.width = snap.width,
                             !.ordered = snap.ordered]
<1>1. Restored(s, snap) = IF table = Refused THEN kept ELSE Showing(s, table[2])
  BY DEF Restored, Refreshed
<1>2. SameSheet(s, kept)
  BY DEF SameSheet, IsSheet, Parts
<1> HIDE DEF table, kept
<1> QED BY <1>1, <1>2, ShowingSame

LEMMA UnsortedSame ==
  ASSUME NEW s, IsSheet(s)
  PROVE  /\ SameSheet(s, Unsorted(s))
         /\ Unsorted(s).marked = FALSE
BY DEF Unsorted, SameSheet, IsSheet, Parts

-----------------------------------------------------------------------------
(* The invariant: a list of hits names a document that is there, never at  *)
(* a revision to come, and at the present one it is true of the tree.  A   *)
(* list lives in a sheet and is compared when it is used, so it has to     *)
(* hold of every list on the stack and not only of the one on screen.      *)

Depth == Len(sheets)

True(hits, trees) ==
    hits.doc # 0 /\ hits.revision = trees[hits.doc].revision =>
        \A p \in DOMAIN hits.found : hits.found[p] = Shown(Get(trees[hits.doc].root, p))

SheetOK(s, trees) ==
    /\ IsSheet(s)
    /\ s.doc \in 0 .. Len(trees) /\ s.hits.doc \in 0 .. Len(trees)
    /\ s.hits.doc # 0 => s.hits.revision \in 0 .. trees[s.hits.doc].revision
    /\ True(s.hits, trees)

DocInv ==
    /\ IsList(docs) /\ \A d \in 1 .. Len(docs) : IsDoc(docs[d])
    /\ IsList(sheets) /\ Len(sheets) >= 1
    /\ \A i \in 1 .. Len(sheets) : SheetOK(sheets[i], docs)

LEMMA ListedIsSeq ==
  ASSUME NEW s, IsList(s), NEW T, \A i \in 1 .. Len(s) : s[i] \in T
  PROVE  s \in Seq(T)
<1>1. [i \in 1 .. Len(s) |-> s[i]] \in Seq(T)
  BY DEF IsList
<1> QED BY <1>1 DEF IsList

LEMMA SeqIsListed ==
  ASSUME NEW T, NEW s \in Seq(T)
  PROVE  IsList(s)
BY DEF IsList

LEMMA ListAppended ==
  ASSUME NEW s, IsList(s), NEW e
  PROVE  /\ IsList(Append(s, e)) /\ Len(Append(s, e)) = Len(s) + 1
         /\ \A i \in 1 .. Len(s) : Append(s, e)[i] = s[i]
         /\ Append(s, e)[Len(s) + 1] = e
<1> DEFINE T == {s[i] : i \in 1 .. Len(s)} \cup {e}
<1>1. s \in Seq(T) /\ e \in T
  BY ListedIsSeq
<1> HIDE DEF T
<1>2. /\ Append(s, e) \in Seq(T) /\ Len(Append(s, e)) = Len(s) + 1
      /\ \A i \in 1 .. Len(s) : Append(s, e)[i] = s[i]
      /\ Append(s, e)[Len(s) + 1] = e
  BY <1>1, AppendProperties
<1>3. IsList(Append(s, e))
  BY <1>2, SeqIsListed
<1> QED BY <1>2, <1>3

\* A list with another element at k.
Put(s, k, e) == [s EXCEPT ![k] = e]

LEMMA ListUpdated ==
  ASSUME NEW s, IsList(s), NEW k \in 1 .. Len(s), NEW e
  PROVE  /\ IsList(Put(s, k, e)) /\ Len(Put(s, k, e)) = Len(s)
         /\ Put(s, k, e)[k] = e
         /\ \A i \in 1 .. Len(s) : i # k => Put(s, k, e)[i] = s[i]
<1> DEFINE T == {s[i] : i \in 1 .. Len(s)} \cup {e}
           t == [s EXCEPT ![k] = e]
<1>1. s \in Seq(T) /\ e \in T
  BY ListedIsSeq
<1> HIDE DEF T
<1>2. t \in Seq(T) /\ Len(t) = Len(s) /\ t[k] = e
      /\ \A i \in 1 .. Len(s) : i # k => t[i] = s[i]
  BY <1>1
<1> QED BY <1>2, SeqIsListed DEF Put

LEMMA ListFront ==
  ASSUME NEW s, IsList(s), Len(s) > 0
  PROVE  /\ IsList(Front(s)) /\ Len(Front(s)) = Len(s) - 1
         /\ \A i \in 1 .. Len(s) - 1 : Front(s)[i] = s[i]
<1> DEFINE T == {s[i] : i \in 1 .. Len(s)}
           n == Len(s) - 1
<1>1. s \in Seq(T) /\ n \in Nat /\ \A i \in 1 .. n : s[i] \in T
  BY ListedIsSeq DEF IsList
<1>2. Front(s) = SubSeq(s, 1, n)
  BY DEF Front
<1> HIDE DEF T
<1>3. /\ SubSeq(s, 1, n) \in Seq(T)
      /\ Len(SubSeq(s, 1, n)) = IF 1 <= n THEN n - 1 + 1 ELSE 0
      /\ \A i \in 1 .. n - 1 + 1 : SubSeq(s, 1, n)[i] = s[1 + i - 1]
  <2> HIDE DEF n
  <2> QED BY <1>1, SubSeqProperties
<1>4. IsList(Front(s))
  BY <1>2, <1>3, SeqIsListed
<1>5. \A i \in 1 .. n : i \in 1 .. n - 1 + 1 /\ 1 + i - 1 = i
  BY <1>1
<1>n. n \in Nat
  BY <1>1
<1> HIDE DEF n
<1>6. (IF 1 <= n THEN n - 1 + 1 ELSE 0) = n
  BY <1>n
<1>7. Len(Front(s)) = n /\ \A i \in 1 .. n : Front(s)[i] = s[i]
  BY <1>2, <1>3, <1>5, <1>6
<1> QED BY <1>4, <1>7 DEF n

-----------------------------------------------------------------------------
(* What the parts of an action do.                                         *)

LEMMA TopOK ==
  ASSUME DocInv
  PROVE  /\ Depth \in Nat /\ Depth \in 1 .. Depth /\ Top = sheets[Depth]
         /\ SheetOK(Top, docs) /\ IsSheet(Top) /\ Top.doc \in 0 .. Len(docs)
BY DEF DocInv, Depth, Top, SheetOK, IsList

\* Trees that are as they were, or under a new revision.
Later(d) == \/ docs'[d] = docs[d]
            \/ docs'[d].revision = docs[d].revision + 1

\* A tree replaced, under the next revision.
Revised(d, tree) == [d EXCEPT !.root = tree, !.revision = @ + 1]

LEMMA RevisedDoc ==
  ASSUME NEW d, IsDoc(d), NEW tree
  PROVE  /\ IsDoc(Revised(d, tree)) /\ Revised(d, tree).root = tree
         /\ Revised(d, tree).revision = d.revision + 1
<1> DEFINE next == d.revision + 1
           now == [d EXCEPT !.root = tree, !.revision = next]
<1>1. next \in Nat
  BY DEF IsDoc
<1>2. now = Revised(d, tree)
  BY DEF Revised
<1> HIDE DEF next
<1>3. d = [x \in {"root", "revision"} |-> d[x]]
  BY DEF IsDoc
<1>4. now.root = tree /\ now.revision = next
  BY <1>3
<1>5. now = [x \in {"root", "revision"} |-> now[x]]
  BY <1>3
<1> HIDE DEF now
<1> QED BY <1>1, <1>2, <1>4, <1>5 DEF IsDoc, next

LEMMA Replaced ==
  ASSUME DocInv, NEW d \in 1 .. Len(docs), NEW tree, Replace(d, tree)
  PROVE  /\ IsList(docs') /\ Len(docs') = Len(docs)
         /\ \A e \in 1 .. Len(docs) : IsDoc(docs'[e]) /\ Later(e)
         /\ docs'[d].root = tree
         /\ \A e \in 1 .. Len(docs) : e # d => docs'[e] = docs[e]
<1> DEFINE written == Revised(docs[d], tree)
<1>1. docs' = Put(docs, d, written)
  BY DEF Replace, Revised, Put, DocInv, IsList
<1>2. IsList(docs) /\ \A e \in 1 .. Len(docs) : IsDoc(docs[e])
  BY DEF DocInv
<1>3. /\ IsDoc(written) /\ written.root = tree
      /\ written.revision = docs[d].revision + 1
  BY <1>2, RevisedDoc
<1> HIDE DEF written
<1>4. /\ IsList(docs') /\ Len(docs') = Len(docs) /\ docs'[d] = written
      /\ \A e \in 1 .. Len(docs) : e # d => docs'[e] = docs[e]
  BY <1>1, <1>2, ListUpdated
<1> QED BY <1>2, <1>3, <1>4 DEF Later

LEMMA HitsStay ==
  ASSUME DocInv, Len(docs') >= Len(docs), Len(docs') \in Nat,
         NEW s, SheetOK(s, docs), NEW t, SameSheet(s, t) \/ t = s,
         \A d \in 1 .. Len(docs) : d = s.hits.doc => Later(d)
  PROVE  SheetOK(t, docs')
<1>1. IsSheet(t) /\ t.doc = s.doc /\ t.hits = s.hits
  BY DEF SameSheet, SheetOK
<1>2. t.doc \in 0 .. Len(docs') /\ t.hits.doc \in 0 .. Len(docs')
  BY <1>1 DEF SheetOK, DocInv, IsList
<1>3. CASE s.hits.doc = 0
  BY <1>1, <1>2, <1>3 DEF SheetOK, True
<1>4. CASE s.hits.doc # 0
  <2> DEFINE d == s.hits.doc
  <2>1. d \in 1 .. Len(docs) /\ Later(d) /\ docs[d].revision \in Nat
        /\ s.hits.revision \in 0 .. docs[d].revision
    BY <1>4 DEF SheetOK, DocInv, IsDoc, IsList
  <2>2. CASE docs'[d] = docs[d]
    BY <1>1, <1>2, <2>1, <2>2 DEF SheetOK, True
  <2>3. CASE docs'[d].revision = docs[d].revision + 1
    <3>1. /\ s.hits.revision \in 0 .. docs'[d].revision
          /\ s.hits.revision # docs'[d].revision
      BY <2>1, <2>3
    <3> QED BY <1>1, <1>2, <3>1 DEF SheetOK, True
  <2> QED BY <2>1, <2>2, <2>3 DEF Later
<1> QED BY <1>3, <1>4

\* What any step may do with the documents.
DocsLater ==
    /\ IsList(docs') /\ Len(docs') >= Len(docs)
    /\ \A d \in 1 .. Len(docs') : IsDoc(docs'[d])
    /\ \A d \in 1 .. Len(docs) : Later(d)

LEMMA DocsStay ==
  ASSUME DocInv, UNCHANGED docs
  PROVE  DocsLater
BY DEF DocsLater, DocInv, Later, IsList

LEMMA DocsReplaced ==
  ASSUME DocInv, NEW d \in 1 .. Len(docs), NEW tree, Replace(d, tree)
  PROVE  DocsLater
<1>1. Len(docs) \in Nat
  BY DEF DocInv, IsList
<1> QED BY <1>1, Replaced DEF DocsLater

LEMMA DocsAdded ==
  ASSUME DocInv, NEW tree, docs' = Append(docs, [root |-> tree, revision |-> 0])
  PROVE  DocsLater /\ Len(docs') = Len(docs) + 1
         /\ \A d \in 1 .. Len(docs) : docs'[d] = docs[d]
<1> DEFINE added == [root |-> tree, revision |-> 0]
<1>1. IsDoc(added)
  BY DEF IsDoc
<1>2. docs' = Append(docs, added)
  OBVIOUS
<1> HIDE DEF added
<1>3. IsList(docs) /\ Len(docs) \in Nat /\ \A d \in 1 .. Len(docs) : IsDoc(docs[d])
  BY DEF DocInv, IsList
<1>4. /\ IsList(docs') /\ Len(docs') = Len(docs) + 1
      /\ \A d \in 1 .. Len(docs) : docs'[d] = docs[d]
      /\ docs'[Len(docs) + 1] = added
  BY <1>2, <1>3, ListAppended
<1>5. \A d \in 1 .. Len(docs') : d \in 1 .. Len(docs) \/ d = Len(docs) + 1
  BY <1>3, <1>4
<1>6. \A d \in 1 .. Len(docs') : IsDoc(docs'[d])
  BY <1>1, <1>3, <1>4, <1>5
<1> QED BY <1>3, <1>4, <1>6 DEF DocsLater, Later

LEMMA SheetsStayOK ==
  ASSUME DocInv, DocsLater
  PROVE  \A s, t : SheetOK(s, docs) /\ (SameSheet(s, t) \/ t = s) => SheetOK(t, docs')
BY HitsStay DEF DocsLater, IsList

LEMMA FreshOK ==
  ASSUME DocInv, DocsLater, NEW s, IsSheet(s), s.hits = NoHits, s.doc \in 0 .. Len(docs')
  PROVE  SheetOK(s, docs')
<1>1. s.hits.doc = 0 /\ Len(docs') \in Nat
  BY DEF NoHits, DocsLater, IsList
<1> QED BY <1>1 DEF SheetOK, True

LEMMA StackStays ==
  ASSUME DocInv, DocsLater, UNCHANGED sheets
  PROVE  DocInv'
BY SheetsStayOK DEF DocInv, DocsLater

LEMMA ShowKeeps ==
  ASSUME DocInv, DocsLater, NEW t, SheetOK(t, docs'), Show(t)
  PROVE  DocInv' /\ Len(sheets') = Len(sheets) /\ Top' = t
<1>1. Depth \in 1 .. Len(sheets) /\ Depth = Len(sheets) /\ IsList(sheets)
  BY TopOK DEF Depth, DocInv
<1>2. sheets' = Put(sheets, Depth, t)
  BY DEF Show, Depth, Put
<1>3. /\ IsList(sheets') /\ Len(sheets') = Len(sheets) /\ sheets'[Depth] = t
      /\ \A i \in 1 .. Len(sheets) : i # Depth => sheets'[i] = sheets[i]
  BY <1>1, <1>2, ListUpdated
<1>4. \A i \in 1 .. Len(sheets) : SheetOK(sheets'[i], docs')
  BY <1>3, SheetsStayOK DEF DocInv
<1>5. Top' = t
  BY <1>1, <1>3 DEF Top
<1> QED BY <1>3, <1>4, <1>5 DEF DocInv, DocsLater

LEMMA SameSheetOK ==
  ASSUME DocInv, DocsLater, NEW t, SameSheet(Top, t)
  PROVE  SheetOK(t, docs')
BY TopOK, SheetsStayOK

LEMMA OpenKeeps ==
  ASSUME DocInv, DocsLater, NEW s, SheetOK(s, docs'), Open(s)
  PROVE  DocInv' /\ Len(sheets') = Len(sheets) + 1
<1>1. IsList(sheets) /\ Len(sheets) \in Nat /\ Len(sheets) >= 1
  BY DEF DocInv, IsList
<1>2. /\ IsList(sheets') /\ Len(sheets') = Len(sheets) + 1
      /\ \A i \in 1 .. Len(sheets) : sheets'[i] = sheets[i]
      /\ sheets'[Len(sheets) + 1] = s
  BY <1>1, ListAppended DEF Open
<1>3. \A i \in 1 .. Len(sheets') : i \in 1 .. Len(sheets) \/ i = Len(sheets) + 1
  BY <1>1, <1>2
<1>4. \A i \in 1 .. Len(sheets) : SheetOK(sheets'[i], docs')
  BY <1>2, SheetsStayOK DEF DocInv
<1>5. \A i \in 1 .. Len(sheets') : SheetOK(sheets'[i], docs')
  BY <1>2, <1>3, <1>4
<1>6. Len(sheets') >= 1
  BY <1>1, <1>2
<1> QED BY <1>2, <1>5, <1>6 DEF DocInv, DocsLater

-----------------------------------------------------------------------------
(* What each step has to keep.                                             *)

Restrained ==
    refused' => /\ \A d \in DOMAIN docs : docs'[d].root = docs[d].root
                /\ Len(sheets') = Len(sheets)

FoundAgain ==
    (Len(sheets') > Len(sheets) /\ Top.doc = 0) =>
        \A p \in DOMAIN Top.hits.found :
            Top.hits.found[p] = Shown(Get(docs[Top.hits.doc].root, p))

Marked ==
    (/\ Len(sheets') = Len(sheets) /\ ~refused' /\ (Top.marked => Top.ordered)
     /\ (Top.marked /\ ~Top.ordered)') => Undo \/ Redo

Good == DocInv' /\ Restrained /\ FoundAgain /\ Marked

LEMMA NotLonger == DocInv /\ DocInv' /\ Len(sheets') <= Len(sheets) => FoundAgain
BY DEF FoundAgain, DocInv, IsList

LEMMA OnDocIsDoc == DocInv /\ OnDoc => Top.doc \in 1 .. Len(docs)
BY TopOK DEF OnDoc, DocInv, IsList

\* The active sheet shown otherwise, over the tree there was or another one.
LEMMA Edited ==
  ASSUME DocInv, NEW t, SameSheet(Top, t), Show(t), Say(FALSE),
         UNCHANGED docs \/ (OnDoc /\ \E tree : Replace(Top.doc, tree)),
         t.marked => \/ t.marked = Top.marked /\ t.ordered = Top.ordered
                     \/ t.ordered \/ Undo \/ Redo
  PROVE  Good
<1>1. DocsLater
  BY DocsStay, DocsReplaced, OnDocIsDoc
<1>2. DocInv' /\ Len(sheets') = Len(sheets) /\ Top' = t
  BY <1>1, SameSheetOK, ShowKeeps
<1>3. Restrained
  BY DEF Restrained, Say
<1>4. Marked
  BY <1>2 DEF Marked
<1> QED BY <1>2, <1>3, <1>4, NotLonger DEF Good, DocInv, IsList

\* A refusal: nothing is done, or what was done is taken back.
LEMMA Answered ==
  ASSUME DocInv, NEW t, SameSheet(Top, t), Show(t), Say(TRUE),
         UNCHANGED docs \/ (OnDoc /\ Replace(Top.doc, Root(Top)))
  PROVE  Good
<1>1. DocsLater
  BY DocsStay, DocsReplaced, OnDocIsDoc
<1>2. DocInv' /\ Len(sheets') = Len(sheets) /\ Top' = t
  BY <1>1, SameSheetOK, ShowKeeps
<1>3. \A d \in DOMAIN docs : docs'[d].root = docs[d].root
  <2>1. CASE UNCHANGED docs
    BY <2>1
  <2>2. CASE OnDoc /\ Replace(Top.doc, Root(Top))
    <3>1. Top.doc \in 1 .. Len(docs) /\ DOMAIN docs = 1 .. Len(docs)
      BY <2>2, OnDocIsDoc DEF DocInv, IsList
    <3>2. /\ docs'[Top.doc].root = Root(Top)
          /\ \A e \in 1 .. Len(docs) : e # Top.doc => docs'[e] = docs[e]
      BY <2>2, <3>1, Replaced
    <3> QED BY <3>1, <3>2 DEF Root
  <2> QED BY <2>1, <2>2
<1>4. Restrained
  BY <1>2, <1>3 DEF Restrained
<1>5. Marked
  BY DEF Marked, Say
<1> QED BY <1>2, <1>4, <1>5, NotLonger DEF Good, DocInv, IsList

\* A step that leaves the sheets alone.
LEMMA Nothing ==
  ASSUME DocInv, UNCHANGED <<docs, sheets>>
  PROVE  Good
<1>1. DocInv' /\ Len(sheets') = Len(sheets)
  BY DocsStay, StackStays
<1>2. Restrained
  BY DEF Restrained
<1>3. Marked
  BY DEF Marked, Top
<1> QED BY <1>1, <1>2, <1>3, NotLonger DEF Good, DocInv, IsList

-----------------------------------------------------------------------------
(* The commands.                                                           *)

LEMMA RefuseGood ==
  ASSUME DocInv, Refuse
  PROVE  Good
<1> DEFINE t == [Top EXCEPT !.redo = <<>>]
<1>1. Show(t) /\ Say(TRUE) /\ UNCHANGED docs
  BY DEF Refuse
<1>2. SameSheet(Top, t)
  BY TopOK DEF SameSheet, IsSheet, Parts
<1> HIDE DEF t
<1> QED BY <1>1, <1>2, Answered

LEMMA TakeBackGood ==
  ASSUME DocInv, OnDoc, NEW written, TakeBack(written)
  PROVE  Good
<1> DEFINE r == Restored(Top, Snapshot(Top))
           t == [r EXCEPT !.redo = <<>>]
<1>1. Show(t) /\ Say(TRUE) /\ Replace(Top.doc, Root(Top))
  BY DEF TakeBack, Snapshot
<1>2. SameSheet(Top, r)
  BY TopOK, RestoredSame
<1> HIDE DEF r
<1>3. SameSheet(Top, t)
  BY <1>2 DEF SameSheet, IsSheet, Parts
<1> HIDE DEF t
<1> QED BY <1>1, <1>3, Answered

\* The sheet as it is but for its table and its history.
Alike(t) == SameSheet(Top, t) /\ t.marked = Top.marked /\ t.ordered = Top.ordered

LEMMA PatchedAlike ==
  ASSUME DocInv, NEW cells, NEW renamed
  PROVE  Alike([PushUndo(Top) EXCEPT !.cells = cells, !.renamed = renamed])
<1> DEFINE u == PushUndo(Top)
           t == [u EXCEPT !.cells = cells, !.renamed = renamed]
<1>1. /\ IsSheet(u) /\ u.doc = Top.doc /\ u.hits = Top.hits
      /\ u.marked = Top.marked /\ u.ordered = Top.ordered
  BY TopOK, UndoPushed DEF SameSheet
<1> HIDE DEF u
<1>2. /\ IsSheet(t) /\ t.doc = u.doc /\ t.hits = u.hits
      /\ t.marked = u.marked /\ t.ordered = u.ordered
  BY <1>1 DEF IsSheet, Parts
<1> HIDE DEF t
<1>3. Alike(t)
  BY <1>1, <1>2 DEF Alike, SameSheet
<1> QED BY <1>3 DEF t, u

LEMMA ApplyEditGood ==
  ASSUME DocInv, ApplyEdit
  PROVE  Good
<1>1. CASE Refuse
  BY <1>1, RefuseGood
<1>2. CASE ~Refuse
  <2>1. PICK r, c, text, tree :
            /\ Replace(Top.doc, tree)
            /\ Show([PushUndo(Top) EXCEPT !.cells[r][c] = Answer(tree, r, c, text),
                                          !.renamed = @ \cup Renaming({r}, c)])
            /\ Say(FALSE)
    BY <1>2 DEF ApplyEdit
  <2> DEFINE u == PushUndo(Top)
             cells == [u.cells EXCEPT ![r] = [@ EXCEPT ![c] = Answer(tree, r, c, text)]]
             renamed == u.renamed \cup Renaming({r}, c)
             t == [u EXCEPT !.cells = cells, !.renamed = renamed]
  <2>2. Show(t)
    BY <2>1
  <2> HIDE DEF cells, renamed
  <2>3. Alike(t)
    BY PatchedAlike
  <2> HIDE DEF t
  <2> QED BY <2>1, <2>2, <2>3, Edited DEF Alike, ApplyEdit, MayEdit
<1> QED BY <1>1, <1>2

LEMMA ApplyBulkEditGood ==
  ASSUME DocInv, ApplyBulkEdit
  PROVE  Good
<1>1. OnDoc
  BY DEF ApplyBulkEdit, MayEdit
<1>2. PICK marked, c, rows, text :
          LET done == Bulk(rows, c, text)
          IN  IF done.failed THEN TakeBack(done.root)
              ELSE /\ Replace(Top.doc, done.root)
                   /\ Show([PushUndo(Top) EXCEPT !.cells = Patched(@, marked, c, text),
                                                 !.renamed = @ \cup Renaming(marked, c)])
                   /\ Say(FALSE)
  BY DEF ApplyBulkEdit
<1> DEFINE done == Bulk(rows, c, text)
           u == PushUndo(Top)
           cells == Patched(u.cells, marked, c, text)
           renamed == u.renamed \cup Renaming(marked, c)
           t == [u EXCEPT !.cells = cells, !.renamed = renamed]
<1>3. \/ TakeBack(done.root)
      \/ Replace(Top.doc, done.root) /\ Show(t) /\ Say(FALSE)
  BY <1>2
<1> HIDE DEF done, cells, renamed
<1>4. Alike(t)
  BY PatchedAlike
<1> HIDE DEF t
<1>5. CASE TakeBack(done.root)
  BY <1>1, <1>5, TakeBackGood
<1>6. CASE Replace(Top.doc, done.root) /\ Show(t) /\ Say(FALSE)
  BY <1>1, <1>4, <1>6, Edited DEF Alike
<1> QED BY <1>3, <1>5, <1>6

\* A sheet rebuilt from a tree loses its marker.
LEMMA Rebuilt ==
  ASSUME NEW s, NEW u, SameSheet(s, u), NEW tree
  PROVE  /\ SameSheet(s, Unsorted(Reprojected(u, tree)))
         /\ Unsorted(Reprojected(u, tree)).marked = FALSE
<1> DEFINE v == Reprojected(u, tree)
<1>1. IsSheet(u) /\ SameSheet(u, v)
  BY ReprojectedSame DEF SameSheet
<1> HIDE DEF v
<1>2. SameSheet(v, Unsorted(v)) /\ Unsorted(v).marked = FALSE
  BY <1>1, UnsortedSame DEF SameSheet
<1> QED BY <1>1, <1>2 DEF SameSheet, v

\* An edit that rebuilds the table.
LEMMA RebuildGood ==
  ASSUME DocInv, OnDoc, NEW u, SameSheet(Top, u), NEW shown,
         UNCHANGED docs \/ (\E tree : Replace(Top.doc, tree)),
         Show(Unsorted(Reprojected(u, shown))), Say(FALSE)
  PROVE  Good
<1> DEFINE t == Unsorted(Reprojected(u, shown))
<1>1. SameSheet(Top, t) /\ t.marked = FALSE /\ Show(t)
  BY Rebuilt
<1> HIDE DEF t
<1> QED BY <1>1, Edited

LEMMA EditNodeGood ==
  ASSUME DocInv, EditNode
  PROVE  Good
<1>1. CASE Refuse
  BY <1>1, RefuseGood
<1>2. CASE ~Refuse
  <2>1. PICK tree : /\ Replace(Top.doc, tree)
                    /\ Show(Unsorted(Reprojected(PushUndo(Top), tree)))
                    /\ Say(FALSE)
    BY <1>2 DEF EditNode
  <2>2. OnDoc /\ SameSheet(Top, PushUndo(Top))
    BY TopOK, UndoPushed DEF EditNode, MayEdit
  <2> QED BY <2>1, <2>2, RebuildGood
<1> QED BY <1>1, <1>2

LEMMA DeleteRowsGood ==
  ASSUME DocInv, DeleteRows
  PROVE  Good
<1>1. OnDoc /\ SameSheet(Top, PushUndo(Top))
  BY TopOK, UndoPushed DEF DeleteRows, MayEdit
<1>2. PICK rows :
          LET done == Without(rows)
          IN  \/ TakeBack(done.root)
              \/ /\ Replace(Top.doc, done.root)
                 /\ Show(Unsorted(Reprojected(PushUndo(Top), done.root)))
                 /\ Say(FALSE)
  BY DEF DeleteRows
<1> QED BY <1>1, <1>2, TakeBackGood, RebuildGood

LEMMA ColumnOpGood ==
  ASSUME DocInv, OnDoc, NEW outcome, ColumnOp(outcome)
  PROVE  Good
<1> DEFINE u == PushUndo(Top)
           tree == outcome[2].root
           t == [u EXCEPT !.view.expanded = outcome[2].expanded]
<1>1. CASE outcome = Refused
  BY <1>1, RefuseGood DEF ColumnOp
<1>2. CASE outcome # Refused
  <2>1. Replace(Top.doc, tree) /\ Show(Unsorted(Reprojected(t, tree))) /\ Say(FALSE)
    BY <1>2 DEF ColumnOp
  <2>2. IsSheet(u) /\ u.doc = Top.doc /\ u.hits = Top.hits
    BY TopOK, UndoPushed DEF SameSheet
  <2> HIDE DEF u
  <2>3. SameSheet(Top, t)
    BY <2>2 DEF SameSheet, IsSheet, Parts
  <2> HIDE DEF t, tree
  <2> QED BY <2>1, <2>3, RebuildGood
<1> QED BY <1>1, <1>2

LEMMA ColumnsGood ==
  ASSUME DocInv, DeleteColumn \/ RenameColumn \/ InsertColumn \/ MoveColumn
  PROVE  Good
<1>1. OnDoc /\ \E outcome : ColumnOp(outcome)
  BY DEF DeleteColumn, RenameColumn, InsertColumn, MoveColumn, MayEdit
<1> QED BY <1>1, ColumnOpGood

LEMMA UndoGood ==
  ASSUME DocInv, Undo
  PROVE  Good
<1> DEFINE r == Restored(Top, Last(Top.undo))
           back == Front(r.undo)
           forth == Pushed(r.redo, Snapshot(Top))
           t == [r EXCEPT !.undo = back, !.redo = forth]
<1>1. /\ OnDoc /\ Replace(Top.doc, Last(Top.undo).root)
      /\ Show(t) /\ Say(FALSE)
  BY DEF Undo, MayGoBack
<1>2. SameSheet(Top, r)
  BY TopOK, RestoredSame
<1> HIDE DEF r, back, forth
<1>3. SameSheet(Top, t)
  BY <1>2 DEF SameSheet, IsSheet, Parts
<1> HIDE DEF t
<1> QED BY <1>1, <1>3, Edited

LEMMA RedoGood ==
  ASSUME DocInv, Redo
  PROVE  Good
<1> DEFINE r == Restored(Top, Last(Top.redo))
           forth == Front(r.redo)
           back == Pushed(r.undo, Snapshot(Top))
           t == [r EXCEPT !.redo = forth, !.undo = back]
<1>1. /\ OnDoc /\ Replace(Top.doc, Last(Top.redo).root)
      /\ Show(t) /\ Say(FALSE)
  BY DEF Redo, MayGoBack
<1>2. SameSheet(Top, r)
  BY TopOK, RestoredSame
<1> HIDE DEF r, back, forth
<1>3. SameSheet(Top, t)
  BY <1>2 DEF SameSheet, IsSheet, Parts
<1> HIDE DEF t
<1> QED BY <1>1, <1>3, Edited

LEMMA SortGood ==
  ASSUME DocInv, Sort
  PROVE  Good
<1> DEFINE u == PushUndo(Top)
           t == [u EXCEPT !.marked = TRUE, !.ordered = TRUE]
<1>1. OnDoc /\ Show(t) /\ UNCHANGED docs /\ Say(FALSE)
  BY DEF Sort
<1>2. SameSheet(Top, u)
  BY TopOK, UndoPushed
<1> HIDE DEF u
<1>3. SameSheet(Top, t) /\ t.ordered
  BY <1>2 DEF SameSheet, IsSheet, Parts
<1> HIDE DEF t
<1> QED BY <1>1, <1>3, Edited

LEMMA ReshapeGood ==
  ASSUME DocInv, OnDoc, NEW expanded, Reshape(expanded)
  PROVE  Good
<1> DEFINE u == [Top EXCEPT !.view.expanded = expanded]
<1>1. /\ Show(Unsorted(Reprojected(u, Root(Top))))
      /\ UNCHANGED docs /\ Say(FALSE)
  BY DEF Reshape
<1>2. SameSheet(Top, u)
  BY TopOK DEF SameSheet, IsSheet, Parts
<1> HIDE DEF u
<1> QED BY <1>1, <1>2, RebuildGood

LEMMA LookGood ==
  ASSUME DocInv, ExpandColumn \/ ContractColumn \/ CycleViewMode
  PROVE  Good
<1>1. CASE ExpandColumn
  BY <1>1, ReshapeGood DEF ExpandColumn
<1>2. CASE ContractColumn
  <2>1. OnDoc /\ \E expanded : Reshape(expanded)
    BY <1>2 DEF ContractColumn
  <2> QED BY <2>1, ReshapeGood
<1>3. CASE CycleViewMode
  <2>1. /\ OnDoc /\ UNCHANGED docs /\ Say(FALSE)
        /\ \E view : Show(Unsorted(Reprojected([Top EXCEPT !.view = view], Root(Top))))
    BY <1>3 DEF CycleViewMode
  <2>2. PICK view : Show(Unsorted(Reprojected([Top EXCEPT !.view = view], Root(Top))))
    BY <2>1
  <2> DEFINE u == [Top EXCEPT !.view = view]
  <2>3. SameSheet(Top, u)
    BY TopOK DEF SameSheet, IsSheet, Parts
  <2> HIDE DEF u
  <2> QED BY <2>1, <2>2, <2>3, RebuildGood DEF u
<1> QED BY <1>1, <1>2, <1>3


\* A sheet opened over documents that are all still there.
LEMMA OpenedGood ==
  ASSUME DocInv, DocsLater, NEW s, SheetOK(s, docs'), Open(s), Say(FALSE), FoundAgain
  PROVE  Good
<1>1. DocInv' /\ Len(sheets') = Len(sheets) + 1 /\ Len(sheets) \in Nat
  BY OpenKeeps DEF DocInv, IsList
<1>2. Restrained /\ Marked
  BY <1>1 DEF Restrained, Marked, Say
<1> QED BY <1>1, <1>2 DEF Good

LEMMA OpenAtGood ==
  ASSUME DocInv, DocsLater, FoundAgain, Say(FALSE),
         NEW d \in 1 .. Len(docs'), NEW tree, NEW view, NEW sourced,
         Open(SheetOver(d, tree, view, sourced))
  PROVE  Good
<1> DEFINE s == SheetOver(d, tree, view, sourced)
<1>1. IsSheet(s) /\ s.hits = NoHits /\ s.doc \in 0 .. Len(docs')
  BY OverSheet DEF DocsLater, IsList
<1> HIDE DEF s
<1>2. SheetOK(s, docs')
  BY <1>1, FreshOK
<1>3. Open(s)
  BY DEF s
<1> QED BY <1>2, <1>3, OpenedGood

LEMMA OnDocFinds == OnDoc => FoundAgain
BY DEF OnDoc, FoundAgain

LEMMA DiveGood ==
  ASSUME DocInv, Dive
  PROVE  Good
<1>1. OnDoc /\ Say(FALSE) /\ UNCHANGED docs
  BY DEF Dive
<1>2. Top.doc \in 1 .. Len(docs) /\ DocsLater /\ FoundAgain
  BY <1>1, OnDocIsDoc, DocsStay, OnDocFinds
<1>3. \E path : OpenAt(Top.doc, path, Top.sourced)
  BY DEF Dive
<1> QED BY <1>1, <1>2, <1>3, OpenAtGood DEF OpenAt

LEMMA OpenNodePathGood ==
  ASSUME DocInv, UNCHANGED docs, FoundAgain,
         NEW d \in 1 .. Len(docs), NEW path, NEW sourced, OpenNodePath(d, path, sourced)
  PROVE  Good
<1>1. CASE UNCHANGED sheets
  BY <1>1, Nothing
<1>2. CASE ~UNCHANGED sheets
  <2>1. Say(FALSE) /\ \E at : OpenAt(d, at, sourced)
    BY <1>2 DEF OpenNodePath
  <2>2. DocsLater /\ d \in 1 .. Len(docs')
    BY DocsStay
  <2> QED BY <2>1, <2>2, OpenAtGood DEF OpenAt
<1> QED BY <1>1, <1>2

LEMMA PathGotoGood ==
  ASSUME DocInv, PathGoto
  PROVE  Good
<1>1. UNCHANGED docs /\ FoundAgain /\ Top.doc \in 1 .. Len(docs)
  BY OnDocIsDoc, OnDocFinds DEF PathGoto
<1>2. UNCHANGED sheets \/ \E path : OpenNodePath(Top.doc, path, Top.sourced)
  BY DEF PathGoto
<1> QED BY <1>1, <1>2, Nothing, OpenNodePathGood

\* The revision compared, every hit of the list is what it was.
LEMMA OpenHitGood ==
  ASSUME DocInv, OpenHit
  PROVE  Good
<1>1. Top.hits.doc # 0 /\ UNCHANGED docs
  BY DEF OpenHit
<1>2. Top.hits.doc \in 1 .. Len(docs)
  BY <1>1, TopOK DEF SheetOK, DocInv, IsList
<1>3. CASE UNCHANGED sheets
  BY <1>1, <1>3, Nothing
<1>4. CASE ~UNCHANGED sheets
  <2>1. /\ docs[Top.hits.doc].revision = Top.hits.revision
        /\ \E path : OpenNodePath(Top.hits.doc, path, Top.sourced)
    BY <1>4 DEF OpenHit
  <2>2. FoundAgain
    BY <1>1, <2>1, TopOK DEF SheetOK, True, FoundAgain
  <2> QED BY <1>1, <1>2, <2>1, <2>2, OpenNodePathGood
<1> QED BY <1>3, <1>4

\* A list of hits is true of the tree it was made from.
LEMMA DocSearchGood ==
  ASSUME DocInv, DocSearch
  PROVE  Good
<1>1. /\ OnDoc /\ Top.doc \in 1 .. Len(docs) /\ DocsLater /\ FoundAgain
      /\ Say(FALSE) /\ docs' = docs /\ IsSheet(Top)
  BY OnDocIsDoc, DocsStay, OnDocFinds, TopOK DEF DocSearch
<1>2. PICK pattern :
          LET hits == Hits(Root(Top), pattern)
              found == [p \in hits |-> Shown(Get(Root(Top), p))]
          IN  Open([Top EXCEPT
                !.doc = 0, !.hits = [doc |-> Top.doc, revision |-> docs[Top.doc].revision, found |-> found],
                !.paths = <<>>, !.roles = <<>>, !.cells = <<>>, !.width = 0, !.marked = FALSE,
                !.ordered = FALSE, !.undo = <<>>, !.redo = <<>>, !.renamed = {}])
  BY DEF DocSearch
<1> DEFINE places == Hits(Root(Top), pattern)
           found == [p \in places |-> Shown(Get(Root(Top), p))]
           list == [doc |-> Top.doc, revision |-> docs[Top.doc].revision, found |-> found]
           t == [Top EXCEPT
                !.doc = 0, !.hits = list,
                !.paths = <<>>, !.roles = <<>>, !.cells = <<>>, !.width = 0, !.marked = FALSE,
                !.ordered = FALSE, !.undo = <<>>, !.redo = <<>>, !.renamed = {}]
<1>3. Open(t)
  BY <1>2
<1> HIDE DEF places
<1>4. \A p \in DOMAIN found : found[p] = Shown(Get(docs[Top.doc].root, p))
  BY DEF Root
<1> HIDE DEF found
<1>5. /\ list.doc = Top.doc /\ list.revision = docs[Top.doc].revision
      /\ list.found = found
  OBVIOUS
<1> HIDE DEF list
<1>6. IsSheet(t) /\ t.doc = 0 /\ t.hits = list
  BY <1>1 DEF IsSheet, Parts
<1> HIDE DEF t
<1>7. docs[Top.doc].revision \in Nat /\ Len(docs) \in Nat
  BY <1>1 DEF DocInv, IsDoc, IsList
<1>8. SheetOK(t, docs)
  BY <1>1, <1>4, <1>5, <1>6, <1>7 DEF SheetOK, True
<1> QED BY <1>1, <1>3, <1>8, OpenedGood

LEMMA QueryGood ==
  ASSUME DocInv, Query
  PROVE  Good
<1>1. PICK path :
          LET root == Get(Root(Top), path)
          IN  /\ docs' = Append(docs, [root |-> root, revision |-> 0])
              /\ Open(SheetOver(Len(docs) + 1, root, AutoView(root, <<>>), FALSE))
  BY DEF Query
<1> DEFINE root == Get(Root(Top), path)
           view == AutoView(root, <<>>)
<1>2. /\ docs' = Append(docs, [root |-> root, revision |-> 0])
      /\ Open(SheetOver(Len(docs) + 1, root, view, FALSE))
  BY <1>1
<1> HIDE DEF root, view
<1>3. DocsLater /\ Len(docs') = Len(docs) + 1 /\ Len(docs) \in Nat
  BY <1>2, DocsAdded DEF DocInv, IsList
<1>4. Len(docs) + 1 \in 1 .. Len(docs')
  BY <1>3
<1>5. FoundAgain /\ Say(FALSE)
  BY OnDocFinds DEF Query
<1> QED BY <1>2, <1>3, <1>4, <1>5, OpenAtGood

\* The lists of hits that go on stay over the documents they name.
LEMMA PopGood ==
  ASSUME DocInv, Pop
  PROVE  Good
<1> DEFINE n == Len(sheets) - 1
           rest == Front(sheets)
           below == sheets[n]
           shown == IF below.doc = 0 THEN below ELSE Reprojected(below, Root(below))
<1>0. Len(sheets) \in Nat /\ n \in 1 .. n /\ n < Len(sheets)
  BY DEF Pop, DocInv, IsList
<1>1. /\ sheets' = Put(rest, n, shown) /\ Say(FALSE)
      /\ docs' = [d \in DOMAIN docs |-> IF d \in Held(rest) THEN docs[d] ELSE Freed(docs[d])]
  BY DEF Pop, Put
<1>2. IsList(rest) /\ Len(rest) = n /\ \A i \in 1 .. n : rest[i] = sheets[i]
  BY <1>0, ListFront DEF DocInv
<1>3. \A i \in 1 .. n : SheetOK(sheets[i], docs)
  BY <1>0 DEF DocInv
<1>4. SameSheet(below, shown) \/ shown = below
  BY <1>0, <1>3, ReprojectedSame DEF SheetOK
<1> HIDE DEF rest, shown
<1>5. /\ IsList(sheets') /\ Len(sheets') = n /\ sheets'[n] = shown
      /\ \A i \in 1 .. n : i # n => sheets'[i] = sheets[i]
  BY <1>0, <1>1, <1>2, ListUpdated
<1>6. /\ DOMAIN docs = 1 .. Len(docs) /\ Len(docs) \in Nat
      /\ IsList(docs') /\ Len(docs') = Len(docs)
  BY <1>1 DEF DocInv, IsList
<1>7. \A d \in 1 .. Len(docs') : IsDoc(docs'[d])
  <2>1. SUFFICES ASSUME NEW d \in 1 .. Len(docs)
                 PROVE  IsDoc(docs'[d])
    BY <1>6
  <2>2. IsDoc(docs[d]) /\ (docs'[d] = docs[d] \/ docs'[d] = Freed(docs[d]))
    BY <1>1, <1>6 DEF DocInv
  <2>3. IsDoc(Freed(docs[d]))
    BY <2>2 DEF Freed, IsDoc
  <2> QED BY <2>2, <2>3
<1>8. \A i \in 1 .. n : \A d \in 1 .. Len(docs) : d = sheets[i].hits.doc => docs'[d] = docs[d]
  <2>1. SUFFICES ASSUME NEW i \in 1 .. n, NEW d \in 1 .. Len(docs), d = sheets[i].hits.doc
                 PROVE  docs'[d] = docs[d]
    OBVIOUS
  <2>2. i \in DOMAIN rest /\ rest[i] = sheets[i]
    BY <1>2 DEF IsList
  <2>3. d \in Held(rest)
    BY <2>1, <2>2 DEF Held
  <2> QED BY <1>1, <1>6, <2>3
<1>9. \A i \in 1 .. n : SheetOK(sheets'[i], docs')
  <2>1. SUFFICES ASSUME NEW i \in 1 .. n
                 PROVE  SheetOK(sheets'[i], docs')
    OBVIOUS
  <2>2. SheetOK(sheets[i], docs) /\ (SameSheet(sheets[i], sheets'[i]) \/ sheets'[i] = sheets[i])
    BY <1>3, <1>4, <1>5
  <2>3. \A d \in 1 .. Len(docs) : d = sheets[i].hits.doc => Later(d)
    BY <1>8 DEF Later
  <2>4. Len(docs') >= Len(docs) /\ Len(docs') \in Nat
    BY <1>6
  <2> QED BY <2>2, <2>3, <2>4, HitsStay
<1>10. DocInv'
  BY <1>0, <1>5, <1>6, <1>7, <1>9 DEF DocInv
<1>11. Restrained /\ Marked
  BY <1>0, <1>1, <1>5 DEF Restrained, Marked, Say
<1> QED BY <1>0, <1>5, <1>10, <1>11, NotLonger DEF Good

\* The file's tree is a document of its own; a list of hits it replaces goes on
\* naming the old one.
LEMMA ReloadGood ==
  ASSUME DocInv, Reload
  PROVE  Good
<1>1. CASE UNCHANGED <<docs, sheets>>
  BY <1>1, Nothing
<1>2. CASE ~UNCHANGED <<docs, sheets>>
  <2> DEFINE new == Len(docs) + 1
             u == SheetOver(new, file, AutoView(file, <<>>), TRUE)
             t == [u EXCEPT !.hits = Top.hits, !.marked = Top.marked, !.ordered = Top.marked]
  <2>1. /\ docs' = Append(docs, [root |-> file, revision |-> 0])
        /\ Show(t) /\ Say(FALSE)
    BY <1>2 DEF Reload
  <2>2. DocsLater /\ Len(docs') = Len(docs) + 1 /\ Len(docs) \in Nat
    BY <2>1, DocsAdded DEF DocInv, IsList
  <2>3. IsSheet(u) /\ u.doc = new
    BY OverSheet
  <2> HIDE DEF u
  <2>4. /\ IsSheet(t) /\ t.doc = new /\ t.hits = Top.hits
        /\ t.marked = Top.marked /\ t.ordered = Top.marked
    BY <2>3 DEF IsSheet, Parts
  <2> HIDE DEF t
  <2>5. SheetOK(Top, docs')
    BY <2>2, TopOK, SheetsStayOK
  <2>6. SheetOK(t, docs')
    BY <2>2, <2>4, <2>5 DEF SheetOK
  <2>7. DocInv' /\ Len(sheets') = Len(sheets) /\ Top' = t
    BY <2>1, <2>2, <2>6, ShowKeeps
  <2>8. Restrained /\ Marked
    BY <2>1, <2>4, <2>7 DEF Restrained, Marked, Say
  <2> QED BY <2>7, <2>8, NotLonger DEF Good, DocInv, IsList
<1> QED BY <1>1, <1>2

-----------------------------------------------------------------------------
(* The specification.                                                      *)

LEMMA InitDocInv == Init => DocInv
<1> SUFFICES ASSUME Init PROVE DocInv
  OBVIOUS
<1> DEFINE view == AutoView(file, <<>>)
           s == SheetOver(1, file, view, TRUE)
<1>1. docs = <<[root |-> file, revision |-> 0]>> /\ sheets = <<s>>
  BY DEF Init
<1>2. IsSheet(s) /\ s.doc = 1 /\ s.hits = NoHits
  <2> DEFINE table == Project(file, view)[2]
  <2>1. s = SheetOf(table, 1, view, TRUE)
    BY DEF SheetOver
  <2> HIDE DEF view, table, s
  <2> QED BY <2>1 DEF SheetOf, IsSheet, Parts
<1> HIDE DEF s
<1>3. Len(docs) = 1 /\ IsList(docs) /\ docs[1] = [root |-> file, revision |-> 0]
  BY <1>1 DEF IsList
<1>4. Len(sheets) = 1 /\ IsList(sheets) /\ sheets[1] = s
  BY <1>1 DEF IsList
<1>5. IsDoc(docs[1])
  BY <1>3 DEF IsDoc
<1>6. SheetOK(s, docs)
  BY <1>2, <1>3 DEF SheetOK, True, NoHits
<1> QED BY <1>3, <1>4, <1>5, <1>6 DEF DocInv

LEMMA NextGood == DocInv /\ [Next]_vars => Good \/ UNCHANGED vars
<1> SUFFICES ASSUME DocInv, Next PROVE Good
  OBVIOUS
<1> QED BY ApplyEditGood, ApplyBulkEditGood, EditNodeGood, DeleteRowsGood, ColumnsGood,
           UndoGood, RedoGood, SortGood, LookGood, DiveGood, DocSearchGood, OpenHitGood,
           PathGotoGood, QueryGood, PopGood, ReloadGood DEF Next

LEMMA AlwaysGood == Spec => [][Good]_vars
<1>1. DocInv /\ UNCHANGED vars => DocInv'
  BY DocsStay, StackStays DEF vars
<1>2. DocInv /\ [Next]_vars => DocInv' /\ [Good]_vars
  BY <1>1, NextGood DEF Good
<1> QED BY <1>2, InitDocInv, PTL DEF Spec

\* A refused command leaves every tree and the stack as they were, whatever part of
\* the rows it had written.
THEOREM RefusedLeavesTreesAlone == Spec => RefusedChangesNothing
<1>1. [Good]_vars =>
        [refused' => /\ \A d \in DOMAIN docs : docs'[d].root = docs[d].root
                     /\ Len(sheets') = Len(sheets)]_vars
  BY DEF Good, Restrained
<1> QED BY <1>1, AlwaysGood, PTL DEF RefusedChangesNothing

\* A hit opens only while every hit of its list still is what the list shows.
THEOREM HitsAreCurrentWhenOpened == Spec => HitsOpenWhatTheyFound
<1>1. [Good]_vars =>
        [(Len(sheets') > Len(sheets) /\ Top.doc = 0) =>
           \A p \in DOMAIN Top.hits.found :
              Top.hits.found[p] = Shown(Get(docs[Top.hits.doc].root, p))]_vars
  BY DEF Good, FoundAgain
<1> QED BY <1>1, AlwaysGood, PTL DEF HitsOpenWhatTheyFound

\* Every command that rebuilds the rows drops the sort marker with their order.
THEOREM MarkersNeverOutliveTheOrder == Spec => MarkersGoWithTheOrder
<1>1. [Good]_vars =>
        [(/\ Len(sheets') = Len(sheets) /\ ~refused' /\ (Top.marked => Top.ordered)
          /\ (Top.marked /\ ~Top.ordered)') => Undo \/ Redo]_vars
  BY DEF Good, Marked
<1> QED BY <1>1, AlwaysGood, PTL DEF MarkersGoWithTheOrder

-----------------------------------------------------------------------------
(* Paths.                                                                  *)

\* Two paths that part somewhere.
Apart(p, q) == \E i \in DOMAIN p \cap DOMAIN q : p[i] # q[i]

LEMMA ListFacts ==
  ASSUME NEW s, IsList(s)
  PROVE  Len(s) \in Nat /\ DOMAIN s = 1 .. Len(s)
BY DEF IsList

LEMMA SameLists ==
  ASSUME NEW s, IsList(s), NEW t, IsList(t), Len(s) = Len(t), \A i \in 1 .. Len(s) : s[i] = t[i]
  PROVE  s = t
BY DEF IsList

LEMMA MadeList ==
  ASSUME NEW n \in Nat, NEW s, s = [i \in 1 .. n |-> s[i]]
  PROVE  IsList(s) /\ Len(s) = n
BY DEF IsList

LEMMA NoneIsPath == IsPath(<<>>) /\ Len(<<>>) = 0
BY DEF IsPath, IsList

LEMMA ListJoined ==
  ASSUME NEW s, IsList(s), NEW t, IsList(t)
  PROVE  /\ IsList(s \o t) /\ Len(s \o t) = Len(s) + Len(t)
         /\ \A i \in 1 .. Len(s) : (s \o t)[i] = s[i]
         /\ \A i \in 1 .. Len(t) : (s \o t)[Len(s) + i] = t[i]
<1> DEFINE T == {s[i] : i \in 1 .. Len(s)} \cup {t[i] : i \in 1 .. Len(t)}
<1>1. s \in Seq(T) /\ t \in Seq(T)
  BY ListedIsSeq
<1> HIDE DEF T
<1>2. /\ s \o t \in Seq(T) /\ Len(s \o t) = Len(s) + Len(t)
      /\ \A i \in 1 .. Len(s) : (s \o t)[i] = s[i]
      /\ \A i \in 1 .. Len(t) : (s \o t)[Len(s) + i] = t[i]
  BY <1>1
<1> QED BY <1>2, SeqIsListed

LEMMA PathJoined ==
  ASSUME NEW p, IsPath(p), NEW q, IsPath(q)
  PROVE  IsPath(p \o q)
<1> DEFINE r == p \o q
<1>1. /\ IsList(r) /\ Len(r) = Len(p) + Len(q) /\ Len(p) \in Nat /\ Len(q) \in Nat
      /\ \A i \in 1 .. Len(p) : r[i] = p[i]
      /\ \A i \in 1 .. Len(q) : r[Len(p) + i] = q[i]
  BY ListJoined, ListFacts DEF IsPath
<1> HIDE DEF r
<1>2. DOMAIN r = 1 .. Len(r) /\ DOMAIN p = 1 .. Len(p) /\ DOMAIN q = 1 .. Len(q)
  BY <1>1, ListFacts DEF IsPath
<1>3. \A i \in 1 .. Len(r) : i \in 1 .. Len(p) \/ \E j \in 1 .. Len(q) : i = Len(p) + j
  <2> TAKE i \in 1 .. Len(r)
  <2>1. CASE i <= Len(p)
    BY <1>1, <2>1
  <2>2. CASE i > Len(p)
    <3>1. i - Len(p) \in 1 .. Len(q) /\ i = Len(p) + (i - Len(p))
      BY <1>1, <2>2
    <3> QED BY <3>1
  <2> QED BY <1>1, <2>1, <2>2
<1>4. \A i \in DOMAIN r : (\E j \in DOMAIN p : r[i] = p[j]) \/ (\E j \in DOMAIN q : r[i] = q[j])
  <2> TAKE i \in DOMAIN r
  <2>1. CASE i \in 1 .. Len(p)
    BY <1>1, <1>2, <2>1
  <2>2. CASE \E j \in 1 .. Len(q) : i = Len(p) + j
    BY <1>1, <1>2, <2>2
  <2> QED BY <1>2, <1>3, <2>1, <2>2
<1>5. \A i \in DOMAIN r : r[i] = <<r[i][1], r[i][2]>> /\ r[i][1] \in {"key", "idx"}
  <2> TAKE i \in DOMAIN r
  <2>1. CASE \E j \in DOMAIN p : r[i] = p[j]
    BY <2>1 DEF IsPath
  <2>2. CASE \E j \in DOMAIN q : r[i] = q[j]
    BY <2>2 DEF IsPath
  <2> QED BY <1>4, <2>1, <2>2
<1> QED BY <1>1, <1>5 DEF IsPath, r

\* A step of a path.
IsSeg(seg) == seg = <<seg[1], seg[2]>> /\ seg[1] \in {"key", "idx"}

LEMMA PathSegs ==
  ASSUME NEW p, IsPath(p)
  PROVE  /\ IsList(p) /\ Len(p) \in Nat /\ DOMAIN p = 1 .. Len(p)
         /\ \A i \in 1 .. Len(p) : IsSeg(p[i])
BY ListFacts DEF IsPath, IsSeg

LEMMA PathOfSegs ==
  ASSUME NEW p, IsList(p), \A i \in 1 .. Len(p) : IsSeg(p[i])
  PROVE  IsPath(p)
BY ListFacts DEF IsPath, IsSeg

LEMMA PathPrefix ==
  ASSUME NEW p, IsPath(p), NEW n \in 0 .. Len(p)
  PROVE  IsPath(Prefix(p, n)) /\ Len(Prefix(p, n)) = n /\ \A i \in 1 .. n : Prefix(p, n)[i] = p[i]
<1> DEFINE q == Prefix(p, n)
<1>1. IsList(p) /\ Len(p) \in Nat /\ n \in Nat /\ \A i \in 1 .. Len(p) : IsSeg(p[i])
  BY PathSegs
<1>2. q = [i \in 1 .. n |-> p[i]]
  BY DEF Prefix
<1>3. \A i \in 1 .. n : q[i] = p[i] /\ i \in 1 .. Len(p)
  BY <1>1, <1>2
<1>4. IsList(q) /\ Len(q) = n
  BY <1>1, <1>2, <1>3, MadeList
<1> HIDE DEF q
<1>5. IsPath(q)
  BY <1>1, <1>3, <1>4, PathOfSegs
<1> QED BY <1>3, <1>4, <1>5 DEF q

LEMMA PathAppended ==
  ASSUME NEW p, IsPath(p), NEW seg, IsSeg(seg)
  PROVE  /\ IsPath(Append(p, seg)) /\ Len(Append(p, seg)) = Len(p) + 1
         /\ \A i \in 1 .. Len(p) : Append(p, seg)[i] = p[i]
         /\ Append(p, seg)[Len(p) + 1] = seg
<1> DEFINE q == Append(p, seg)
<1>1. IsList(p) /\ Len(p) \in Nat /\ \A i \in 1 .. Len(p) : IsSeg(p[i])
  BY PathSegs
<1>2. /\ IsList(q) /\ Len(q) = Len(p) + 1
      /\ \A i \in 1 .. Len(p) : q[i] = p[i] /\ q[Len(p) + 1] = seg
      /\ q[Len(p) + 1] = seg
  BY <1>1, ListAppended
<1> HIDE DEF q
<1>3. \A i \in 1 .. Len(q) : i \in 1 .. Len(p) \/ i = Len(p) + 1
  BY <1>1, <1>2
<1>4. IsPath(q)
  BY <1>1, <1>2, <1>3, PathOfSegs
<1> QED BY <1>2, <1>4 DEF q

LEMMA PathFront ==
  ASSUME NEW p, IsPath(p), Len(p) > 0
  PROVE  /\ Front(p) = Prefix(p, Len(p) - 1) /\ IsPath(Front(p))
         /\ Last(p) = p[Len(p)] /\ IsSeg(Last(p)) /\ p = Append(Front(p), Last(p))
<1> DEFINE m == Len(p) - 1
<1>1. IsList(p) /\ Len(p) \in Nat /\ \A i \in 1 .. Len(p) : IsSeg(p[i])
  BY PathSegs
<1>2. m \in 0 .. Len(p) /\ m + 1 = Len(p) /\ m \in Nat /\ Len(p) \in 1 .. Len(p)
  BY <1>1
<1>3. /\ IsList(Front(p)) /\ Len(Front(p)) = m
      /\ \A i \in 1 .. m : Front(p)[i] = p[i]
  BY <1>1, ListFront
<1>4. IsPath(Prefix(p, m)) /\ Len(Prefix(p, m)) = m /\ \A i \in 1 .. m : Prefix(p, m)[i] = p[i]
  BY <1>2, PathPrefix
<1>5. Front(p) = Prefix(p, m)
  <2>1. IsList(Prefix(p, m))
    BY <1>4 DEF IsPath
  <2> HIDE DEF m
  <2> QED BY <1>3, <1>4, <2>1, SameLists
<1>6. Last(p) = p[Len(p)] /\ IsSeg(Last(p))
  BY <1>1, <1>2 DEF Last
<1> HIDE DEF m
<1>7. p = Append(Front(p), Last(p))
  <2> DEFINE q == Append(Front(p), Last(p))
  <2>1. /\ IsPath(q) /\ Len(q) = m + 1 /\ \A i \in 1 .. m : q[i] = p[i]
        /\ q[m + 1] = p[m + 1]
    <3>1. IsPath(Front(p)) /\ Len(Front(p)) = m /\ \A i \in 1 .. m : Front(p)[i] = p[i]
      BY <1>3, <1>4, <1>5
    <3> QED BY <3>1, <1>2, <1>6, PathAppended
  <2> HIDE DEF q
  <2>2. IsList(q) /\ \A i \in 1 .. m + 1 : i \in 1 .. m \/ i = m + 1
    BY <1>2, <2>1 DEF IsPath
  <2>3. q = p
    BY <1>1, <1>2, <2>1, <2>2, SameLists
  <2> QED BY <2>3 DEF q
<1> QED BY <1>4, <1>5, <1>6, <1>7 DEF m

-----------------------------------------------------------------------------
(* Walking down a path.                                                    *)

IsDown(d, root, path, n) == d = [i \in 0 .. n |-> IF i = 0 THEN root ELSE Child(d[i - 1], path[i])]

LEMMA DownExists ==
  ASSUME NEW root, NEW path
  PROVE  \A n \in Nat : \E d : IsDown(d, root, path, n)
<1> DEFINE S == {n \in Nat : \E d : IsDown(d, root, path, n)}
<1>1. 0 \in S
  <2> DEFINE u == [i \in 0 .. 0 |-> root]
  <2>1. u = [i \in 0 .. 0 |-> IF i = 0 THEN root ELSE Child(u[i - 1], path[i])]
    OBVIOUS
  <2> HIDE DEF u
  <2>2. IsDown(u, root, path, 0)
    BY <2>1 DEF IsDown
  <2> QED BY <2>2
<1>2. \A n \in Nat : n \in S => n + 1 \in S
  <2> SUFFICES ASSUME NEW n \in Nat, NEW d, IsDown(d, root, path, n)
               PROVE  \E u : IsDown(u, root, path, n + 1)
    OBVIOUS
  <2> DEFINE u == [i \in 0 .. n + 1 |-> IF i = n + 1 THEN Child(d[n], path[n + 1]) ELSE d[i]]
  <2>1. \A i \in 0 .. n : d[i] = IF i = 0 THEN root ELSE Child(d[i - 1], path[i])
    BY DEF IsDown
  <2>2. \A i \in 0 .. n + 1 : u[i] = IF i = 0 THEN root ELSE Child(u[i - 1], path[i])
    <3> TAKE i \in 0 .. n + 1
    <3>1. CASE i = n + 1
      BY <3>1
    <3>2. CASE i \in 0 .. n
      <4>1. i # n + 1 /\ (i # 0 => i - 1 \in 0 .. n + 1 /\ i - 1 # n + 1)
        BY <3>2
      <4> QED BY <4>1, <3>2, <2>1
    <3> QED BY <3>1, <3>2
  <2>3. u = [i \in 0 .. n + 1 |-> IF i = 0 THEN root ELSE Child(u[i - 1], path[i])]
    <3>1. u = [i \in 0 .. n + 1 |-> u[i]]
      OBVIOUS
    <3> HIDE DEF u
    <3> QED BY <3>1, <2>2
  <2> HIDE DEF u
  <2> QED BY <2>3 DEF IsDown
<1> HIDE DEF S
<1>3. Nat \subseteq S
  BY <1>1, <1>2, EveryNatural
<1> QED BY <1>3 DEF S

\* The nodes along a path, the last of which is the one it leads to.
IsWalk(w, root, path) ==
    w[0] = root /\ \A i \in 1 .. Len(path) : w[i] = Child(w[i - 1], path[i])

LEMMA WalkExists ==
  ASSUME NEW root, NEW path, Len(path) \in Nat
  PROVE  \E w : IsWalk(w, root, path) /\ w[Len(path)] = Get(root, path)
<1> DEFINE down == CHOOSE d : IsDown(d, root, path, Len(path))
<1>1. \E d : IsDown(d, root, path, Len(path))
  BY DownExists
<1>2. IsDown(down, root, path, Len(path))
  BY <1>1, Zenon
<1>3. Get(root, path) = down[Len(path)]
  BY DEF Get, IsDown
<1> HIDE DEF down
<1>4. IsWalk(down, root, path)
  BY <1>2 DEF IsWalk, IsDown
<1> QED BY <1>3, <1>4

LEMMA WalksAgree ==
  ASSUME NEW root, NEW path, Len(path) \in Nat, NEW v, IsWalk(v, root, path), NEW w, IsWalk(w, root, path)
  PROVE  \A i \in 0 .. Len(path) : v[i] = w[i]
<1> DEFINE n == Len(path)
<1>0. /\ n \in Nat /\ v[0] = w[0]
      /\ \A i \in 1 .. n : v[i] = Child(v[i - 1], path[i])
      /\ \A i \in 1 .. n : w[i] = Child(w[i - 1], path[i])
  BY DEF IsWalk
<1> HIDE DEF n
<1> DEFINE S == {i \in Nat : i \in 0 .. n => v[i] = w[i]}
<1>1. 0 \in S
  BY <1>0
<1>2. \A i \in Nat : i \in S => i + 1 \in S
  <2> SUFFICES ASSUME NEW i \in Nat, i \in S, i + 1 \in 0 .. n PROVE v[i + 1] = w[i + 1]
    OBVIOUS
  <2>1. i \in 0 .. n /\ i + 1 \in 1 .. n /\ (i + 1) - 1 = i
    BY <1>0
  <2>2. v[i] = w[i]
    BY <2>1
  <2> QED BY <1>0, <2>1, <2>2
<1> HIDE DEF S
<1>3. Nat \subseteq S
  BY <1>1, <1>2, EveryNatural
<1>4. \A i \in 0 .. n : i \in Nat
  BY <1>0
<1> QED BY <1>3, <1>4 DEF S, n

\* Any walk along a path ends where the path leads.
LEMMA WalkEnds ==
  ASSUME NEW root, NEW path, Len(path) \in Nat, NEW w, IsWalk(w, root, path)
  PROVE  Get(root, path) = w[Len(path)]
<1>1. PICK v : IsWalk(v, root, path) /\ v[Len(path)] = Get(root, path)
  BY WalkExists
<1>2. \A i \in 0 .. Len(path) : v[i] = w[i]
  BY <1>1, WalksAgree
<1>3. Len(path) \in 0 .. Len(path)
  OBVIOUS
<1> QED BY <1>1, <1>2, <1>3

LEMMA GetHere == ASSUME NEW root PROVE Get(root, <<>>) = root
<1>1. PICK w : IsWalk(w, root, <<>>) /\ w[Len(<<>>)] = Get(root, <<>>)
  BY WalkExists
<1> QED BY <1>1 DEF IsWalk

\* Every node of the walk is where the path leads so far.
LEMMA WalkStops ==
  ASSUME NEW root, NEW path, IsPath(path), NEW w, IsWalk(w, root, path)
  PROVE  \A i \in 0 .. Len(path) : w[i] = Get(root, Prefix(path, i))
<1> TAKE i \in 0 .. Len(path)
<1> DEFINE p == Prefix(path, i)
<1>1. Len(p) = i /\ (\A j \in 1 .. i : p[j] = path[j]) /\ Len(path) \in Nat
  BY PathPrefix, PathSegs
<1>2. \A j \in 1 .. i : j \in 1 .. Len(path)
  BY <1>1
<1> HIDE DEF p
<1>3. IsWalk(w, root, p)
  BY <1>1, <1>2 DEF IsWalk
<1>4. Get(root, p) = w[Len(p)]
  BY <1>1, <1>3, WalkEnds
<1> QED BY <1>1, <1>4 DEF p

LEMMA GetJoined ==
  ASSUME NEW root, NEW p, IsPath(p), NEW q, IsPath(q)
  PROVE  Get(root, p \o q) = Get(Get(root, p), q)
<1> DEFINE m == Len(p)
           n == Len(q)
           r == p \o q
<1>1. m \in Nat /\ n \in Nat /\ IsList(p) /\ IsList(q)
  BY PathSegs
<1>2. PICK v : IsWalk(v, root, p) /\ v[m] = Get(root, p)
  BY <1>1, WalkExists
<1>3. PICK w : IsWalk(w, Get(root, p), q) /\ w[n] = Get(Get(root, p), q)
  BY <1>1, WalkExists
<1> DEFINE u == [i \in 0 .. m + n |-> IF i <= m THEN v[i] ELSE w[i - m]]
<1>4. Len(r) = m + n /\ (\A i \in 1 .. m : r[i] = p[i]) /\ \A i \in 1 .. n : r[m + i] = q[i]
  BY <1>1, ListJoined
<1>5. v[m] = w[0] /\ v[0] = root
  BY <1>2, <1>3 DEF IsWalk
<1> HIDE DEF m, n, r
<1>6. \A i \in 0 .. m + n : u[i] = IF i <= m THEN v[i] ELSE w[i - m]
  OBVIOUS
<1> HIDE DEF u
<1>7. \A i \in 1 .. m + n : u[i] = Child(u[i - 1], r[i])
  <2> TAKE i \in 1 .. m + n
  <2>1. CASE i <= m
    <3>1. i \in 1 .. m /\ i - 1 <= m /\ i - 1 \in 0 .. m + n /\ i \in 0 .. m + n
      BY <1>1, <2>1
    <3>2. v[i] = Child(v[i - 1], p[i])
      BY <1>2, <3>1 DEF IsWalk, m
    <3> QED BY <1>4, <1>6, <2>1, <3>1, <3>2
  <2>2. CASE i > m
    <3> DEFINE j == i - m
    <3>1. j \in 1 .. n /\ m + j = i /\ i \in 0 .. m + n /\ i - 1 \in 0 .. m + n /\ ~(i <= m)
      BY <1>1, <2>2
    <3>2. w[j] = Child(w[j - 1], q[j]) /\ r[i] = q[j]
      BY <1>3, <1>4, <3>1 DEF IsWalk, n
    <3>3. u[i - 1] = w[j - 1]
      <4>1. CASE j = 1
        <5>1. i - 1 = m /\ i - 1 <= m /\ j - 1 = 0
          BY <1>1, <4>1
        <5> QED BY <1>5, <1>6, <3>1, <5>1
      <4>2. CASE j # 1
        <5>1. ~(i - 1 <= m) /\ (i - 1) - m = j - 1
          BY <1>1, <3>1, <4>2
        <5> QED BY <1>6, <3>1, <5>1
      <4> QED BY <4>1, <4>2
    <3>4. u[i] = w[j]
      BY <1>6, <3>1
    <3> QED BY <3>2, <3>3, <3>4
  <2> QED BY <1>1, <2>1, <2>2
<1>8. u[0] = root
  BY <1>1, <1>5, <1>6
<1>9. IsWalk(u, root, r)
  BY <1>4, <1>7, <1>8 DEF IsWalk
<1>10. Get(root, r) = u[m + n]
  <2>1. Len(r) \in Nat
    BY <1>1, <1>4
  <2> QED BY <1>4, <1>9, <2>1, WalkEnds
<1>11. u[m + n] = w[n]
  <2>1. CASE n = 0
    <3>1. m + n = m /\ m <= m /\ m + n \in 0 .. m + n
      BY <1>1, <2>1
    <3> QED BY <1>5, <1>6, <2>1, <3>1
  <2>2. CASE n # 0
    <3>1. ~(m + n <= m) /\ (m + n) - m = n /\ m + n \in 0 .. m + n
      BY <1>1, <2>2
    <3> QED BY <1>6, <3>1
  <2> QED BY <2>1, <2>2
<1> QED BY <1>3, <1>10, <1>11 DEF n, r

LEMMA GetFurther ==
  ASSUME NEW root, NEW p, IsPath(p), NEW seg, IsSeg(seg)
  PROVE  Get(root, Append(p, seg)) = Child(Get(root, p), seg)
<1> DEFINE q == Append(p, seg)
<1>1. /\ IsPath(q) /\ Len(q) = Len(p) + 1 /\ Len(p) \in Nat
      /\ (\A i \in 1 .. Len(p) : q[i] = p[i]) /\ q[Len(p) + 1] = seg
  BY PathAppended, PathSegs
<1> HIDE DEF q
<1>2. Len(q) \in Nat /\ Len(q) \in 1 .. Len(q) /\ Len(p) \in 0 .. Len(q) /\ Len(q) - 1 = Len(p)
  BY <1>1
<1>3. PICK w : IsWalk(w, root, q) /\ w[Len(q)] = Get(root, q)
  BY <1>2, WalkExists
<1>4. \A i \in 1 .. Len(p) : i \in 1 .. Len(q)
  BY <1>1
<1>5. IsWalk(w, root, p)
  BY <1>1, <1>3, <1>4 DEF IsWalk
<1>6. Get(root, p) = w[Len(p)]
  BY <1>1, <1>5, WalkEnds
<1>7. w[Len(q)] = Child(w[Len(p)], q[Len(q)])
  BY <1>2, <1>3 DEF IsWalk
<1> QED BY <1>1, <1>3, <1>6, <1>7 DEF q

\* Nothing is under what is not there.
LEMMA NoneUnderNone ==
  ASSUME NEW seg PROVE Child(Absent, seg) = Absent
<1>1. Kind(Absent) = "absent"
  BY DEF Absent, Kind
<1>2. KeysOf(Absent) = <<>>
  BY <1>1 DEF KeysOf
<1>3. ~HasKey(Absent, seg[2])
  BY <1>2 DEF HasKey, ToSet
<1> QED BY <1>1, <1>3 DEF Child

LEMMA GetNothing ==
  ASSUME NEW p, IsPath(p) PROVE Get(Absent, p) = Absent
<1> DEFINE w == [i \in 0 .. Len(p) |-> Absent]
<1>1. Len(p) \in Nat
  BY PathSegs
<1>2. \A i \in 1 .. Len(p) : i - 1 \in 0 .. Len(p) /\ i \in 0 .. Len(p)
  BY <1>1
<1>3. IsWalk(w, Absent, p)
  <2>1. w[0] = Absent
    BY <1>1
  <2>2. \A i \in 1 .. Len(p) : w[i] = Child(w[i - 1], p[i])
    BY <1>2, NoneUnderNone
  <2> QED BY <2>1, <2>2 DEF IsWalk
<1>4. w[Len(p)] = Absent
  BY <1>1
<1> HIDE DEF w
<1> QED BY <1>1, <1>3, <1>4, WalkEnds

-----------------------------------------------------------------------------
(* A node and its children.                                                *)

LEMMA KeyFacts ==
  ASSUME NEW n, NEW k
  PROVE  /\ Kind(n) = "dict" => (HasKey(n, k) <=> \E i \in DOMAIN Content(n) : Content(n)[i][1] = k)
         /\ HasKey(n, k) => /\ Kind(n) = "dict" /\ KeyPos(n, k) \in DOMAIN Content(n)
                            /\ Content(n)[KeyPos(n, k)][1] = k
<1>1. CASE Kind(n) = "dict"
  <2>1. KeysOf(n) = [i \in DOMAIN Content(n) |-> Content(n)[i][1]]
    BY <1>1 DEF KeysOf
  <2>2. HasKey(n, k) <=> \E i \in DOMAIN Content(n) : Content(n)[i][1] = k
    BY <2>1 DEF HasKey, ToSet
  <2>3. HasKey(n, k) => KeyPos(n, k) \in DOMAIN Content(n) /\ Content(n)[KeyPos(n, k)][1] = k
    BY <2>2 DEF KeyPos
  <2> QED BY <1>1, <2>2, <2>3
<1>2. CASE Kind(n) # "dict"
  <2>1. KeysOf(n) = <<>>
    BY <1>2 DEF KeysOf
  <2>2. ~HasKey(n, k)
    BY <2>1 DEF HasKey, ToSet
  <2> QED BY <1>2, <2>2
<1> QED BY <1>1, <1>2

LEMMA DictFacts ==
  ASSUME NEW n, NodeOK(n), Kind(n) = "dict"
  PROVE  /\ IsList(Content(n)) /\ DOMAIN Content(n) = 1 .. Len(Content(n)) /\ Len(Content(n)) \in Nat
         /\ \A i \in DOMAIN Content(n) : /\ Content(n)[i] = <<Content(n)[i][1], Content(n)[i][2]>>
                                         /\ Content(n)[i][2] # Absent
         /\ \A i, j \in DOMAIN Content(n) : Content(n)[i][1] = Content(n)[j][1] => i = j
<1>1. IsContainer(n)
  BY DEF IsContainer
<1>2. Below(n) = {Content(n)[i][2] : i \in DOMAIN Content(n)} /\ Absent \notin Below(n)
  BY <1>1 DEF Below, NodeOK
<1>3. IsList(Content(n))
  BY <1>1 DEF NodeOK
<1> QED BY <1>2, <1>3, ListFacts DEF NodeOK

LEMMA ArrayFacts ==
  ASSUME NEW n, NodeOK(n), Kind(n) = "list"
  PROVE  /\ IsList(Content(n)) /\ DOMAIN Content(n) = 1 .. Len(Content(n)) /\ Len(Content(n)) \in Nat
         /\ \A i \in DOMAIN Content(n) : Content(n)[i] # Absent
<1>1. IsContainer(n)
  BY DEF IsContainer
<1>2. Below(n) = ToSet(Content(n)) /\ Absent \notin Below(n)
  BY <1>1 DEF Below, NodeOK
<1>3. IsList(Content(n))
  BY <1>1 DEF NodeOK
<1> QED BY <1>2, <1>3, ListFacts DEF ToSet

LEMMA DictMade ==
  ASSUME NEW c, IsList(c),
         \A i \in DOMAIN c : c[i] = <<c[i][1], c[i][2]>> /\ c[i][2] # Absent,
         \A i, j \in DOMAIN c : c[i][1] = c[j][1] => i = j
  PROVE  NodeOK(<<"dict", c>>) /\ Kind(<<"dict", c>>) = "dict" /\ Content(<<"dict", c>>) = c
<1> DEFINE n == <<"dict", c>>
<1>1. Kind(n) = "dict" /\ Content(n) = c /\ n = <<Kind(n), Content(n)>>
  BY DEF Kind, Content
<1> HIDE DEF n
<1>2. Below(n) = {c[i][2] : i \in DOMAIN c}
  BY <1>1 DEF Below
<1>3. NodeOK(n)
  BY <1>1, <1>2 DEF NodeOK
<1> QED BY <1>1, <1>3 DEF n

LEMMA ArrayMade ==
  ASSUME NEW c, IsList(c), \A i \in DOMAIN c : c[i] # Absent
  PROVE  NodeOK(<<"list", c>>) /\ Kind(<<"list", c>>) = "list" /\ Content(<<"list", c>>) = c
<1> DEFINE n == <<"list", c>>
<1>1. Kind(n) = "list" /\ Content(n) = c /\ n = <<Kind(n), Content(n)>>
  BY DEF Kind, Content
<1> HIDE DEF n
<1>2. Below(n) = ToSet(c)
  BY <1>1 DEF Below
<1>3. NodeOK(n)
  BY <1>1, <1>2 DEF NodeOK, ToSet
<1> QED BY <1>1, <1>3 DEF n

LEMMA SegForms ==
  ASSUME NEW seg, IsSeg(seg)
  PROVE  \/ seg[1] = "key" /\ seg = Key(seg[2])
         \/ seg[1] = "idx" /\ seg = Idx(seg[2])
BY DEF IsSeg, Key, Idx

LEMMA SegsMade ==
  ASSUME NEW x
  PROVE  /\ IsSeg(Key(x)) /\ Key(x)[1] = "key" /\ Key(x)[2] = x
         /\ IsSeg(Idx(x)) /\ Idx(x)[1] = "idx" /\ Idx(x)[2] = x
BY DEF IsSeg, Key, Idx

\* The child under a key, and under a position.
LEMMA ChildByKey ==
  ASSUME NEW n, NodeOK(n), Kind(n) = "dict", NEW seg, IsSeg(seg), seg[1] = "key"
  PROVE  /\ \A i \in DOMAIN Content(n) :
               Content(n)[i][1] = seg[2] =>
                  HasKey(n, seg[2]) /\ KeyPos(n, seg[2]) = i /\ Child(n, seg) = Content(n)[i][2]
         /\ (\A i \in DOMAIN Content(n) : Content(n)[i][1] # seg[2]) =>
               ~HasKey(n, seg[2]) /\ Child(n, seg) = Absent
<1>1. \A i \in DOMAIN Content(n) : Content(n)[i][1] = seg[2] =>
          HasKey(n, seg[2]) /\ KeyPos(n, seg[2]) = i
  BY KeyFacts, DictFacts
<1>2. HasKey(n, seg[2]) => Child(n, seg) = Content(n)[KeyPos(n, seg[2])][2]
  BY DEF Child
<1>3. ~HasKey(n, seg[2]) => Child(n, seg) = Absent
  BY DEF Child
<1>4. (\A i \in DOMAIN Content(n) : Content(n)[i][1] # seg[2]) => ~HasKey(n, seg[2])
  BY KeyFacts
<1> QED BY <1>1, <1>2, <1>3, <1>4

LEMMA ChildAtPosition ==
  ASSUME NEW n, Kind(n) = "list", NEW seg, IsSeg(seg), seg[1] = "idx"
  PROVE  Child(n, seg) = IF seg[2] \in DOMAIN Content(n) THEN Content(n)[seg[2]] ELSE Absent
BY DEF Child

LEMMA ChildElsewhere ==
  ASSUME NEW n, NEW seg, IsSeg(seg),
         ~(seg[1] = "key" /\ Kind(n) = "dict"), ~(seg[1] = "idx" /\ Kind(n) = "list")
  PROVE  Child(n, seg) = Absent
<1>1. seg[1] = "key" => ~HasKey(n, seg[2])
  BY KeyFacts
<1> QED BY <1>1 DEF Child

\* Nodes that a step of a path can be written in.
Holds(n, seg) ==
    /\ NodeOK(n) /\ IsSeg(seg)
    /\ \/ seg[1] = "key" /\ Kind(n) = "dict"
       \/ seg[1] = "idx" /\ Kind(n) = "list" /\ seg[2] \in DOMAIN Content(n)

LEMMA ChildThere ==
  ASSUME NEW n, NodeOK(n), NEW seg, IsSeg(seg), Child(n, seg) # Absent
  PROVE  Holds(n, seg)
BY ChildElsewhere, ChildAtPosition DEF Holds

\* A child written is there, and the others are as they were.
LEMMA ChildWritten ==
  ASSUME NEW n, NEW seg, Holds(n, seg), NEW child, child # Absent
  PROVE  /\ NodeOK(WithChild(n, seg, child)) /\ Kind(WithChild(n, seg, child)) = Kind(n)
         /\ Child(WithChild(n, seg, child), seg) = child
         /\ \A other : IsSeg(other) /\ other # seg => Child(WithChild(n, seg, child), other) = Child(n, other)
<1> DEFINE m == WithChild(n, seg, child)
           c == Content(n)
<1>1. CASE seg[1] = "idx" /\ Kind(n) = "list"
  <2> DEFINE d == [c EXCEPT ![seg[2]] = child]
  <2>1. m = <<"list", d>>
    <3>1. ~HasKey(n, seg[2])
      BY <1>1, KeyFacts
    <3> QED BY <1>1, <3>1 DEF WithChild
  <2>2. /\ IsList(c) /\ DOMAIN c = 1 .. Len(c) /\ Len(c) \in Nat
        /\ \A i \in DOMAIN c : c[i] # Absent
    BY <1>1, ArrayFacts DEF Holds
  <2>3. seg[2] \in DOMAIN c
    BY <1>1 DEF Holds
  <2> HIDE DEF c
  <2>4. /\ d = [i \in 1 .. Len(c) |-> d[i]] /\ d[seg[2]] = child
        /\ \A i \in DOMAIN c : i # seg[2] => d[i] = c[i]
    BY <2>2, <2>3
  <2> HIDE DEF d
  <2>5. IsList(d) /\ DOMAIN d = DOMAIN c
    BY <2>2, <2>4, MadeList
  <2>6. NodeOK(m) /\ Kind(m) = "list" /\ Content(m) = d
    BY <2>1, <2>2, <2>4, <2>5, ArrayMade
  <2> HIDE DEF m
  <2>7. Child(m, seg) = child
    BY <1>1, <2>3, <2>4, <2>5, <2>6, ChildAtPosition DEF Holds
  <2>8. ASSUME NEW other, IsSeg(other), other # seg PROVE Child(m, other) = Child(n, other)
    <3>1. CASE other[1] = "idx"
      <4>1. other[2] # seg[2]
        BY <1>1, <2>8, <3>1, SegForms DEF Holds
      <4> QED BY <1>1, <2>4, <2>5, <2>6, <2>8, <3>1, <4>1, ChildAtPosition DEF c
    <3>2. CASE other[1] # "idx"
      BY <1>1, <2>6, <2>8, <3>2, ChildElsewhere
    <3> QED BY <3>1, <3>2
  <2> QED BY <1>1, <2>6, <2>7, <2>8 DEF m
<1>2. CASE seg[1] = "key" /\ Kind(n) = "dict"
  <2>1. /\ IsList(c) /\ DOMAIN c = 1 .. Len(c) /\ Len(c) \in Nat
        /\ \A i \in DOMAIN c : c[i] = <<c[i][1], c[i][2]>> /\ c[i][2] # Absent
        /\ \A i, j \in DOMAIN c : c[i][1] = c[j][1] => i = j
    BY <1>2, DictFacts DEF Holds
  <2> DEFINE entry == <<seg[2], child>>
  <2>2. entry = <<entry[1], entry[2]>> /\ entry[1] = seg[2] /\ entry[2] = child
    OBVIOUS
  <2>3. \E d, k : /\ m = <<"dict", d>> /\ IsList(d) /\ DOMAIN c \subseteq DOMAIN d
                  /\ k \in DOMAIN d /\ d[k] = entry /\ DOMAIN d \subseteq DOMAIN c \cup {k}
                  /\ \A i \in DOMAIN c : i # k => d[i] = c[i] /\ c[i][1] # seg[2]
                  /\ k \in DOMAIN c => c[k][1] = seg[2]
    <3>1. CASE HasKey(n, seg[2])
      <4> DEFINE k == KeyPos(n, seg[2])
                 d == [c EXCEPT ![k] = entry]
      <4>1. m = <<"dict", d>>
        BY <1>2, <3>1 DEF WithChild
      <4>2. k \in DOMAIN c /\ c[k][1] = seg[2]
        BY <3>1, KeyFacts
      <4> HIDE DEF c, entry, k, m
      <4>3. /\ d = [i \in 1 .. Len(c) |-> d[i]] /\ d[k] = entry
            /\ \A i \in DOMAIN c : i # k => d[i] = c[i]
        BY <2>1, <4>2
      <4> HIDE DEF d
      <4>4. IsList(d) /\ DOMAIN d = DOMAIN c
        BY <2>1, <4>3, MadeList
      <4>5. \A i \in DOMAIN c : i # k => c[i][1] # seg[2]
        BY <2>1, <4>2
      <4> QED BY <4>1, <4>2, <4>3, <4>4, <4>5
    <3>2. CASE ~HasKey(n, seg[2])
      <4> DEFINE k == Len(c) + 1
                 d == Append(c, entry)
      <4>1. m = <<"dict", d>>
        BY <1>2, <3>2 DEF WithChild
      <4>2. \A i \in DOMAIN c : c[i][1] # seg[2]
        BY <1>2, <3>2, KeyFacts
      <4> HIDE DEF c, entry, m
      <4>3. /\ IsList(d) /\ Len(d) = Len(c) + 1 /\ d[k] = entry
            /\ \A i \in 1 .. Len(c) : d[i] = c[i]
        BY <2>1, ListAppended
      <4>4. DOMAIN d = 1 .. Len(c) + 1
        BY <4>3, ListFacts
      <4>5. k \in DOMAIN d /\ k \notin DOMAIN c /\ DOMAIN c \subseteq DOMAIN d /\ DOMAIN d \subseteq DOMAIN c \cup {k}
        BY <2>1, <4>4
      <4> HIDE DEF d, k
      <4> QED BY <2>1, <4>1, <4>2, <4>3, <4>5
    <3> QED BY <3>1, <3>2
  <2>4. PICK d, k : /\ m = <<"dict", d>> /\ IsList(d) /\ DOMAIN c \subseteq DOMAIN d
                    /\ k \in DOMAIN d /\ d[k] = entry /\ DOMAIN d \subseteq DOMAIN c \cup {k}
                    /\ \A i \in DOMAIN c : i # k => d[i] = c[i] /\ c[i][1] # seg[2]
                    /\ k \in DOMAIN c => c[k][1] = seg[2]
    BY <2>3
  <2> HIDE DEF c, entry, m
  <2>5. \A i \in DOMAIN d : d[i] = <<d[i][1], d[i][2]>> /\ d[i][2] # Absent
    BY <2>1, <2>2, <2>4
  <2>6. \A i, j \in DOMAIN d : d[i][1] = d[j][1] => i = j
    <3> TAKE i, j \in DOMAIN d
    <3>1. d[k][1] = seg[2]
      BY <2>2, <2>4
    <3>2. \A l \in DOMAIN d : l # k => l \in DOMAIN c /\ d[l] = c[l] /\ c[l][1] # seg[2]
      BY <2>4
    <3> QED BY <2>1, <3>1, <3>2
  <2>7. NodeOK(m) /\ Kind(m) = "dict" /\ Content(m) = d
    BY <2>4, <2>5, <2>6, DictMade
  <2>8. Child(m, seg) = child
    BY <1>2, <2>2, <2>4, <2>7, ChildByKey DEF Holds
  <2>9. ASSUME NEW other, IsSeg(other), other # seg PROVE Child(m, other) = Child(n, other)
    <3>1. CASE other[1] # "key"
      BY <1>2, <2>7, <2>9, <3>1, ChildElsewhere
    <3>2. CASE other[1] = "key"
      <4>1. other[2] # seg[2]
        BY <1>2, <2>9, <3>2, SegForms DEF Holds
      <4>2. CASE \E i \in DOMAIN c : c[i][1] = other[2]
        <5>1. PICK i \in DOMAIN c : c[i][1] = other[2]
          BY <4>2
        <5>2. i # k /\ i \in DOMAIN d /\ d[i] = c[i]
          BY <2>4, <4>1, <5>1
        <5>3. Child(m, other) = d[i][2]
          BY <2>7, <2>9, <3>2, <5>1, <5>2, ChildByKey
        <5>4. Child(n, other) = c[i][2]
          BY <1>2, <2>9, <3>2, <5>1, ChildByKey DEF Holds, c
        <5> QED BY <5>2, <5>3, <5>4
      <4>3. CASE \A i \in DOMAIN c : c[i][1] # other[2]
        <5>1. \A i \in DOMAIN d : d[i][1] # other[2]
          BY <2>2, <2>4, <4>1, <4>3
        <5>2. Child(m, other) = Absent
          BY <2>7, <2>9, <3>2, <5>1, ChildByKey
        <5>3. Child(n, other) = Absent
          BY <1>2, <2>9, <3>2, <4>3, ChildByKey DEF Holds, c
        <5> QED BY <5>2, <5>3
      <4> QED BY <4>2, <4>3
    <3> QED BY <3>1, <3>2
  <2> QED BY <1>2, <2>7, <2>8, <2>9 DEF m
<1> QED BY <1>1, <1>2 DEF Holds

-----------------------------------------------------------------------------
(* Paths that part, and paths one of which goes on from the other.         *)

LEMMA JoinedLike ==
  ASSUME NEW q, IsList(q), NEW p, IsList(p), NEW rest, IsList(rest), Len(q) = Len(p) + Len(rest),
         \A i \in 1 .. Len(p) : q[i] = p[i], \A i \in 1 .. Len(rest) : q[Len(p) + i] = rest[i]
  PROVE  q = p \o rest
<1>1. Len(q) \in Nat /\ Len(p) \in Nat /\ Len(rest) \in Nat
  BY ListFacts
<1>2. /\ IsList(p \o rest) /\ Len(p \o rest) = Len(p) + Len(rest)
      /\ \A i \in 1 .. Len(p) : (p \o rest)[i] = p[i]
      /\ \A i \in 1 .. Len(rest) : (p \o rest)[Len(p) + i] = rest[i]
  BY ListJoined
<1>3. \A i \in 1 .. Len(q) : (p \o rest)[i] = q[i]
  <2> TAKE i \in 1 .. Len(q)
  <2>1. CASE i <= Len(p)
    BY <1>1, <1>2, <2>1
  <2>2. CASE i > Len(p)
    <3>1. i - Len(p) \in 1 .. Len(rest) /\ Len(p) + (i - Len(p)) = i
      BY <1>1, <2>2
    <3> QED BY <1>2, <3>1
  <2>3. i <= Len(p) \/ i > Len(p)
    BY <1>1
  <2> QED BY <2>1, <2>2, <2>3
<1> QED BY <1>1, <1>2, <1>3, SameLists

LEMMA PathSplit ==
  ASSUME NEW q, IsPath(q), NEW k \in 0 .. Len(q)
  PROVE  \E rest : IsPath(rest) /\ Len(rest) = Len(q) - k /\ q = Prefix(q, k) \o rest
<1> DEFINE n == Len(q) - k
           rest == [i \in 1 .. n |-> q[k + i]]
<1>1. Len(q) \in Nat /\ IsList(q) /\ k \in Nat /\ n \in Nat /\ k + n = Len(q)
      /\ \A i \in 1 .. Len(q) : IsSeg(q[i])
  BY PathSegs
<1>2. \A i \in 1 .. n : rest[i] = q[k + i] /\ k + i \in 1 .. Len(q)
  BY <1>1
<1> HIDE DEF n
<1>3. IsList(rest) /\ Len(rest) = n
  BY <1>1, MadeList
<1> HIDE DEF rest
<1>4. IsPath(rest)
  BY <1>1, <1>2, <1>3, PathOfSegs
<1>5. /\ IsPath(Prefix(q, k)) /\ Len(Prefix(q, k)) = k
      /\ \A i \in 1 .. k : Prefix(q, k)[i] = q[i]
  BY PathPrefix
<1>6. IsList(Prefix(q, k))
  BY <1>5 DEF IsPath
<1>7. q = Prefix(q, k) \o rest
  <2>1. \A i \in 1 .. Len(rest) : q[Len(Prefix(q, k)) + i] = rest[i]
    BY <1>2, <1>3, <1>5
  <2>2. Len(q) = Len(Prefix(q, k)) + Len(rest)
    BY <1>1, <1>3, <1>5
  <2>3. \A i \in 1 .. Len(Prefix(q, k)) : q[i] = Prefix(q, k)[i]
    BY <1>5
  <2>4. ASSUME NEW r, IsList(r), Len(q) = Len(Prefix(q, k)) + Len(r), \A i \in 1 .. Len(r) : q[Len(Prefix(q, k)) + i] = r[i]
        PROVE  q = Prefix(q, k) \o r
    BY <1>1, <1>6, <2>3, <2>4, JoinedLike
  <2> QED BY <1>3, <2>1, <2>2, <2>4
<1> QED BY <1>3, <1>4, <1>7 DEF n

LEMMA PathEmpty ==
  ASSUME NEW p, IsPath(p), Len(p) = 0
  PROVE  p = <<>>
<1>1. IsList(p) /\ IsList(<<>>) /\ Len(<<>>) = 0
  BY NoneIsPath, PathSegs DEF IsPath
<1> QED BY <1>1, SameLists

LEMMA PathNone ==
  ASSUME NEW p, IsPath(p)
  PROVE  p \o <<>> = p /\ <<>> \o p = p
<1>1. IsList(p) /\ IsList(<<>>) /\ Len(<<>>) = 0 /\ Len(p) \in Nat
  BY NoneIsPath, PathSegs DEF IsPath
<1>2. /\ IsList(p \o <<>>) /\ Len(p \o <<>>) = Len(p) + 0
      /\ \A i \in 1 .. Len(p) : (p \o <<>>)[i] = p[i]
  BY <1>1, ListJoined
<1>3. p \o <<>> = p
  BY <1>1, <1>2, SameLists
<1>4. /\ IsList(<<>> \o p) /\ Len(<<>> \o p) = 0 + Len(p)
      /\ \A i \in 1 .. Len(p) : (<<>> \o p)[0 + i] = p[i]
  BY <1>1, ListJoined
<1>5. \A i \in 1 .. Len(p) : (<<>> \o p)[i] = p[i]
  BY <1>1, <1>4
<1>6. <<>> \o p = p
  BY <1>1, <1>4, <1>5, SameLists
<1> QED BY <1>3, <1>6

\* Of two paths one goes on from the other, or they part.
LEMMA PathsCompared ==
  ASSUME NEW p, IsPath(p), NEW q, IsPath(q)
  PROVE  \/ Apart(p, q)
         \/ \E rest : IsPath(rest) /\ q = p \o rest
         \/ \E i \in 0 .. Len(p) - 1 : q = Prefix(p, i)
<1>1. /\ Len(p) \in Nat /\ DOMAIN p = 1 .. Len(p) /\ IsList(p)
      /\ Len(q) \in Nat /\ DOMAIN q = 1 .. Len(q) /\ IsList(q)
  BY PathSegs
<1>2. CASE ~Apart(p, q) /\ Len(p) <= Len(q)
  <2>1. Len(p) \in 0 .. Len(q)
    BY <1>1, <1>2
  <2>2. \A i \in 1 .. Len(p) : i \in DOMAIN p \cap DOMAIN q
    BY <1>1, <1>2
  <2>3. /\ IsPath(Prefix(q, Len(p))) /\ Len(Prefix(q, Len(p))) = Len(p)
        /\ \A i \in 1 .. Len(p) : Prefix(q, Len(p))[i] = q[i]
    BY <2>1, PathPrefix
  <2>4. \A i \in 1 .. Len(p) : Prefix(q, Len(p))[i] = p[i]
    BY <1>2, <2>2, <2>3 DEF Apart
  <2>5. Prefix(q, Len(p)) = p
    BY <1>1, <2>3, <2>4, SameLists DEF IsPath
  <2>6. \E rest : IsPath(rest) /\ q = p \o rest
    <3>1. \E rest : IsPath(rest) /\ q = Prefix(q, Len(p)) \o rest
      BY <2>1, PathSplit
    <3> QED BY <2>5, <3>1
  <2> QED BY <2>6
<1>3. CASE ~Apart(p, q) /\ Len(q) < Len(p)
  <2>1. Len(q) \in 0 .. Len(p) /\ Len(q) \in 0 .. Len(p) - 1
    BY <1>1, <1>3
  <2>2. \A i \in 1 .. Len(q) : i \in DOMAIN p \cap DOMAIN q
    BY <1>1, <1>3
  <2>3. /\ IsPath(Prefix(p, Len(q))) /\ Len(Prefix(p, Len(q))) = Len(q)
        /\ \A i \in 1 .. Len(q) : Prefix(p, Len(q))[i] = p[i]
    BY <2>1, PathPrefix
  <2>4. \A i \in 1 .. Len(q) : q[i] = Prefix(p, Len(q))[i]
    BY <1>3, <2>2, <2>3 DEF Apart
  <2>5. q = Prefix(p, Len(q))
    BY <1>1, <2>3, <2>4, SameLists DEF IsPath
  <2> QED BY <2>1, <2>5
<1>4. Len(p) <= Len(q) \/ Len(q) < Len(p)
  BY <1>1
<1> QED BY <1>2, <1>3, <1>4

\* Where two paths first part.
LEMMA PartedAt ==
  ASSUME NEW p, IsPath(p), NEW q, IsPath(q), Apart(p, q)
  PROVE  \E k \in Nat : /\ k \in 0 .. Len(p) - 1 /\ k \in 0 .. Len(q) - 1
                        /\ Prefix(p, k) = Prefix(q, k) /\ p[k + 1] # q[k + 1]
<1>1. /\ Len(p) \in Nat /\ DOMAIN p = 1 .. Len(p)
      /\ Len(q) \in Nat /\ DOMAIN q = 1 .. Len(q)
  BY PathSegs
<1> DEFINE S == {k \in Nat : k < Len(p) /\ k < Len(q) => (\A i \in 1 .. k + 1 : p[i] = q[i])}
<1>2. SUFFICES ASSUME \A k \in Nat : k < Len(p) /\ k < Len(q) /\ Prefix(p, k) = Prefix(q, k) => p[k + 1] = q[k + 1]
               PROVE  FALSE
  BY <1>1
<1>3. \A k \in Nat : k < Len(p) /\ k < Len(q) /\ (\A i \in 1 .. k : p[i] = q[i]) => p[k + 1] = q[k + 1]
  <2> TAKE k \in Nat
  <2> HAVE k < Len(p) /\ k < Len(q) /\ (\A i \in 1 .. k : p[i] = q[i])
  <2>1. Prefix(p, k) = Prefix(q, k)
    BY DEF Prefix
  <2> QED BY <1>2, <2>1
<1>4. 0 \in S
  <2>1. \A i \in 1 .. 0 + 1 : i = 0 + 1
    OBVIOUS
  <2> QED BY <1>3, <2>1
<1>5. \A k \in Nat : k \in S => k + 1 \in S
  <2> SUFFICES ASSUME NEW k \in Nat, k \in S, k + 1 < Len(p) /\ k + 1 < Len(q)
               PROVE  \A i \in 1 .. (k + 1) + 1 : p[i] = q[i]
    <3>1. \A k \in Nat : k + 1 \in Nat
      OBVIOUS
    <3> QED BY <3>1
  <2>1. k < Len(p) /\ k < Len(q)
    BY <1>1
  <2>2. \A i \in 1 .. k + 1 : p[i] = q[i]
    BY <2>1
  <2>3. p[(k + 1) + 1] = q[(k + 1) + 1]
    BY <1>3, <2>2
  <2>4. \A i \in 1 .. (k + 1) + 1 : i \in 1 .. k + 1 \/ i = (k + 1) + 1
    OBVIOUS
  <2> QED BY <2>2, <2>3, <2>4
<1> HIDE DEF S
<1>6. Nat \subseteq S
  BY <1>4, <1>5, EveryNatural
<1>7. PICK i \in DOMAIN p \cap DOMAIN q : p[i] # q[i]
  BY DEF Apart
<1>8. i - 1 \in Nat /\ i - 1 < Len(p) /\ i - 1 < Len(q) /\ i \in 1 .. (i - 1) + 1
  BY <1>1, <1>7
<1> QED BY <1>6, <1>7, <1>8 DEF S

LEMMA ApartSwapped == \A p, q : Apart(p, q) <=> Apart(q, p)
BY DEF Apart

-----------------------------------------------------------------------------
(* Writing at a path.                                                      *)

IsUp(u, root, path, node, m, n) ==
    u = [i \in m .. n |-> IF i = n THEN node
                          ELSE WithChild(Get(root, SubSeq(path, 1, i)), path[i + 1], u[i + 1])]

LEMMA UpExists ==
  ASSUME NEW root, NEW path, NEW node, NEW n \in Nat
  PROVE  \E u : IsUp(u, root, path, node, 0, n)
<1> DEFINE S == {k \in Nat : k <= n => \E u : IsUp(u, root, path, node, n - k, n)}
<1>1. 0 \in S
  <2> DEFINE u == [i \in n .. n |-> node]
  <2>1. \A i \in n .. n : i = n
    OBVIOUS
  <2>2. u = [i \in n .. n |-> IF i = n THEN node
                        ELSE WithChild(Get(root, SubSeq(path, 1, i)), path[i + 1], u[i + 1])]
    BY <2>1
  <2> HIDE DEF u
  <2>3. n - 0 = n
    OBVIOUS
  <2>4. IsUp(u, root, path, node, n - 0, n)
    BY <2>2, <2>3 DEF IsUp
  <2> QED BY <2>4
<1>2. \A k \in Nat : k \in S => k + 1 \in S
  <2> SUFFICES ASSUME NEW k \in Nat, k + 1 <= n, NEW v, IsUp(v, root, path, node, n - k, n)
               PROVE  \E u : IsUp(u, root, path, node, n - (k + 1), n)
    OBVIOUS
  <2> DEFINE m == n - (k + 1)
             first == WithChild(Get(root, SubSeq(path, 1, m)), path[m + 1], v[m + 1])
             u == [i \in m .. n |-> IF i = m THEN first ELSE v[i]]
  <2>1. m \in Nat /\ n - k = m + 1 /\ m < n
    OBVIOUS
  <2> HIDE DEF m
  <2>2. \A i \in m + 1 .. n : v[i] = IF i = n THEN node
                        ELSE WithChild(Get(root, SubSeq(path, 1, i)), path[i + 1], v[i + 1])
    BY <2>1 DEF IsUp
  <2>3. \A i \in m .. n : u[i] = IF i = n THEN node
                        ELSE WithChild(Get(root, SubSeq(path, 1, i)), path[i + 1], u[i + 1])
    <3> TAKE i \in m .. n
    <3>1. CASE i = m
      <4>1. u[m] = first /\ u[m + 1] = v[m + 1] /\ m # n
        BY <2>1
      <4> QED BY <3>1, <4>1
    <3>2. CASE i # m
      <4>1. i \in m + 1 .. n /\ u[i] = v[i] /\ (i # n => i + 1 \in m .. n /\ u[i + 1] = v[i + 1])
        BY <2>1, <3>2
      <4> QED BY <2>2, <4>1
    <3> QED BY <3>1, <3>2
  <2>4. u = [i \in m .. n |-> IF i = n THEN node
                        ELSE WithChild(Get(root, SubSeq(path, 1, i)), path[i + 1], u[i + 1])]
    <3>1. u = [i \in m .. n |-> u[i]]
      OBVIOUS
    <3> HIDE DEF u
    <3> QED BY <3>1, <2>3
  <2> HIDE DEF u
  <2> QED BY <2>4 DEF IsUp, m
<1> HIDE DEF S
<1>3. Nat \subseteq S
  BY <1>1, <1>2, EveryNatural
<1>4. n \in S /\ n <= n /\ n - n = 0
  BY <1>3
<1> QED BY <1>4 DEF S

\* The nodes along a path, as a graft makes them from the last to the first.
IsGrafting(u, root, path, node) ==
    /\ u[0] = Graft(root, path, node) /\ u[Len(path)] = node
    /\ \A i \in 0 .. Len(path) - 1 :
          u[i] = WithChild(Get(root, Prefix(path, i)), path[i + 1], u[i + 1])

LEMMA GraftSteps ==
  ASSUME NEW root, NEW path, IsPath(path), NEW node
  PROVE  \E u : IsGrafting(u, root, path, node)
<1> DEFINE n == Len(path)
           up == CHOOSE u : IsUp(u, root, path, node, 0, n)
<1>1. n \in Nat
  BY PathSegs
<1>2. IsUp(up, root, path, node, 0, n)
  <2>1. \E u : IsUp(u, root, path, node, 0, n)
    BY <1>1, UpExists
  <2> QED BY <2>1, Zenon
<1>3. Graft(root, path, node) = up[0]
  BY DEF Graft, IsUp
<1> HIDE DEF up
<1>4. \A i \in 0 .. n : up[i] = IF i = n THEN node
                        ELSE WithChild(Get(root, SubSeq(path, 1, i)), path[i + 1], up[i + 1])
  BY <1>2 DEF IsUp
<1>5. \A i \in 0 .. n : SubSeq(path, 1, i) = Prefix(path, i)
  BY <1>1 DEF Prefix
<1>6. \A i \in 0 .. n - 1 : up[i] = WithChild(Get(root, Prefix(path, i)), path[i + 1], up[i + 1])
  <2> TAKE i \in 0 .. n - 1
  <2>1. i \in 0 .. n /\ i # n
    BY <1>1
  <2> QED BY <1>4, <1>5, <2>1
<1>7. up[n] = node
  BY <1>1, <1>4
<1> QED BY <1>3, <1>6, <1>7 DEF IsGrafting

-----------------------------------------------------------------------------
(* Trees: wherever a path leads there is a node, or nothing.               *)

Tree(n) ==
    NodeOK(n) /\ \A p : IsPath(p) => Get(n, p) = Absent \/ NodeOK(Get(n, p))

LEMMA NodesAreThere == \A n : NodeOK(n) => n # Absent /\ n # Refused
<1>1. Kind(Absent) = "absent" /\ Kind(Refused) = "refused"
  BY DEF Kind, Absent, Refused
<1> QED BY <1>1 DEF NodeOK

LEMMA GetSplit ==
  ASSUME NEW q, IsPath(q), NEW k \in 0 .. Len(q)
  PROVE  \E rest : IsPath(rest) /\ \A root : Get(root, q) = Get(Get(root, Prefix(q, k)), rest)
<1>1. PICK rest : IsPath(rest) /\ q = Prefix(q, k) \o rest
  BY PathSplit
<1>2. IsPath(Prefix(q, k))
  BY PathPrefix
<1>3. ASSUME NEW root PROVE Get(root, q) = Get(Get(root, Prefix(q, k)), rest)
  <2>1. Get(root, Prefix(q, k) \o rest) = Get(Get(root, Prefix(q, k)), rest)
    BY <1>1, <1>2, GetJoined
  <2> QED BY <1>1, <2>1, Zenon
<1> QED BY <1>1, <1>3

LEMMA PrefixThere ==
  ASSUME NEW root, NEW p, IsPath(p), Get(root, p) # Absent, NEW i \in 0 .. Len(p)
  PROVE  Get(root, Prefix(p, i)) # Absent
<1>1. PICK rest : IsPath(rest) /\ \A n : Get(n, p) = Get(Get(n, Prefix(p, i)), rest)
  BY GetSplit
<1> QED BY <1>1, GetNothing

LEMMA PrefixStep ==
  ASSUME NEW root, NEW p, IsPath(p), NEW i \in 0 .. Len(p) - 1
  PROVE  /\ i + 1 \in 0 .. Len(p) /\ i \in 0 .. Len(p) /\ IsSeg(p[i + 1])
         /\ Get(root, Prefix(p, i + 1)) = Child(Get(root, Prefix(p, i)), p[i + 1])
<1>1. Len(p) \in Nat /\ \A j \in 1 .. Len(p) : IsSeg(p[j])
  BY PathSegs
<1>2. i + 1 \in 0 .. Len(p) /\ i \in 0 .. Len(p) /\ IsSeg(p[i + 1]) /\ i + 1 \in 1 .. Len(p) /\ i \in Nat
  BY <1>1
<1>3. PICK w : IsWalk(w, root, p)
  BY <1>1, WalkExists
<1>4. w[i] = Get(root, Prefix(p, i)) /\ w[i + 1] = Get(root, Prefix(p, i + 1))
  BY <1>2, <1>3, WalkStops
<1>5. w[i + 1] = Child(w[(i + 1) - 1], p[i + 1]) /\ (i + 1) - 1 = i
  BY <1>2, <1>3 DEF IsWalk
<1> QED BY <1>2, <1>4, <1>5

LEMMA WholePrefix == ASSUME NEW p, IsPath(p) PROVE Prefix(p, Len(p)) = p /\ Prefix(p, 0) = <<>>
<1>1. IsList(p) /\ Len(p) \in Nat
  BY PathSegs
<1> QED BY <1>1 DEF Prefix, IsList

\* Where a graft has nodes to write in all the way.
Graftable(root, path) ==
    \A i \in 0 .. Len(path) - 1 : Holds(Get(root, Prefix(path, i)), path[i + 1])

LEMMA ThereIsGraftable ==
  ASSUME NEW root, Tree(root), NEW p, IsPath(p), Get(root, p) # Absent
  PROVE  Graftable(root, p)
<1> SUFFICES ASSUME NEW i \in 0 .. Len(p) - 1 PROVE Holds(Get(root, Prefix(p, i)), p[i + 1])
  BY DEF Graftable
<1>1. /\ i + 1 \in 0 .. Len(p) /\ i \in 0 .. Len(p) /\ IsSeg(p[i + 1])
      /\ Get(root, Prefix(p, i + 1)) = Child(Get(root, Prefix(p, i)), p[i + 1])
  BY PrefixStep
<1>2. Get(root, Prefix(p, i)) # Absent /\ Get(root, Prefix(p, i + 1)) # Absent
  BY <1>1, PrefixThere
<1>3. IsPath(Prefix(p, i))
  BY <1>1, PathPrefix
<1>4. NodeOK(Get(root, Prefix(p, i)))
  BY <1>2, <1>3 DEF Tree
<1> QED BY <1>1, <1>2, <1>4, ChildThere

LEMMA AppendedPrefix ==
  ASSUME NEW p, IsPath(p), NEW seg, IsSeg(seg)
  PROVE  /\ IsPath(Append(p, seg)) /\ Len(Append(p, seg)) = Len(p) + 1
         /\ Append(p, seg)[Len(p) + 1] = seg
         /\ \A i \in 0 .. Len(p) : Prefix(Append(p, seg), i) = Prefix(p, i)
         /\ \A i \in 1 .. Len(p) : Append(p, seg)[i] = p[i]
<1> DEFINE q == Append(p, seg)
<1>1. /\ IsPath(q) /\ Len(q) = Len(p) + 1 /\ q[Len(p) + 1] = seg
      /\ \A i \in 1 .. Len(p) : q[i] = p[i]
  BY PathAppended
<1> HIDE DEF q
<1>2. ASSUME NEW i \in 0 .. Len(p) PROVE Prefix(q, i) = Prefix(p, i)
  <2>1. Len(p) \in Nat
    BY PathSegs
  <2>2. \A j \in 1 .. i : q[j] = p[j]
    BY <1>1, <2>1
  <2> QED BY <2>2 DEF Prefix
<1> QED BY <1>1, <1>2 DEF q

LEMMA NextIsGraftable ==
  ASSUME NEW root, Tree(root), NEW p, IsPath(p), NEW seg, Holds(Get(root, p), seg)
  PROVE  Graftable(root, Append(p, seg))
<1> DEFINE q == Append(p, seg)
<1>0. IsSeg(seg) /\ NodeOK(Get(root, p)) /\ Len(p) \in Nat
  BY PathSegs DEF Holds
<1>1. /\ IsPath(q) /\ Len(q) = Len(p) + 1 /\ q[Len(p) + 1] = seg
      /\ \A i \in 0 .. Len(p) : Prefix(q, i) = Prefix(p, i)
      /\ \A i \in 1 .. Len(p) : q[i] = p[i]
  BY <1>0, AppendedPrefix
<1> HIDE DEF q
<1>2. Graftable(root, p)
  BY <1>0, NodesAreThere, ThereIsGraftable
<1>3. ASSUME NEW i \in 0 .. Len(q) - 1 PROVE Holds(Get(root, Prefix(q, i)), q[i + 1])
  <2>1. CASE i = Len(p)
    BY <1>0, <1>1, <2>1, WholePrefix
  <2>2. CASE i # Len(p)
    <3>1. i \in 0 .. Len(p) - 1 /\ i \in 0 .. Len(p) /\ i + 1 \in 1 .. Len(p)
      BY <1>0, <1>1, <2>2
    <3> QED BY <1>1, <1>2, <3>1 DEF Graftable
  <2> QED BY <2>1, <2>2
<1> QED BY <1>3 DEF Graftable, q

\* What a graft leads to: the node at its path, what there was wherever paths part
\* from it, and on the way nodes of the kinds there were.
LEMMA Grafted ==
  ASSUME NEW root, NEW path, IsPath(path), Graftable(root, path), NEW node, node # Absent
  PROVE  /\ Get(Graft(root, path, node), path) = node
         /\ \A i \in 0 .. Len(path) - 1 :
               /\ NodeOK(Get(Graft(root, path, node), Prefix(path, i)))
               /\ Kind(Get(Graft(root, path, node), Prefix(path, i))) = Kind(Get(root, Prefix(path, i)))
         /\ \A q : IsPath(q) /\ Apart(path, q) => Get(Graft(root, path, node), q) = Get(root, q)
<1> DEFINE n == Len(path)
           new == Graft(root, path, node)
           At(i) == Get(root, Prefix(path, i))
<1>0. n \in Nat
  BY PathSegs
<1>1. PICK u : /\ u[0] = new /\ u[n] = node
               /\ \A i \in 0 .. n - 1 : u[i] = WithChild(At(i), path[i + 1], u[i + 1])
  <2>1. PICK u : IsGrafting(u, root, path, node)
    BY GraftSteps
  <2> QED BY <2>1 DEF IsGrafting
<1> HIDE DEF n, new
<1>2. \A i \in 0 .. n - 1 : Holds(At(i), path[i + 1])
  BY DEF Graftable, n
<1> HIDE DEF At
<1>3. ASSUME NEW i \in 0 .. n - 1, u[i + 1] # Absent
      PROVE  /\ NodeOK(u[i]) /\ Kind(u[i]) = Kind(At(i)) /\ u[i] # Absent
             /\ Child(u[i], path[i + 1]) = u[i + 1]
             /\ \A other : IsSeg(other) /\ other # path[i + 1] => Child(u[i], other) = Child(At(i), other)
  <2>1. u[i] = WithChild(At(i), path[i + 1], u[i + 1]) /\ Holds(At(i), path[i + 1])
    BY <1>1, <1>2
  <2> QED BY <1>3, <2>1, ChildWritten, NodesAreThere
<1>4. \A i \in 0 .. n : u[i] # Absent
  <2> DEFINE S == {k \in Nat : k <= n => u[n - k] # Absent}
  <2>1. 0 \in S
    <3>1. n - 0 = n
      BY <1>0
    <3> QED BY <1>1, <3>1
  <2>2. \A k \in Nat : k \in S => k + 1 \in S
    <3> SUFFICES ASSUME NEW k \in Nat, k \in S, k + 1 <= n PROVE u[n - (k + 1)] # Absent
      OBVIOUS
    <3>1. n - (k + 1) \in 0 .. n - 1 /\ (n - (k + 1)) + 1 = n - k /\ k <= n
      BY <1>0
    <3>2. u[n - k] # Absent
      BY <3>1
    <3> QED BY <1>3, <3>1, <3>2
  <2> HIDE DEF S
  <2>3. Nat \subseteq S
    BY <2>1, <2>2, EveryNatural
  <2>4. ASSUME NEW i \in 0 .. n PROVE u[i] # Absent
    <3>1. n - i \in Nat /\ n - i <= n /\ n - (n - i) = i
      BY <1>0
    <3> QED BY <2>3, <3>1 DEF S
  <2> QED BY <2>4
<1>5. \A i \in 0 .. n - 1 : i + 1 \in 0 .. n
  BY <1>0
<1>6. \A i \in 0 .. n - 1 :
         /\ NodeOK(u[i]) /\ Kind(u[i]) = Kind(At(i))
         /\ Child(u[i], path[i + 1]) = u[i + 1]
         /\ \A other : IsSeg(other) /\ other # path[i + 1] => Child(u[i], other) = Child(At(i), other)
  BY <1>3, <1>4, <1>5
<1>7. IsWalk(u, new, path)
  <2> SUFFICES ASSUME NEW i \in 1 .. Len(path) PROVE u[i] = Child(u[i - 1], path[i])
    BY <1>1 DEF IsWalk
  <2>1. i - 1 \in 0 .. n - 1 /\ (i - 1) + 1 = i
    BY <1>0 DEF n
  <2> QED BY <1>6, <2>1
<1>8. \A i \in 0 .. n : u[i] = Get(new, Prefix(path, i))
  BY <1>7, WalkStops DEF n
<1>9. Get(new, path) = node
  <2>1. n \in 0 .. n
    BY <1>0
  <2> QED BY <1>1, <1>8, <2>1, WholePrefix DEF n
<1>10. \A i \in 0 .. n - 1 : i \in 0 .. n
  BY <1>0
<1>11. ASSUME NEW q, IsPath(q), Apart(path, q) PROVE Get(new, q) = Get(root, q)
  <2>1. PICK k \in Nat : /\ k \in 0 .. Len(path) - 1 /\ k \in 0 .. Len(q) - 1
                         /\ Prefix(path, k) = Prefix(q, k) /\ path[k + 1] # q[k + 1]
    BY <1>11, PartedAt
  <2>2. /\ k + 1 \in 0 .. Len(q) /\ IsSeg(q[k + 1])
        /\ Get(new, Prefix(q, k + 1)) = Child(Get(new, Prefix(q, k)), q[k + 1])
        /\ Get(root, Prefix(q, k + 1)) = Child(Get(root, Prefix(q, k)), q[k + 1])
    BY <1>11, <2>1, PrefixStep
  <2>3. k \in 0 .. n - 1 /\ k \in 0 .. n
    BY <1>10, <2>1 DEF n
  <2>4. Get(new, Prefix(q, k)) = u[k] /\ Get(root, Prefix(q, k)) = At(k)
    BY <1>8, <2>1, <2>3 DEF At
  <2>5. Child(u[k], q[k + 1]) = Child(At(k), q[k + 1])
    BY <1>6, <2>1, <2>2, <2>3
  <2>6. PICK rest : IsPath(rest) /\ \A m : Get(m, q) = Get(Get(m, Prefix(q, k + 1)), rest)
    BY <1>11, <2>2, GetSplit
  <2> QED BY <2>2, <2>4, <2>5, <2>6
<1> QED BY <1>6, <1>8, <1>9, <1>10, <1>11 DEF n, new, At

LEMMA GraftedTree ==
  ASSUME NEW root, Tree(root), NEW path, IsPath(path), Graftable(root, path), NEW node, Tree(node)
  PROVE  Tree(Graft(root, path, node))
<1> DEFINE new == Graft(root, path, node)
<1>1. node # Absent
  BY NodesAreThere DEF Tree
<1>2. /\ Get(new, path) = node
      /\ \A i \in 0 .. Len(path) - 1 : NodeOK(Get(new, Prefix(path, i)))
      /\ \A q : IsPath(q) /\ Apart(path, q) => Get(new, q) = Get(root, q)
  BY <1>1, Grafted
<1> HIDE DEF new
<1>3. ASSUME NEW q, IsPath(q) PROVE Get(new, q) = Absent \/ NodeOK(Get(new, q))
  <2>1. CASE Apart(path, q)
    BY <1>2, <1>3, <2>1 DEF Tree
  <2>2. ASSUME NEW rest, IsPath(rest), q = path \o rest PROVE Get(new, q) = Absent \/ NodeOK(Get(new, q))
    <3>1. Get(new, path \o rest) = Get(node, rest)
      BY <1>2, <2>2, GetJoined
    <3>2. Get(new, q) = Get(node, rest)
      BY <2>2, <3>1, Zenon
    <3> QED BY <2>2, <3>2 DEF Tree
  <2>3. CASE \E i \in 0 .. Len(path) - 1 : q = Prefix(path, i)
    BY <1>2, <2>3
  <2> QED BY <1>3, <2>1, <2>2, <2>3, PathsCompared
<1>4. NodeOK(new)
  <2>1. CASE path = <<>>
    <3>1. new = node
      BY <1>2, <2>1, GetHere
    <3> QED BY <3>1 DEF Tree
  <2>2. CASE path # <<>>
    <3>1. 0 \in 0 .. Len(path) - 1
      <4>1. Len(path) \in Nat /\ Len(path) # 0
        BY <2>2, PathSegs, PathEmpty
      <4> QED BY <4>1
    <3>2. Prefix(path, 0) = <<>>
      BY WholePrefix
    <3>3. Get(new, Prefix(path, 0)) = new
      BY <3>2, GetHere
    <3> QED BY <1>2, <3>1, <3>3
  <2> QED BY <2>1, <2>2
<1> QED BY <1>3, <1>4 DEF Tree, new

-----------------------------------------------------------------------------
(* Trees made from trees.                                                  *)

LEMMA PartIsTree ==
  ASSUME NEW n, Tree(n), NEW p, IsPath(p), Get(n, p) # Absent
  PROVE  Tree(Get(n, p))
<1>1. NodeOK(Get(n, p))
  BY DEF Tree
<1>2. ASSUME NEW q, IsPath(q)
      PROVE  Get(Get(n, p), q) = Absent \/ NodeOK(Get(Get(n, p), q))
  <2>1. Get(n, p \o q) = Get(Get(n, p), q) /\ IsPath(p \o q)
    BY <1>2, GetJoined, PathJoined
  <2> QED BY <2>1 DEF Tree
<1> QED BY <1>1, <1>2 DEF Tree

LEMMA GetChild ==
  ASSUME NEW n, NEW seg, IsSeg(seg)
  PROVE  IsPath(Append(<<>>, seg)) /\ Get(n, Append(<<>>, seg)) = Child(n, seg)
<1>1. IsPath(Append(<<>>, seg)) /\ Get(n, Append(<<>>, seg)) = Child(Get(n, <<>>), seg)
  BY NoneIsPath, GetFurther, PathAppended
<1>2. Get(n, <<>>) = n
  BY GetHere
<1> QED BY <1>1, <1>2

LEMMA ChildIsTree ==
  ASSUME NEW n, Tree(n), NEW seg, IsSeg(seg), Child(n, seg) # Absent
  PROVE  Tree(Child(n, seg))
<1>1. IsPath(Append(<<>>, seg)) /\ Get(n, Append(<<>>, seg)) = Child(n, seg)
  BY GetChild
<1> HIDE DEF Tree
<1> QED BY <1>1, PartIsTree

LEMMA TreeOfChildren ==
  ASSUME NEW n, NodeOK(n), \A seg : IsSeg(seg) => Child(n, seg) = Absent \/ Tree(Child(n, seg))
  PROVE  Tree(n)
<1> SUFFICES ASSUME NEW p, IsPath(p) PROVE Get(n, p) = Absent \/ NodeOK(Get(n, p))
  BY DEF Tree
<1>1. CASE Len(p) = 0
  <2>1. p = <<>>
    BY <1>1, PathEmpty
  <2> QED BY <2>1, GetHere
<1>2. CASE Len(p) # 0
  <2>1. Len(p) \in Nat
    BY PathSegs
  <2>2. 0 \in 0 .. Len(p) - 1 /\ 1 \in 0 .. Len(p)
    BY <1>2, <2>1
  <2>3. PICK rest : IsPath(rest) /\ \A m : Get(m, p) = Get(Get(m, Prefix(p, 1)), rest)
    BY <2>2, GetSplit
  <2>4. IsSeg(p[0 + 1]) /\ Get(n, Prefix(p, 0 + 1)) = Child(Get(n, Prefix(p, 0)), p[0 + 1])
    BY <2>2, PrefixStep
  <2>5. Get(n, Prefix(p, 0)) = n
    BY WholePrefix, GetHere
  <2>6. Get(n, p) = Get(Child(n, p[1]), rest) /\ IsSeg(p[1])
    BY <2>3, <2>4, <2>5
  <2>7. CASE Child(n, p[1]) = Absent
    BY <2>3, <2>6, <2>7, GetNothing
  <2>8. CASE Child(n, p[1]) # Absent
    BY <2>3, <2>6, <2>8 DEF Tree
  <2> QED BY <2>7, <2>8
<1> QED BY <1>1, <1>2

LEMMA DictIsTree ==
  ASSUME NEW c, IsList(c),
         \A i \in DOMAIN c : c[i] = <<c[i][1], c[i][2]>> /\ Tree(c[i][2]),
         \A i, j \in DOMAIN c : c[i][1] = c[j][1] => i = j
  PROVE  Tree(<<"dict", c>>)
<1> DEFINE n == <<"dict", c>>
<1>1. \A i \in DOMAIN c : c[i][2] # Absent
  BY NodesAreThere DEF Tree
<1>2. NodeOK(n) /\ Kind(n) = "dict" /\ Content(n) = c
  BY <1>1, DictMade
<1> HIDE DEF n
<1>3. ASSUME NEW seg, IsSeg(seg) PROVE Child(n, seg) = Absent \/ Tree(Child(n, seg))
  <2>1. CASE seg[1] = "key"
    <3>1. CASE \E i \in DOMAIN c : c[i][1] = seg[2]
      BY <1>2, <1>3, <2>1, <3>1, ChildByKey
    <3>2. CASE \A i \in DOMAIN c : c[i][1] # seg[2]
      BY <1>2, <1>3, <2>1, <3>2, ChildByKey
    <3> QED BY <3>1, <3>2
  <2>2. CASE seg[1] # "key"
    BY <1>2, <1>3, <2>2, ChildElsewhere
  <2> QED BY <2>1, <2>2
<1> QED BY <1>2, <1>3, TreeOfChildren DEF n

LEMMA ArrayIsTree ==
  ASSUME NEW c, IsList(c), \A i \in DOMAIN c : Tree(c[i])
  PROVE  Tree(<<"list", c>>)
<1> DEFINE n == <<"list", c>>
<1>1. \A i \in DOMAIN c : c[i] # Absent
  BY NodesAreThere DEF Tree
<1>2. NodeOK(n) /\ Kind(n) = "list" /\ Content(n) = c
  BY <1>1, ArrayMade
<1> HIDE DEF n
<1>3. ASSUME NEW seg, IsSeg(seg) PROVE Child(n, seg) = Absent \/ Tree(Child(n, seg))
  <2>1. CASE seg[1] = "idx"
    BY <1>2, <1>3, <2>1, ChildAtPosition
  <2>2. CASE seg[1] # "idx"
    BY <1>2, <1>3, <2>2, ChildElsewhere
  <2> QED BY <2>1, <2>2
<1> QED BY <1>2, <1>3, TreeOfChildren DEF n

LEMMA DictParts ==
  ASSUME NEW n, Tree(n), Kind(n) = "dict"
  PROVE  /\ IsList(Content(n)) /\ DOMAIN Content(n) = 1 .. Len(Content(n)) /\ Len(Content(n)) \in Nat
         /\ \A i \in DOMAIN Content(n) :
               Content(n)[i] = <<Content(n)[i][1], Content(n)[i][2]>> /\ Tree(Content(n)[i][2])
         /\ \A i, j \in DOMAIN Content(n) : Content(n)[i][1] = Content(n)[j][1] => i = j
<1>0. NodeOK(n)
  BY DEF Tree
<1>1. /\ IsList(Content(n)) /\ DOMAIN Content(n) = 1 .. Len(Content(n)) /\ Len(Content(n)) \in Nat
      /\ \A i \in DOMAIN Content(n) : /\ Content(n)[i] = <<Content(n)[i][1], Content(n)[i][2]>>
                                      /\ Content(n)[i][2] # Absent
      /\ \A i, j \in DOMAIN Content(n) : Content(n)[i][1] = Content(n)[j][1] => i = j
  BY <1>0, DictFacts
<1>2. ASSUME NEW i \in DOMAIN Content(n) PROVE Tree(Content(n)[i][2])
  <2> DEFINE seg == Key(Content(n)[i][1])
  <2>1. IsSeg(seg) /\ seg[1] = "key" /\ seg[2] = Content(n)[i][1]
    BY SegsMade
  <2> HIDE DEF seg
  <2>2. Child(n, seg) = Content(n)[i][2]
    BY <1>0, <2>1, ChildByKey
  <2> QED BY <1>1, <2>1, <2>2, ChildIsTree
<1> QED BY <1>1, <1>2

LEMMA ArrayParts ==
  ASSUME NEW n, Tree(n), Kind(n) = "list"
  PROVE  /\ IsList(Content(n)) /\ DOMAIN Content(n) = 1 .. Len(Content(n)) /\ Len(Content(n)) \in Nat
         /\ \A i \in DOMAIN Content(n) : Tree(Content(n)[i])
<1>0. NodeOK(n)
  BY DEF Tree
<1>1. /\ IsList(Content(n)) /\ DOMAIN Content(n) = 1 .. Len(Content(n)) /\ Len(Content(n)) \in Nat
      /\ \A i \in DOMAIN Content(n) : Content(n)[i] # Absent
  BY <1>0, ArrayFacts
<1>2. ASSUME NEW i \in DOMAIN Content(n) PROVE Tree(Content(n)[i])
  <2> DEFINE seg == Idx(i)
  <2>1. IsSeg(seg) /\ seg[1] = "idx" /\ seg[2] = i
    BY SegsMade
  <2> HIDE DEF seg
  <2>2. Child(n, seg) = Content(n)[i]
    BY <2>1, ChildAtPosition
  <2> QED BY <1>1, <2>1, <2>2, ChildIsTree
<1> QED BY <1>1, <1>2

LEMMA ScalarIsTree ==
  ASSUME NEW kind, kind \notin {"list", "dict", "absent", "refused"}, NEW text
  PROVE  /\ Tree(<<kind, text>>) /\ ~IsContainer(<<kind, text>>)
         /\ Kind(<<kind, text>>) = kind /\ Content(<<kind, text>>) = text
<1> DEFINE n == <<kind, text>>
<1>1. Kind(n) = kind /\ Content(n) = text /\ n = <<Kind(n), Content(n)>>
  BY DEF Kind, Content
<1> HIDE DEF n
<1>2. NodeOK(n) /\ ~IsContainer(n)
  BY <1>1 DEF NodeOK, IsContainer
<1>3. \A seg : IsSeg(seg) => Child(n, seg) = Absent
  BY <1>1, ChildElsewhere
<1>4. Tree(n)
  BY <1>2, <1>3, TreeOfChildren
<1> QED BY <1>1, <1>2, <1>4 DEF n

\* Nothing is under a scalar.
LEMMA NoneUnderScalar ==
  ASSUME NEW n, ~IsContainer(n), NEW p, IsPath(p), Len(p) # 0
  PROVE  Get(n, p) = Absent
<1>1. Len(p) \in Nat
  BY PathSegs
<1>2. 0 \in 0 .. Len(p) - 1 /\ 1 \in 0 .. Len(p)
  BY <1>1
<1>3. PICK rest : IsPath(rest) /\ \A m : Get(m, p) = Get(Get(m, Prefix(p, 1)), rest)
  BY <1>2, GetSplit
<1>4. IsSeg(p[0 + 1]) /\ Get(n, Prefix(p, 0 + 1)) = Child(Get(n, Prefix(p, 0)), p[0 + 1])
  BY <1>2, PrefixStep
<1>5. Get(n, Prefix(p, 0)) = n
  BY WholePrefix, GetHere
<1>6. Child(n, p[1]) = Absent
  BY <1>4, ChildElsewhere DEF IsContainer
<1> QED BY <1>3, <1>4, <1>5, <1>6, GetNothing

\* The files and what is typed are trees.
LEMMA NodesAreTrees == \A n \in Nodes : Tree(n)
<1>1. ASSUME NEW n \in Nodes, NEW seg, IsSeg(seg), Child(n, seg) # Absent PROVE Child(n, seg) \in Nodes
  <2>1. NodeOK(n) /\ Below(n) \subseteq Nodes
    BY NodesAssumption
  <2>2. Holds(n, seg)
    BY <1>1, <2>1, ChildThere
  <2>3. CASE seg[1] = "key" /\ Kind(n) = "dict"
    <3>1. PICK i \in DOMAIN Content(n) : Content(n)[i][1] = seg[2]
      BY <1>1, <2>1, <2>3, ChildByKey
    <3>2. Child(n, seg) = Content(n)[i][2]
      BY <1>1, <2>1, <2>3, <3>1, ChildByKey
    <3> QED BY <2>1, <2>3, <3>2 DEF Below
  <2>4. CASE seg[1] = "idx" /\ Kind(n) = "list" /\ seg[2] \in DOMAIN Content(n)
    <3>1. Child(n, seg) = Content(n)[seg[2]]
      BY <1>1, <2>4, ChildAtPosition
    <3> QED BY <2>1, <2>4, <3>1 DEF Below, ToSet
  <2> QED BY <2>2, <2>3, <2>4 DEF Holds
<1>2. ASSUME NEW n \in Nodes, NEW p, IsPath(p), NEW w, IsWalk(w, n, p)
      PROVE  \A i \in 0 .. Len(p) : w[i] \in Nodes \cup {Absent}
  <2>0. Len(p) \in Nat /\ \A i \in 1 .. Len(p) : IsSeg(p[i])
    BY <1>2, PathSegs
  <2> DEFINE S == {i \in Nat : i <= Len(p) => w[i] \in Nodes \cup {Absent}}
  <2>1. 0 \in S
    BY <1>2 DEF IsWalk
  <2>2. \A i \in Nat : i \in S => i + 1 \in S
    <3> SUFFICES ASSUME NEW i \in Nat, i \in S, i + 1 <= Len(p) PROVE w[i + 1] \in Nodes \cup {Absent}
      OBVIOUS
    <3>1. i + 1 \in 1 .. Len(p) /\ (i + 1) - 1 = i /\ i <= Len(p)
      BY <2>0
    <3>2. w[i + 1] = Child(w[i], p[i + 1]) /\ IsSeg(p[i + 1])
      BY <1>2, <2>0, <3>1 DEF IsWalk
    <3>3. w[i] \in Nodes \cup {Absent}
      BY <3>1
    <3> QED BY <1>1, <3>2, <3>3, NoneUnderNone
  <2> HIDE DEF S
  <2>3. Nat \subseteq S
    BY <2>1, <2>2, EveryNatural
  <2>4. \A i \in 0 .. Len(p) : i \in Nat /\ i <= Len(p)
    BY <2>0
  <2> QED BY <2>3, <2>4 DEF S
<1>3. ASSUME NEW n \in Nodes, NEW p, IsPath(p) PROVE Get(n, p) \in Nodes \cup {Absent}
  <2>1. Len(p) \in Nat
    BY <1>3, PathSegs
  <2>2. PICK w : IsWalk(w, n, p) /\ w[Len(p)] = Get(n, p)
    BY <2>1, WalkExists
  <2>3. Len(p) \in 0 .. Len(p)
    BY <2>1
  <2> QED BY <1>2, <1>3, <2>2, <2>3
<1> QED BY <1>3, NodesAssumption DEF Tree

-----------------------------------------------------------------------------
(* What the operations on trees do.                                        *)

\* One node written: all there is apart from its path is as it was, and the nodes
\* it is in keep their kinds.
Written(root, new, path, node) ==
    /\ Tree(new) /\ Get(new, path) = node
    /\ \A i \in 0 .. Len(path) - 1 :
          /\ IsContainer(Get(root, Prefix(path, i)))
          /\ Kind(Get(new, Prefix(path, i))) = Kind(Get(root, Prefix(path, i)))
    /\ \A q : IsPath(q) /\ Apart(path, q) => Get(new, q) = Get(root, q)

LEMMA GraftWrites ==
  ASSUME NEW root, Tree(root), NEW path, IsPath(path), Graftable(root, path), NEW node, Tree(node)
  PROVE  Written(root, Graft(root, path, node), path, node)
<1> DEFINE new == Graft(root, path, node)
<1>1. Tree(new) /\ node # Absent
  BY GraftedTree, NodesAreThere DEF Tree
<1>2. /\ Get(new, path) = node
      /\ \A i \in 0 .. Len(path) - 1 : Kind(Get(new, Prefix(path, i))) = Kind(Get(root, Prefix(path, i)))
      /\ \A q : IsPath(q) /\ Apart(path, q) => Get(new, q) = Get(root, q)
  BY <1>1, Grafted
<1>3. \A i \in 0 .. Len(path) - 1 : IsContainer(Get(root, Prefix(path, i)))
  BY DEF Graftable, Holds, IsContainer
<1> HIDE DEF new
<1> QED BY <1>1, <1>2, <1>3 DEF Written, new

LEMMA NoneParts == \A q : ~Apart(<<>>, q)
BY DEF Apart

LEMMA ParentOf ==
  ASSUME NEW path, IsPath(path), path # <<>>
  PROVE  /\ IsPath(Front(path)) /\ IsSeg(Last(path)) /\ path = Append(Front(path), Last(path))
         /\ Len(path) # 0
         /\ \A root : Get(root, path) = Child(Get(root, Front(path)), Last(path))
<1>1. Len(path) \in Nat /\ Len(path) # 0
  BY PathSegs, PathEmpty
<1>2. Len(path) > 0
  BY <1>1
<1>3. IsPath(Front(path)) /\ IsSeg(Last(path)) /\ path = Append(Front(path), Last(path))
  BY <1>2, PathFront
<1>4. ASSUME NEW root PROVE Get(root, path) = Child(Get(root, Front(path)), Last(path))
  <2>1. Get(root, Append(Front(path), Last(path))) = Child(Get(root, Front(path)), Last(path))
    BY <1>3, GetFurther
  <2> QED BY <1>3, <2>1, Zenon
<1> QED BY <1>1, <1>3, <1>4

LEMMA SetNodeWrites ==
  ASSUME NEW root, Tree(root), NEW path, IsPath(path), NEW node, Tree(node)
  PROVE  SetNode(root, path, node) = Refused \/ Written(root, SetNode(root, path, node), path, node)
<1>1. CASE path = <<>>
  <2>1. SetNode(root, path, node) = node
    BY <1>1 DEF SetNode
  <2>2. Get(node, path) = node /\ 0 .. Len(path) - 1 = {}
    BY <1>1, GetHere
  <2> QED BY <1>1, <2>1, <2>2, NoneParts DEF Written
<1>2. CASE path # <<>>
  <2> DEFINE parent == Get(root, Front(path))
  <2>1. IsPath(Front(path)) /\ IsSeg(Last(path)) /\ path = Append(Front(path), Last(path))
    BY <1>2, ParentOf
  <2>2. SetNode(root, path, node) =
          CASE Kind(parent) = "dict" /\ Last(path)[1] = "key" -> Graft(root, path, node)
            [] Kind(parent) = "list" /\ Child(parent, Last(path)) # Absent -> Graft(root, path, node)
            [] OTHER -> Refused
    BY <1>2 DEF SetNode
  <2> HIDE DEF parent
  <2>3. \/ SetNode(root, path, node) = Refused
        \/ /\ SetNode(root, path, node) = Graft(root, path, node)
           /\ \/ Kind(parent) = "dict" /\ Last(path)[1] = "key"
              \/ Kind(parent) = "list" /\ Child(parent, Last(path)) # Absent
    BY <2>2
  <2>4. CASE \/ Kind(parent) = "dict" /\ Last(path)[1] = "key"
             \/ Kind(parent) = "list" /\ Child(parent, Last(path)) # Absent
    <3>1. parent # Absent
      <4>1. Kind(Absent) = "absent"
        BY DEF Kind, Absent
      <4> QED BY <2>4, <4>1
    <3>2. NodeOK(parent)
      BY <2>1, <3>1 DEF Tree, parent
    <3>3. Holds(parent, Last(path))
      BY <2>1, <2>4, <3>2, ChildThere DEF Holds
    <3>4. Graftable(root, Append(Front(path), Last(path)))
      BY <2>1, <3>3, NextIsGraftable DEF parent
    <3>5. Graftable(root, path)
      BY <2>1, <3>4, Zenon
    <3>6. Written(root, Graft(root, path, node), path, node)
      BY <3>5, GraftWrites
    <3> QED BY <2>3, <3>6
  <2> QED BY <2>3, <2>4
<1> QED BY <1>1, <1>2

\* A tree with the node at a path replaced.
LEMMA Replanted ==
  ASSUME NEW root, Tree(root), NEW path, IsPath(path), Get(root, path) # Absent, NEW node, Tree(node)
  PROVE  Written(root, Graft(root, path, node), path, node)
BY ThereIsGraftable, GraftWrites

LEMMA ListRemoved ==
  ASSUME NEW s, IsList(s), NEW k \in DOMAIN s
  PROVE  /\ IsList(Removed(s, k))
         /\ \A i \in DOMAIN Removed(s, k) :
               \E j \in DOMAIN s : Removed(s, k)[i] = s[j] /\ j # k /\ j = (IF i < k THEN i ELSE i + 1)
<1> DEFINE n == Len(s) - 1
           r == Removed(s, k)
<1>1. Len(s) \in Nat /\ DOMAIN s = 1 .. Len(s) /\ n \in Nat /\ n + 1 = Len(s)
  BY ListFacts
<1>2. r = [i \in 1 .. n |-> IF i < k THEN s[i] ELSE s[i + 1]]
  BY DEF Removed
<1> HIDE DEF n, r
<1>3. r = [i \in 1 .. n |-> r[i]] /\ \A i \in 1 .. n : r[i] = s[IF i < k THEN i ELSE i + 1]
  BY <1>2
<1>4. IsList(r) /\ Len(r) = n /\ DOMAIN r = 1 .. n
  BY <1>1, <1>3, MadeList, ListFacts
<1>5. ASSUME NEW i \in 1 .. n
      PROVE  \E j \in DOMAIN s : r[i] = s[j] /\ j # k /\ j = (IF i < k THEN i ELSE i + 1)
  <2> DEFINE j == IF i < k THEN i ELSE i + 1
  <2>1. j \in DOMAIN s /\ j # k
    BY <1>1
  <2>2. r[i] = s[j]
    BY <1>3
  <2> QED BY <2>1, <2>2
<1> QED BY <1>4, <1>5 DEF r

LEMMA RemoveNodeGivesTree ==
  ASSUME NEW root, Tree(root), NEW path, IsPath(path)
  PROVE  RemoveNode(root, path) = Refused \/ Tree(RemoveNode(root, path))
<1> SUFFICES ASSUME path # <<>>, Get(root, path) # Absent PROVE Tree(RemoveNode(root, path))
  BY DEF RemoveNode
<1> DEFINE parent == Get(root, Front(path))
           at == IF Kind(parent) = "list" THEN Last(path)[2] ELSE KeyPos(parent, Last(path)[2])
           c == Content(parent)
           d == Removed(c, at)
<1>1. RemoveNode(root, path) = Graft(root, Front(path), <<Kind(parent), d>>)
  BY DEF RemoveNode
<1>2. IsPath(Front(path)) /\ IsSeg(Last(path)) /\ Child(parent, Last(path)) # Absent
  BY ParentOf
<1>3. parent # Absent
  BY <1>2, NoneUnderNone
<1>4. Tree(parent) /\ NodeOK(parent)
  BY <1>2, <1>3, PartIsTree DEF Tree
<1>5. Holds(parent, Last(path))
  BY <1>2, <1>4, ChildThere
<1>6. Tree(<<Kind(parent), d>>)
  <2>1. CASE Kind(parent) = "list"
    <3>1. at \in DOMAIN c
      BY <1>5, <2>1 DEF Holds
    <3>2. IsList(c) /\ \A i \in DOMAIN c : Tree(c[i])
      BY <1>4, <2>1, ArrayParts
    <3> HIDE DEF parent, at, c
    <3>3. IsList(d) /\ \A i \in DOMAIN d : \E j \in DOMAIN c : d[i] = c[j]
      BY <3>1, <3>2, ListRemoved
    <3>4. \A i \in DOMAIN d : Tree(d[i])
      BY <3>2, <3>3
    <3> HIDE DEF d
    <3> QED BY <2>1, <3>3, <3>4, ArrayIsTree
  <2>2. CASE Kind(parent) # "list"
    <3>1. Kind(parent) = "dict" /\ Last(path)[1] = "key"
      BY <1>5, <2>2 DEF Holds
    <3>2. HasKey(parent, Last(path)[2])
      BY <1>2, <1>4, <3>1, ChildByKey
    <3>3. at \in DOMAIN c
      BY <2>2, <3>2, KeyFacts
    <3>4. /\ IsList(c) /\ \A i \in DOMAIN c : c[i] = <<c[i][1], c[i][2]>> /\ Tree(c[i][2])
          /\ \A i, j \in DOMAIN c : c[i][1] = c[j][1] => i = j
      BY <1>4, <3>1, DictParts
    <3> HIDE DEF parent, at, c
    <3>5. /\ IsList(d)
          /\ \A i \in DOMAIN d :
                \E j \in DOMAIN c : d[i] = c[j] /\ j # at /\ j = (IF i < at THEN i ELSE i + 1)
      BY <3>3, <3>4, ListRemoved
    <3> HIDE DEF d
    <3>6. \A i \in DOMAIN d : d[i] = <<d[i][1], d[i][2]>> /\ Tree(d[i][2])
      BY <3>4, <3>5
    <3>7. ASSUME NEW i \in DOMAIN d, NEW j \in DOMAIN d, d[i][1] = d[j][1] PROVE i = j
      <4>1. PICK a \in DOMAIN c : d[i] = c[a] /\ a = (IF i < at THEN i ELSE i + 1)
        BY <3>5
      <4>2. PICK b \in DOMAIN c : d[j] = c[b] /\ b = (IF j < at THEN j ELSE j + 1)
        BY <3>5
      <4>3. a = b
        BY <3>4, <3>7, <4>1, <4>2
      <4>4. i \in Nat /\ j \in Nat /\ at \in Nat
        BY <3>3, <3>4, <3>5, ListFacts
      <4> QED BY <4>1, <4>2, <4>3, <4>4
    <3>8. Tree(<<"dict", d>>)
      BY <3>4, <3>5, <3>6, <3>7, DictIsTree
    <3> QED BY <3>1, <3>8
  <2> QED BY <2>1, <2>2
<1> HIDE DEF parent, d
<1>7. Written(root, Graft(root, Front(path), <<Kind(parent), d>>), Front(path), <<Kind(parent), d>>)
  BY <1>2, <1>3, <1>6, Replanted DEF parent
<1> QED BY <1>1, <1>7 DEF Written

-----------------------------------------------------------------------------
(* Keys renamed, put in and exchanged.                                     *)

LEMMA KindOfAbsent == \A n : IsContainer(n) => n # Absent
<1>1. Kind(Absent) = "absent"
  BY DEF Kind, Absent
<1> QED BY <1>1 DEF IsContainer

\* What was under one key is under another.
KeyMoved(n, m, a, b) ==
    /\ Child(n, Key(b)) = Absent /\ Child(m, Key(a)) = Absent /\ Child(m, Key(b)) = Child(n, Key(a))
    /\ \A seg : IsSeg(seg) /\ seg # Key(a) /\ seg # Key(b) => Child(m, seg) = Child(n, seg)

\* Each child is there as it was, save nulls that come or go.
NullsApart(n, m) ==
    \A seg : IsSeg(seg) => \/ Child(m, seg) = Child(n, seg)
                           \/ Child(n, seg) = Absent /\ Child(m, seg) = Null
                           \/ Child(n, seg) = Null /\ Child(m, seg) = Absent

\* Dictionaries with the same entry, or none, for a key.
LEMMA EntryKept ==
  ASSUME NEW n, NodeOK(n), Kind(n) = "dict", NEW m, NodeOK(m), Kind(m) = "dict", NEW seg, IsSeg(seg),
         \A k \in DOMAIN Content(n) : Content(n)[k][1] = seg[2] =>
            \E l \in DOMAIN Content(m) : Content(m)[l] = Content(n)[k],
         \A l \in DOMAIN Content(m) : Content(m)[l][1] = seg[2] =>
            \E k \in DOMAIN Content(n) : Content(m)[l] = Content(n)[k]
  PROVE  Child(m, seg) = Child(n, seg)
<1>1. CASE seg[1] # "key"
  BY <1>1, ChildElsewhere
<1>2. CASE seg[1] = "key" /\ \E k \in DOMAIN Content(n) : Content(n)[k][1] = seg[2]
  <2>1. PICK k \in DOMAIN Content(n) : Content(n)[k][1] = seg[2]
    BY <1>2
  <2>2. PICK l \in DOMAIN Content(m) : Content(m)[l] = Content(n)[k]
    BY <2>1
  <2>3. Child(n, seg) = Content(n)[k][2]
    BY <1>2, <2>1, ChildByKey
  <2>4. Child(m, seg) = Content(m)[l][2]
    BY <1>2, <2>1, <2>2, ChildByKey
  <2> QED BY <2>2, <2>3, <2>4
<1>3. CASE seg[1] = "key" /\ \A k \in DOMAIN Content(n) : Content(n)[k][1] # seg[2]
  <2>1. \A l \in DOMAIN Content(m) : Content(m)[l][1] # seg[2]
    BY <1>3
  <2>2. Child(n, seg) = Absent
    BY <1>3, ChildByKey
  <2>3. Child(m, seg) = Absent
    BY <1>3, <2>1, ChildByKey
  <2> QED BY <2>2, <2>3
<1> QED BY <1>1, <1>2, <1>3

\* A dictionary with one key renamed to one it has not.
LEMMA KeyRenamed ==
  ASSUME NEW n, Tree(n), Kind(n) = "dict", NEW old, NEW new, HasKey(n, old), ~HasKey(n, new),
         NEW m, m = <<"dict", [Content(n) EXCEPT ![KeyPos(n, old)] = <<new, @[2]>>]>>
  PROVE  Tree(m) /\ Kind(m) = "dict" /\ KeyMoved(n, m, old, new)
<1> DEFINE c == Content(n)
           k == KeyPos(n, old)
           d == [c EXCEPT ![k] = <<new, @[2]>>]
<1>1. /\ IsList(c) /\ DOMAIN c = 1 .. Len(c) /\ Len(c) \in Nat
      /\ \A i \in DOMAIN c : c[i] = <<c[i][1], c[i][2]>> /\ Tree(c[i][2])
      /\ \A i, j \in DOMAIN c : c[i][1] = c[j][1] => i = j
  BY DictParts
<1>2. k \in DOMAIN c /\ c[k][1] = old /\ \A i \in DOMAIN c : c[i][1] # new
  BY KeyFacts
<1>3. m = <<"dict", d>>
  OBVIOUS
<1> HIDE DEF c, k
<1>4. /\ d = [i \in 1 .. Len(c) |-> d[i]] /\ d[k] = <<new, c[k][2]>>
      /\ \A i \in DOMAIN c : i # k => d[i] = c[i]
  BY <1>1, <1>2
<1> HIDE DEF d
<1>5. IsList(d) /\ DOMAIN d = DOMAIN c
  BY <1>1, <1>4, MadeList
<1>6. d[k][1] = new /\ d[k][2] = c[k][2] /\ d[k] = <<d[k][1], d[k][2]>>
  BY <1>4
<1>7. \A i \in DOMAIN d : d[i] = <<d[i][1], d[i][2]>> /\ Tree(d[i][2])
  BY <1>1, <1>4, <1>5, <1>6
<1>8. \A i, j \in DOMAIN d : d[i][1] = d[j][1] => i = j
  BY <1>1, <1>2, <1>4, <1>5, <1>6
<1>9. Tree(m)
  BY <1>3, <1>5, <1>7, <1>8, DictIsTree
<1>10. Kind(m) = "dict" /\ Content(m) = d
  BY <1>3 DEF Kind, Content
<1>11. NodeOK(n) /\ NodeOK(m)
  BY <1>9 DEF Tree
<1>12. ASSUME NEW seg, IsSeg(seg), seg # Key(old), seg # Key(new) PROVE Child(m, seg) = Child(n, seg)
  <2>1. CASE seg[1] # "key"
    BY <1>10, <1>11, <1>12, <2>1, ChildElsewhere
  <2>2. CASE seg[1] = "key"
    <3>1. seg[2] # old /\ seg[2] # new
      BY <1>12, <2>2, SegForms
    <3>2. \A i \in DOMAIN c : c[i][1] = seg[2] => \E j \in DOMAIN d : d[j] = c[i]
      BY <1>2, <1>4, <1>5, <3>1
    <3>3. \A j \in DOMAIN d : d[j][1] = seg[2] => \E i \in DOMAIN c : d[j] = c[i]
      BY <1>4, <1>5, <1>6, <3>1
    <3> QED BY <1>10, <1>11, <1>12, <3>2, <3>3, EntryKept DEF c
  <2> QED BY <2>1, <2>2
<1>13. Child(n, Key(new)) = Absent /\ Child(n, Key(old)) = c[k][2]
  <2>1. \A x : IsSeg(Key(x)) /\ Key(x)[1] = "key" /\ Key(x)[2] = x
    BY SegsMade
  <2> QED BY <1>2, <1>11, <2>1, ChildByKey DEF c
<1>14. Child(m, Key(old)) = Absent /\ Child(m, Key(new)) = d[k][2]
  <2>1. \A x : IsSeg(Key(x)) /\ Key(x)[1] = "key" /\ Key(x)[2] = x
    BY SegsMade
  <2>2. \A i \in DOMAIN d : d[i][1] # old
    BY <1>1, <1>2, <1>4, <1>5, <1>6
  <2> QED BY <1>2, <1>5, <1>6, <1>10, <1>11, <2>1, <2>2, ChildByKey
<1> QED BY <1>6, <1>9, <1>10, <1>12, <1>13, <1>14 DEF KeyMoved

\* A rename is refused, finds the key as it is to be, or writes the dictionary.
LEMMA RenameKeyWrites ==
  ASSUME NEW root, Tree(root), NEW path, IsPath(path), NEW new
  PROVE  LET parent == Get(root, Front(path))
             old == Last(path)[2]
         IN  \/ RenameKey(root, path, new) = Refused
             \/ /\ path # <<>> /\ Kind(parent) = "dict" /\ Last(path) = Key(old)
                /\ \/ old = new /\ RenameKey(root, path, new) = root
                   \/ /\ HasKey(parent, old) /\ ~HasKey(parent, new)
                      /\ \E m : /\ Written(root, RenameKey(root, path, new), Front(path), m)
                                /\ Kind(m) = "dict" /\ KeyMoved(parent, m, old, new)
<1> DEFINE parent == Get(root, Front(path))
           old == Last(path)[2]
           m == <<"dict", [Content(parent) EXCEPT ![KeyPos(parent, old)] = <<new, @[2]>>]>>
<1>1. CASE path = <<>> \/ Last(path)[1] # "key" \/ Kind(parent) # "dict"
  BY <1>1 DEF RenameKey
<1>2. CASE path # <<>> /\ Last(path)[1] = "key" /\ Kind(parent) = "dict"
  <2>1. IsPath(Front(path)) /\ IsSeg(Last(path)) /\ Last(path) = Key(old)
    BY <1>2, ParentOf, SegForms
  <2>2. CASE old = new
    <3>1. RenameKey(root, path, new) = root
      BY <1>2, <2>2 DEF RenameKey
    <3> QED BY <1>2, <2>1, <2>2, <3>1
  <2>3. CASE old # new /\ (HasKey(parent, new) \/ ~HasKey(parent, old))
    BY <1>2, <2>3 DEF RenameKey
  <2>4. CASE old # new /\ ~HasKey(parent, new) /\ HasKey(parent, old)
    <3>1. RenameKey(root, path, new) = Graft(root, Front(path), m)
      BY <1>2, <2>4 DEF RenameKey
    <3>2. parent # Absent
      BY <1>2, KindOfAbsent DEF IsContainer
    <3>3. Tree(parent)
      BY <2>1, <3>2, PartIsTree
    <3>4. Tree(m) /\ Kind(m) = "dict" /\ KeyMoved(parent, m, old, new)
      <4> HIDE DEF parent, old
      <4>1. ASSUME NEW l, l = m
            PROVE  Tree(l) /\ Kind(l) = "dict" /\ KeyMoved(parent, l, old, new)
        BY <1>2, <2>4, <3>3, <4>1, KeyRenamed
      <4> HIDE DEF m
      <4> QED BY <4>1
    <3> HIDE DEF parent, old, m
    <3>5. Written(root, Graft(root, Front(path), m), Front(path), m)
      BY <2>1, <3>2, <3>4, Replanted DEF parent
    <3> QED BY <1>2, <2>1, <2>4, <3>1, <3>4, <3>5 DEF parent, old
  <2> QED BY <2>2, <2>3, <2>4
<1> QED BY <1>1, <1>2

LEMMA RenameKeyGivesTree ==
  ASSUME NEW root, Tree(root), NEW path, IsPath(path), NEW new
  PROVE  RenameKey(root, path, new) = Refused \/ Tree(RenameKey(root, path, new))
BY RenameKeyWrites DEF Written

LEMMA NullIsTree == Tree(Null)
BY ScalarIsTree DEF Null

LEMMA ListInserted ==
  ASSUME NEW s, IsList(s), NEW k \in 1 .. Len(s) + 1, NEW e
  PROVE  /\ IsList(Insert(s, k, e)) /\ DOMAIN Insert(s, k, e) = 1 .. Len(s) + 1
         /\ Insert(s, k, e)[k] = e
         /\ \A i \in 1 .. Len(s) + 1 : i # k =>
               \E j \in DOMAIN s : Insert(s, k, e)[i] = s[j] /\ i = (IF j < k THEN j ELSE j + 1)
<1> DEFINE n == Len(s) + 1
           r == Insert(s, k, e)
<1>1. Len(s) \in Nat /\ DOMAIN s = 1 .. Len(s) /\ n \in Nat /\ n = Len(s) + 1
  BY ListFacts
<1>2. r = [i \in 1 .. n |-> IF i < k THEN s[i] ELSE IF i = k THEN e ELSE s[i - 1]]
  BY DEF Insert
<1> HIDE DEF r
<1>3. /\ r = [i \in 1 .. n |-> r[i]] /\ r[k] = e
      /\ \A i \in 1 .. n : i < k => r[i] = s[i]
      /\ \A i \in 1 .. n : i > k => r[i] = s[i - 1]
  BY <1>1, <1>2
<1> HIDE DEF n
<1>4. IsList(r) /\ Len(r) = n /\ DOMAIN r = 1 .. n
  BY <1>1, <1>3, MadeList, ListFacts
<1>5. ASSUME NEW i \in 1 .. n, i # k
      PROVE  \E j \in DOMAIN s : r[i] = s[j] /\ i = (IF j < k THEN j ELSE j + 1)
  <2>1. CASE i < k
    <3>1. i \in DOMAIN s
      BY <1>1, <2>1
    <3> QED BY <1>3, <2>1, <3>1
  <2>2. CASE i > k
    <3>1. i - 1 \in DOMAIN s /\ ~(i - 1 < k) /\ (i - 1) + 1 = i
      BY <1>1, <2>2
    <3> QED BY <1>3, <2>2, <3>1
  <2> QED BY <1>1, <1>5, <2>1, <2>2
<1> QED BY <1>1, <1>3, <1>4, <1>5 DEF r

\* A new key changes nothing, or puts a null into a dictionary.
LEMMA WithKeyWrites ==
  ASSUME NEW root, Tree(root), NEW path, IsPath(path), NEW rel, NEW new
  PROVE  \/ WithKey(root, path, rel, new) = root
         \/ \E m : /\ Written(root, WithKey(root, path, rel, new), path, m)
                   /\ Kind(Get(root, path)) = "dict" /\ Kind(m) = "dict" /\ NullsApart(Get(root, path), m)
<1> DEFINE n == Get(root, path)
           c == Content(n)
           at == IF rel = <<>> THEN 1
                 ELSE IF HasKey(n, KeyOf(rel)) THEN KeyPos(n, KeyOf(rel))
                 ELSE Len(c) + 1
           e == <<new, Null>>
           d == Insert(c, at, e)
<1>1. CASE Kind(n) # "dict" \/ HasKey(n, new)
  BY <1>1 DEF WithKey
<1>2. CASE Kind(n) = "dict" /\ ~HasKey(n, new)
  <2>1. WithKey(root, path, rel, new) = Graft(root, path, <<"dict", d>>)
    BY <1>2 DEF WithKey
  <2>2. n # Absent
    BY <1>2, KindOfAbsent DEF IsContainer
  <2>3. Tree(n)
    BY <2>2, PartIsTree
  <2>4. /\ IsList(c) /\ DOMAIN c = 1 .. Len(c) /\ Len(c) \in Nat
        /\ \A i \in DOMAIN c : c[i] = <<c[i][1], c[i][2]>> /\ Tree(c[i][2])
        /\ \A i, j \in DOMAIN c : c[i][1] = c[j][1] => i = j
    BY <1>2, <2>3, DictParts
  <2>5. at \in 1 .. Len(c) + 1
    BY <2>4, KeyFacts
  <2>6. \A i \in DOMAIN c : c[i][1] # new
    BY <1>2, KeyFacts
  <2>7. e[1] = new /\ e[2] = Null /\ e = <<e[1], e[2]>>
    OBVIOUS
  <2> HIDE DEF n, c, at, e
  <2>8. /\ IsList(d) /\ DOMAIN d = 1 .. Len(c) + 1 /\ d[at] = e
        /\ \A i \in 1 .. Len(c) + 1 : i # at =>
              \E j \in DOMAIN c : d[i] = c[j] /\ i = (IF j < at THEN j ELSE j + 1)
    BY <2>4, <2>5, ListInserted
  <2> HIDE DEF d
  <2>9. \A i \in DOMAIN d : d[i] = <<d[i][1], d[i][2]>> /\ Tree(d[i][2])
    BY <2>4, <2>7, <2>8, NullIsTree
  <2>10. ASSUME NEW i \in DOMAIN d, NEW j \in DOMAIN d, d[i][1] = d[j][1] PROVE i = j
    <3>1. \A l \in DOMAIN d : l # at => d[l][1] # new
      BY <2>6, <2>8
    <3>2. CASE i = at \/ j = at
      BY <2>7, <2>8, <2>10, <3>1, <3>2
    <3>3. CASE i # at /\ j # at
      <4>1. PICK a \in DOMAIN c : d[i] = c[a] /\ i = (IF a < at THEN a ELSE a + 1)
        BY <2>8, <3>3
      <4>2. PICK b \in DOMAIN c : d[j] = c[b] /\ j = (IF b < at THEN b ELSE b + 1)
        BY <2>8, <3>3
      <4>3. a = b
        BY <2>4, <2>10, <4>1, <4>2
      <4> QED BY <4>1, <4>2, <4>3
    <3> QED BY <3>2, <3>3
  <2>11. Tree(<<"dict", d>>)
    BY <2>8, <2>9, <2>10, DictIsTree
  <2>12. PICK m : m = <<"dict", d>>
    OBVIOUS
  <2>13. Written(root, Graft(root, path, m), path, m)
    BY <2>2, <2>11, <2>12, Replanted DEF n
  <2>14. Kind(m) = "dict" /\ Content(m) = d /\ NodeOK(m) /\ NodeOK(n)
    BY <2>3, <2>11, <2>12 DEF Kind, Content, Tree
  <2>15. ASSUME NEW j \in DOMAIN c PROVE \E i \in DOMAIN d : d[i] = c[j]
    <3>1. PICK i : i = (IF j < at THEN j ELSE j + 1)
      OBVIOUS
    <3>2. i \in 1 .. Len(c) + 1 /\ i # at
      BY <2>4, <2>5, <3>1
    <3>3. PICK l \in DOMAIN c : d[i] = c[l] /\ i = (IF l < at THEN l ELSE l + 1)
      BY <2>8, <3>2
    <3>4. l = j
      BY <2>4, <2>5, <3>1, <3>3
    <3> QED BY <2>8, <3>2, <3>3, <3>4
  <2>16. ASSUME NEW seg, IsSeg(seg)
         PROVE  \/ Child(m, seg) = Child(n, seg)
                \/ Child(n, seg) = Absent /\ Child(m, seg) = Null
    <3>1. CASE seg[1] = "key" /\ seg[2] = new
      <4>1. Child(n, seg) = Absent
        BY <1>2, <2>6, <2>14, <2>16, <3>1, ChildByKey DEF n, c
      <4>2. at \in DOMAIN d /\ d[at][1] = seg[2]
        BY <2>5, <2>7, <2>8, <3>1
      <4>3. Child(m, seg) = d[at][2]
        BY <2>14, <2>16, <3>1, <4>2, ChildByKey
      <4> QED BY <2>7, <2>8, <4>1, <4>3
    <3>2. CASE seg[2] # new
      <4>1. \A i \in DOMAIN d : d[i][1] = seg[2] => \E j \in DOMAIN c : d[i] = c[j]
        BY <2>7, <2>8, <3>2
      <4> QED BY <1>2, <2>14, <2>15, <2>16, <4>1, EntryKept DEF n, c
    <3>3. CASE seg[1] # "key"
      BY <1>2, <2>14, <2>16, <3>3, ChildElsewhere DEF n
    <3> QED BY <3>1, <3>2, <3>3
  <2>17. NullsApart(n, m)
    BY <2>16 DEF NullsApart
  <2> QED BY <1>2, <2>1, <2>12, <2>13, <2>14, <2>17 DEF n
<1> QED BY <1>1, <1>2

\* Two keys change places, which leaves every child where it was.
LEMMA SwappedWrites ==
  ASSUME NEW root, Tree(root), NEW path, IsPath(path), NEW a, NEW b
  PROVE  \/ Swapped(root, path, a, b) = root
         \/ \E m : /\ Written(root, Swapped(root, path, a, b), path, m)
                   /\ Kind(Get(root, path)) = "dict" /\ Kind(m) = "dict" /\ NullsApart(Get(root, path), m)
<1> DEFINE n == Get(root, path)
           c == Content(n)
           i == KeyPos(n, a)
           j == KeyPos(n, b)
           d == [c EXCEPT ![i] = c[j], ![j] = c[i]]
<1>1. CASE ~(HasKey(n, a) /\ HasKey(n, b))
  BY <1>1 DEF Swapped
<1>2. CASE HasKey(n, a) /\ HasKey(n, b)
  <2>1. Swapped(root, path, a, b) = Graft(root, path, <<"dict", d>>)
    BY <1>2 DEF Swapped
  <2>2. Kind(n) = "dict" /\ i \in DOMAIN c /\ j \in DOMAIN c
    BY <1>2, KeyFacts
  <2>3. n # Absent
    BY <2>2, KindOfAbsent DEF IsContainer
  <2>4. Tree(n)
    BY <2>3, PartIsTree
  <2>5. /\ IsList(c) /\ DOMAIN c = 1 .. Len(c) /\ Len(c) \in Nat
        /\ \A k \in DOMAIN c : c[k] = <<c[k][1], c[k][2]>> /\ Tree(c[k][2])
        /\ \A k, l \in DOMAIN c : c[k][1] = c[l][1] => k = l
    BY <2>2, <2>4, DictParts
  <2> HIDE DEF n, c, i, j
  <2>6. /\ d = [k \in 1 .. Len(c) |-> d[k]]
        /\ d[j] = c[i] /\ d[i] = c[j] /\ \A k \in DOMAIN c : k # i /\ k # j => d[k] = c[k]
    <3>1. [c EXCEPT ![i] = c[j]][j] = c[j]
      BY <2>2, <2>5
    <3> QED BY <2>2, <2>5
  <2> HIDE DEF d
  <2>7. IsList(d) /\ DOMAIN d = DOMAIN c
    BY <2>5, <2>6, MadeList
  <2>8. \A k \in DOMAIN d : d[k] = <<d[k][1], d[k][2]>> /\ Tree(d[k][2])
    BY <2>2, <2>5, <2>6, <2>7
  <2>9. \A k, l \in DOMAIN d : d[k][1] = d[l][1] => k = l
    BY <2>2, <2>5, <2>6, <2>7
  <2>10. Tree(<<"dict", d>>)
    BY <2>7, <2>8, <2>9, DictIsTree
  <2>11. PICK m : m = <<"dict", d>>
    OBVIOUS
  <2>12. Written(root, Graft(root, path, m), path, m)
    BY <2>3, <2>10, <2>11, Replanted DEF n
  <2>13. Kind(m) = "dict" /\ Content(m) = d /\ NodeOK(m) /\ NodeOK(n)
    BY <2>4, <2>10, <2>11 DEF Kind, Content, Tree
  <2>14. /\ \A k \in DOMAIN c : \E l \in DOMAIN d : d[l] = c[k]
         /\ \A l \in DOMAIN d : \E k \in DOMAIN c : d[l] = c[k]
    BY <2>2, <2>6, <2>7
  <2>15. \A seg : IsSeg(seg) => Child(m, seg) = Child(n, seg)
    BY <2>2, <2>13, <2>14, EntryKept DEF c
  <2>16. NullsApart(n, m)
    BY <2>15 DEF NullsApart
  <2> QED BY <2>1, <2>2, <2>11, <2>12, <2>13, <2>16 DEF n
<1> QED BY <1>1, <1>2

-----------------------------------------------------------------------------
(* The values of a tree.                                                   *)

\* The places one step under a node, and under any of a set of places.
Under(n, q) ==
    {Append(q, Key(k)) : k \in ToSet(KeysOf(n))}
    \cup (IF Kind(n) = "list" THEN {Append(q, Idx(i)) : i \in DOMAIN Content(n)} ELSE {})
Deeper(root, P) == UNION {Under(Get(root, q), q) : q \in P}

\* There is a node, that many steps down.
At(root, p, n) == IsPath(p) /\ Len(p) = n /\ Get(root, p) # Absent

LEMMA UnderNode ==
  ASSUME NEW n, Tree(n), NEW q, IsPath(q), NEW r
  PROVE  r \in Under(n, q) <=> \E seg : IsSeg(seg) /\ r = Append(q, seg) /\ Child(n, seg) # Absent
<1>1. NodeOK(n)
  BY DEF Tree
<1>2. ASSUME NEW k \in ToSet(KeysOf(n)) PROVE Child(n, Key(k)) # Absent
  <2>1. HasKey(n, k) /\ IsSeg(Key(k)) /\ Key(k)[1] = "key" /\ Key(k)[2] = k
    BY <1>2, SegsMade DEF HasKey
  <2>2. Kind(n) = "dict" /\ KeyPos(n, k) \in DOMAIN Content(n) /\ Content(n)[KeyPos(n, k)][1] = k
    BY <2>1, KeyFacts
  <2>3. Child(n, Key(k)) = Content(n)[KeyPos(n, k)][2]
    BY <1>1, <2>1, <2>2, ChildByKey
  <2> QED BY <1>1, <2>2, <2>3, DictFacts
<1>3. ASSUME Kind(n) = "list", NEW i \in DOMAIN Content(n) PROVE Child(n, Idx(i)) # Absent
  <2>1. IsSeg(Idx(i)) /\ Idx(i)[1] = "idx" /\ Idx(i)[2] = i
    BY SegsMade
  <2>2. Child(n, Idx(i)) = Content(n)[i]
    BY <1>3, <2>1, ChildAtPosition
  <2> QED BY <1>1, <1>3, <2>2, ArrayFacts
<1>4. ASSUME r \in Under(n, q)
      PROVE  \E seg : IsSeg(seg) /\ r = Append(q, seg) /\ Child(n, seg) # Absent
  <2>1. CASE \E k \in ToSet(KeysOf(n)) : r = Append(q, Key(k))
    BY <1>2, <2>1, SegsMade
  <2>2. CASE Kind(n) = "list" /\ \E i \in DOMAIN Content(n) : r = Append(q, Idx(i))
    BY <1>3, <2>2, SegsMade
  <2> QED BY <1>4, <2>1, <2>2 DEF Under
<1>5. ASSUME NEW seg, IsSeg(seg), r = Append(q, seg), Child(n, seg) # Absent
      PROVE  r \in Under(n, q)
  <2>1. Holds(n, seg)
    BY <1>1, <1>5, ChildThere
  <2>2. CASE seg[1] = "key" /\ Kind(n) = "dict"
    <3>1. HasKey(n, seg[2]) /\ seg = Key(seg[2])
      BY <1>1, <1>5, <2>2, ChildByKey, SegForms
    <3> QED BY <1>5, <3>1 DEF Under, HasKey
  <2>3. CASE seg[1] = "idx" /\ Kind(n) = "list" /\ seg[2] \in DOMAIN Content(n)
    <3>1. seg = Idx(seg[2])
      BY <1>5, <2>3, SegForms
    <3> QED BY <1>5, <2>3, <3>1 DEF Under
  <2> QED BY <2>1, <2>2, <2>3 DEF Holds
<1> QED BY <1>4, <1>5

LEMMA FiniteImage ==
  ASSUME NEW S, IsFiniteSet(S), NEW f, DOMAIN f = S
  PROVE  IsFiniteSet({f[x] : x \in S})
<1> DEFINE T == {f[x] : x \in S}
           g == [x \in S |-> f[x]]
<1>1. g \in Surjection(S, T)
  BY DEF Surjection
<1> QED BY <1>1, FS_Surjection

LEMMA UnderIsFinite ==
  ASSUME NEW n, Tree(n), NEW q
  PROVE  IsFiniteSet(Under(n, q))
<1> DEFINE c == Content(n)
           f == [i \in DOMAIN c |-> Append(q, Key(c[i][1]))]
           g == [i \in DOMAIN c |-> Append(q, Idx(i))]
<1>1. CASE Kind(n) = "dict"
  <2>1. IsFiniteSet(DOMAIN c)
    BY <1>1, DictParts, FS_Interval
  <2>2. IsFiniteSet({f[i] : i \in DOMAIN c})
    BY <2>1, FiniteImage
  <2>3. \A x \in Under(n, q) : x \in {f[i] : i \in DOMAIN c}
    <3>1. ToSet(KeysOf(n)) = {c[i][1] : i \in DOMAIN c} /\ Kind(n) # "list"
      BY <1>1 DEF KeysOf, ToSet
    <3> QED BY <3>1 DEF Under
  <2> QED BY <2>2, <2>3, FS_Subset
<1>2. CASE Kind(n) = "list"
  <2>1. IsFiniteSet(DOMAIN c)
    BY <1>2, ArrayParts, FS_Interval
  <2>2. IsFiniteSet({g[i] : i \in DOMAIN c})
    BY <2>1, FiniteImage
  <2>3. \A x \in Under(n, q) : x \in {g[i] : i \in DOMAIN c}
    <3>1. ToSet(KeysOf(n)) = {}
      BY <1>2 DEF KeysOf, ToSet
    <3> QED BY <1>2, <3>1 DEF Under
  <2> QED BY <2>2, <2>3, FS_Subset
<1>3. CASE Kind(n) \notin {"dict", "list"}
  <2>1. ToSet(KeysOf(n)) = {}
    <3>1. KeysOf(n) = <<>>
      BY <1>3 DEF KeysOf
    <3> QED BY <3>1 DEF ToSet
  <2>2. Under(n, q) = {}
    BY <1>3, <2>1 DEF Under
  <2> QED BY <2>2, FS_EmptySet
<1> QED BY <1>1, <1>2, <1>3

\* From all the places at one depth to those at the next.
LEMMA NextDepth ==
  ASSUME NEW root, Tree(root), NEW n \in Nat, NEW P, IsFiniteSet(P), \A p : p \in P <=> At(root, p, n)
  PROVE  /\ IsFiniteSet(Deeper(root, P))
         /\ \A p : p \in Deeper(root, P) <=> At(root, p, n + 1)
<1>1. \A q \in P : IsPath(q) /\ Len(q) = n /\ Tree(Get(root, q))
  BY PartIsTree DEF At
<1>2. ASSUME NEW p \in Deeper(root, P) PROVE At(root, p, n + 1)
  <2>1. PICK q \in P : p \in Under(Get(root, q), q)
    BY <1>2 DEF Deeper
  <2>2. PICK seg : IsSeg(seg) /\ p = Append(q, seg) /\ Child(Get(root, q), seg) # Absent
    BY <1>1, <2>1, UnderNode
  <2>3. IsPath(p) /\ Len(p) = n + 1
    BY <1>1, <2>2, PathAppended
  <2>4. Get(root, p) = Child(Get(root, q), seg)
    BY <1>1, <2>2, GetFurther
  <2> QED BY <2>2, <2>3, <2>4 DEF At
<1>3. ASSUME NEW p, At(root, p, n + 1) PROVE p \in Deeper(root, P)
  <2>1. IsPath(p) /\ Len(p) = n + 1 /\ Get(root, p) # Absent
    BY <1>3 DEF At
  <2>2. p # <<>>
    BY <2>1, NoneIsPath
  <2>3. /\ IsPath(Front(p)) /\ IsSeg(Last(p)) /\ p = Append(Front(p), Last(p))
        /\ Get(root, p) = Child(Get(root, Front(p)), Last(p))
    BY <2>1, <2>2, ParentOf
  <2>4. Len(Front(p)) = n
    <3>1. Len(Append(Front(p), Last(p))) = Len(Front(p)) + 1 /\ Len(Front(p)) \in Nat
      BY <2>3, PathAppended, PathSegs
    <3> QED BY <2>1, <2>3, <3>1
  <2>5. Get(root, Front(p)) # Absent
    BY <2>1, <2>3, NoneUnderNone
  <2>6. Front(p) \in P
    BY <2>3, <2>4, <2>5 DEF At
  <2>7. p \in Under(Get(root, Front(p)), Front(p))
    BY <1>1, <2>1, <2>3, <2>6, UnderNode
  <2> QED BY <2>6, <2>7 DEF Deeper
<1>4. IsFiniteSet(Deeper(root, P))
  <2> DEFINE f == [q \in P |-> Under(Get(root, q), q)]
  <2>1. IsFiniteSet({f[q] : q \in P})
    BY FiniteImage
  <2>2. \A T \in {f[q] : q \in P} : IsFiniteSet(T)
    BY <1>1, UnderIsFinite
  <2>3. Deeper(root, P) = UNION {f[q] : q \in P}
    BY DEF Deeper
  <2> HIDE DEF f
  <2> QED BY <2>1, <2>2, <2>3, FS_UNION
<1> QED BY <1>2, <1>3, <1>4

LEMMA PlacesAre ==
  ASSUME NEW root, Tree(root)
  PROVE  /\ IsFiniteSet(Places(root))
         /\ \A p : p \in Places(root) <=> IsPath(p) /\ Len(p) \in 1 .. 4 /\ Get(root, p) # Absent
<1> DEFINE one == Deeper(root, {<<>>})
           two == Deeper(root, one)
           three == Deeper(root, two)
           four == Deeper(root, three)
<1>1. Places(root) = one \cup two \cup three \cup four
  BY DEF Places, Deeper, Under
<1>2. IsFiniteSet({<<>>}) /\ \A p : p \in {<<>>} <=> At(root, p, 0)
  <2>1. Get(root, <<>>) # Absent
    BY GetHere, NodesAreThere DEF Tree
  <2> QED BY <2>1, NoneIsPath, PathEmpty, FS_Singleton DEF At
<1>3. IsFiniteSet(one) /\ \A p : p \in one <=> At(root, p, 0 + 1)
  BY <1>2, NextDepth
<1> HIDE DEF one
<1>4. IsFiniteSet(two) /\ \A p : p \in two <=> At(root, p, 1 + 1)
  BY <1>3, NextDepth
<1> HIDE DEF two
<1>5. IsFiniteSet(three) /\ \A p : p \in three <=> At(root, p, 2 + 1)
  BY <1>4, NextDepth
<1> HIDE DEF three
<1>6. IsFiniteSet(four) /\ \A p : p \in four <=> At(root, p, 3 + 1)
  BY <1>5, NextDepth
<1> HIDE DEF four
<1>7. IsFiniteSet(Places(root))
  <2>1. IsFiniteSet(one \cup two)
    BY <1>3, <1>4, FS_Union
  <2>2. IsFiniteSet(one \cup two \cup three)
    BY <1>5, <2>1, FS_Union
  <2> QED BY <1>1, <1>6, <2>2, FS_Union
<1>8. \A p : p \in Places(root) <=> IsPath(p) /\ Len(p) \in 1 .. 4 /\ Get(root, p) # Absent
  BY <1>1, <1>3, <1>4, <1>5, <1>6 DEF At
<1> QED BY <1>7, <1>8

\* What Values counts: no containers, no nulls.
Leaf(root, p) ==
    /\ IsPath(p) /\ Len(p) \in 1 .. 4 /\ Get(root, p) # Absent
    /\ ~IsContainer(Get(root, p)) /\ Get(root, p) # Null
Leaves(root) == {p \in Places(root) : ~IsContainer(Get(root, p)) /\ Get(root, p) # Null}

LEMMA LeavesAre ==
  ASSUME NEW root, Tree(root)
  PROVE  IsFiniteSet(Leaves(root)) /\ \A p : p \in Leaves(root) <=> Leaf(root, p)
<1>1. IsFiniteSet(Places(root)) /\ Leaves(root) \subseteq Places(root)
  BY PlacesAre DEF Leaves
<1>2. IsFiniteSet(Leaves(root))
  BY <1>1, FS_Subset
<1> QED BY <1>2, PlacesAre DEF Leaves, Leaf

\* The same values where each leaf has a leaf of its own to answer it.
LEMMA SameValues ==
  ASSUME NEW root, Tree(root), NEW new, Tree(new), NEW f, NEW g,
         \A p : Leaf(root, p) => Leaf(new, f[p]) /\ Get(new, f[p]) = Get(root, p) /\ g[f[p]] = p,
         \A q : Leaf(new, q) => Leaf(root, g[q]) /\ Get(root, g[q]) = Get(new, q) /\ f[g[q]] = q
  PROVE  Values(new) = Values(root)
<1> DEFINE of(tree) == {Get(tree, p) : p \in Leaves(tree)}
           with(tree, v) == {p \in Leaves(tree) : Get(tree, p) = v}
<1>1. \A p : p \in Leaves(root) <=> Leaf(root, p)
  BY LeavesAre
<1>2. \A q : q \in Leaves(new) <=> Leaf(new, q)
  BY LeavesAre
<1>3. of(new) = of(root)
  <2>1. ASSUME NEW p \in Leaves(root) PROVE Get(root, p) \in of(new)
    <3>1. f[p] \in Leaves(new) /\ Get(new, f[p]) = Get(root, p)
      BY <1>1, <1>2
    <3> QED BY <3>1
  <2>2. ASSUME NEW q \in Leaves(new) PROVE Get(new, q) \in of(root)
    <3>1. g[q] \in Leaves(root) /\ Get(root, g[q]) = Get(new, q)
      BY <1>1, <1>2
    <3> QED BY <3>1
  <2> QED BY <2>1, <2>2
<1>4. ASSUME NEW v PROVE Cardinality(with(new, v)) = Cardinality(with(root, v))
  <2> DEFINE S == with(root, v)
             T == with(new, v)
             h == [p \in S |-> f[p]]
  <2>1. \A p \in S : f[p] \in T /\ g[f[p]] = p
    BY <1>1, <1>2
  <2>2. \A q \in T : g[q] \in S /\ f[g[q]] = q
    BY <1>1, <1>2
  <2>3. IsFiniteSet(S)
    BY LeavesAre, FS_Subset
  <2> HIDE DEF S, T
  <2>4. h \in [S -> T]
    BY <2>1
  <2>5. \A p, q \in S : h[p] = h[q] => p = q
    BY <2>1
  <2>6. \A q \in T : \E p \in S : h[p] = q
    BY <2>2
  <2>7. h \in Bijection(S, T)
    <3>1. h \in Injection(S, T)
      BY <2>4, <2>5 DEF Injection, IsInjective
    <3>2. h \in Surjection(S, T)
      BY <2>4, <2>6 DEF Surjection
    <3> QED BY <3>1, <3>2 DEF Bijection
  <2>8. ExistsBijection(S, T)
    BY <2>7 DEF ExistsBijection
  <2>9. Cardinality(T) = Cardinality(S)
    BY <2>3, <2>8, FS_Bijection
  <2> QED BY <2>9 DEF S, T
<1>5. \A tree : Values(tree) = [v \in of(tree) |-> Cardinality(with(tree, v))]
  BY DEF Values, Leaves
<1>6. Values(new) = [v \in of(new) |-> Cardinality(with(new, v))]
  BY <1>5
<1>7. Values(root) = [v \in of(root) |-> Cardinality(with(root, v))]
  BY <1>5
<1> HIDE DEF of, with
<1> QED BY <1>3, <1>4, <1>6, <1>7

\* Two trees that differ within one node, a container in both.
Beside(root, new, path) ==
    /\ Tree(root) /\ Tree(new) /\ IsPath(path)
    /\ \A i \in 0 .. Len(path) :
          IsContainer(Get(root, Prefix(path, i))) /\ IsContainer(Get(new, Prefix(path, i)))
    /\ \A q : IsPath(q) /\ Apart(path, q) => Get(new, q) = Get(root, q)

LEMMA BesideBack ==
  ASSUME NEW root, NEW new, NEW path, Beside(root, new, path)
  PROVE  Beside(new, root, path)
BY DEF Beside

LEMMA WrittenBeside ==
  ASSUME NEW root, Tree(root), NEW path, IsPath(path), IsContainer(Get(root, path)),
         NEW new, NEW node, Written(root, new, path, node), IsContainer(node)
  PROVE  Beside(root, new, path) /\ Get(new, path) = node
<1>1. Len(path) \in Nat /\ Prefix(path, Len(path)) = path
  BY PathSegs, WholePrefix
<1>2. ASSUME NEW i \in 0 .. Len(path)
      PROVE  IsContainer(Get(root, Prefix(path, i))) /\ IsContainer(Get(new, Prefix(path, i)))
  <2>1. CASE i = Len(path)
    BY <1>1, <2>1 DEF Written
  <2>2. CASE i \in 0 .. Len(path) - 1
    BY <2>2 DEF Written, IsContainer
  <2> QED BY <1>1, <1>2, <2>1, <2>2
<1> QED BY <1>2 DEF Beside, Written

\* A leaf is elsewhere, or under one of the children.
LEMMA LeafPlace ==
  ASSUME NEW root, NEW new, NEW path, Beside(root, new, path), NEW p, Leaf(root, p)
  PROVE  \/ Apart(path, p)
         \/ \E seg, rest : IsSeg(seg) /\ IsPath(rest) /\ p = Append(path, seg) \o rest
<1>1. IsPath(path) /\ IsPath(p) /\ Len(path) \in Nat
  BY PathSegs DEF Beside, Leaf
<1>2. \A i \in 0 .. Len(path) : p # Prefix(path, i)
  BY DEF Beside, Leaf
<1>3. CASE \E rest : IsPath(rest) /\ p = path \o rest
  <2>1. PICK rest : IsPath(rest) /\ p = path \o rest
    BY <1>3
  <2>2. rest # <<>>
    <3>1. SUFFICES ASSUME rest = <<>> PROVE FALSE
      OBVIOUS
    <3>2. p = path
      BY <1>1, <2>1, <3>1, PathNone
    <3>3. path = Prefix(path, Len(path)) /\ Len(path) \in 0 .. Len(path)
      BY <1>1, WholePrefix
    <3> QED BY <1>2, <3>2, <3>3
  <2>3. Len(rest) \in Nat /\ Len(rest) # 0
    BY <2>1, <2>2, PathSegs, PathEmpty
  <2>4. 1 \in 0 .. Len(rest)
    BY <2>3
  <2>5. PICK more : IsPath(more) /\ rest = Prefix(rest, 1) \o more
    BY <2>1, <2>4, PathSplit
  <2>6. IsSeg(rest[1])
    BY <2>1, <2>3, PathSegs
  <2>7. IsPath(Prefix(rest, 1)) /\ Len(Prefix(rest, 1)) = 1 /\ \A i \in 1 .. 1 : Prefix(rest, 1)[i] = rest[i]
    BY <2>1, <2>4, PathPrefix
  <2>8. /\ IsPath(Append(path, rest[1])) /\ Len(Append(path, rest[1])) = Len(path) + 1
        /\ \A i \in 1 .. Len(path) : Append(path, rest[1])[i] = path[i]
        /\ Append(path, rest[1])[Len(path) + 1] = rest[1]
    BY <1>1, <2>6, PathAppended
  <2>9. p = Append(path, rest[1]) \o more
    <3>1. PICK one, head : one = Prefix(rest, 1) /\ head = Append(path, rest[1])
      OBVIOUS
    <3>2. /\ IsList(rest) /\ IsList(path) /\ IsList(p) /\ IsList(more) /\ IsList(head)
          /\ IsList(one) /\ Len(more) \in Nat
      BY <1>1, <2>1, <2>5, <2>7, <2>8, <3>1, PathSegs
    <3>3. rest = one \o more /\ Len(one) = 1
      BY <2>5, <2>7, <3>1
    <3>4. /\ Len(one \o more) = Len(one) + Len(more)
          /\ \A i \in 1 .. Len(more) : (one \o more)[Len(one) + i] = more[i]
      BY <3>2, ListJoined
    <3>5. /\ Len(rest) = 1 + Len(more)
          /\ \A i \in 1 .. Len(more) : rest[1 + i] = more[i]
      BY <3>3, <3>4
    <3>6. /\ Len(p) = Len(path) + Len(rest)
          /\ \A i \in 1 .. Len(path) : p[i] = path[i]
          /\ \A i \in 1 .. Len(rest) : p[Len(path) + i] = rest[i]
      BY <2>1, <3>2, ListJoined
    <3>7. Len(head) = Len(path) + 1 /\ Len(p) = Len(head) + Len(more)
      BY <1>1, <2>8, <3>1, <3>2, <3>5, <3>6
    <3>8. \A i \in 1 .. Len(head) : p[i] = head[i]
      <4> SUFFICES ASSUME NEW i \in 1 .. Len(path) + 1 PROVE p[i] = head[i]
        BY <3>7
      <4>1. CASE i \in 1 .. Len(path)
        BY <2>8, <3>1, <3>6, <4>1
      <4>2. CASE i = Len(path) + 1
        <5>1. 1 \in 1 .. Len(rest)
          BY <2>3
        <5> QED BY <2>8, <3>1, <3>6, <4>2, <5>1
      <4> QED BY <1>1, <4>1, <4>2
    <3>9. \A i \in 1 .. Len(more) : p[Len(head) + i] = more[i]
      <4> SUFFICES ASSUME NEW i \in 1 .. Len(more) PROVE p[Len(path) + 1 + i] = more[i]
        BY <3>7
      <4>1. 1 + i \in 1 .. Len(rest) /\ Len(path) + (1 + i) = Len(path) + 1 + i
        BY <1>1, <3>2, <3>5
      <4>2. p[Len(path) + (1 + i)] = rest[1 + i]
        BY <3>6, <4>1
      <4> QED BY <3>5, <4>1, <4>2
    <3>10. /\ IsList(p) /\ IsList(head) /\ IsList(more)
           /\ Len(p) \in Nat /\ Len(head) \in Nat /\ Len(more) \in Nat
      BY <3>2, ListFacts
    <3>11. Len(p) = Len(head) + Len(more)
      BY <3>7
    <3>12. p = head \o more
      BY <3>8, <3>9, <3>10, <3>11, JoinedLike
    <3> QED BY <3>1, <3>12
  <2> QED BY <2>5, <2>6, <2>9
<1>4. CASE \E i \in 0 .. Len(path) - 1 : p = Prefix(path, i)
  BY <1>1, <1>2, <1>4
<1> QED BY <1>1, <1>3, <1>4, PathsCompared

LEMMA GetUnder ==
  ASSUME NEW path, IsPath(path), NEW seg, IsSeg(seg), NEW rest, IsPath(rest)
  PROVE  \A root : Get(root, Append(path, seg) \o rest) = Get(Child(Get(root, path), seg), rest)
<1>1. IsPath(Append(path, seg))
  BY PathAppended
<1> QED BY <1>1, GetJoined, GetFurther

-----------------------------------------------------------------------------
(* A dictionary changed so that the tree keeps its values.                 *)

LEMMA LeafStays ==
  ASSUME NEW root, NEW new, NEW path, Beside(root, new, path),
         NullsApart(Get(root, path), Get(new, path)), NEW p, Leaf(root, p)
  PROVE  Leaf(new, p) /\ Get(new, p) = Get(root, p)
<1>1. CASE Apart(path, p)
  BY <1>1 DEF Beside, Leaf
<1>2. CASE \E seg, rest : IsSeg(seg) /\ IsPath(rest) /\ p = Append(path, seg) \o rest
  <2>1. PICK seg, rest : IsSeg(seg) /\ IsPath(rest) /\ p = Append(path, seg) \o rest
    BY <1>2
  <2>2. IsPath(path)
    BY DEF Beside
  <2>3. PICK c, d : c = Child(Get(root, path), seg) /\ d = Child(Get(new, path), seg)
    OBVIOUS
  <2>4. Get(root, p) = Get(c, rest) /\ Get(new, p) = Get(d, rest)
    BY <2>1, <2>2, <2>3, GetUnder
  <2>5. Get(c, rest) # Absent /\ Get(c, rest) # Null
    BY <2>4 DEF Leaf
  <2>6. c # Absent
    BY <2>1, <2>5, GetNothing
  <2>7. c # Null
    <3>1. SUFFICES ASSUME c = Null PROVE FALSE
      OBVIOUS
    <3>2. ~IsContainer(Null)
      BY ScalarIsTree DEF Null
    <3>3. Len(rest) = 0
      BY <2>1, <2>5, <3>1, <3>2, NoneUnderScalar
    <3>4. rest = <<>>
      BY <2>1, <3>3, PathEmpty
    <3> QED BY <2>5, <3>1, <3>4, GetHere
  <2>8. d = c
    BY <2>1, <2>3, <2>6, <2>7 DEF NullsApart
  <2> QED BY <2>4, <2>8 DEF Leaf
<1> QED BY <1>1, <1>2, LeafPlace

LEMMA NullsDoNotCount ==
  ASSUME NEW root, NEW new, NEW path, Beside(root, new, path), NullsApart(Get(root, path), Get(new, path))
  PROVE  Values(new) = Values(root)
<1>1. Beside(new, root, path) /\ NullsApart(Get(new, path), Get(root, path))
  BY BesideBack DEF NullsApart
<1> DEFINE f == [p \in Leaves(root) |-> p]
           g == [q \in Leaves(new) |-> q]
<1>2. Tree(root) /\ Tree(new)
  BY DEF Beside
<1>3. ASSUME NEW p, Leaf(root, p) PROVE Leaf(new, p) /\ Get(new, p) = Get(root, p) /\ f[p] = p
  BY <1>2, <1>3, LeafStays, LeavesAre
<1>4. ASSUME NEW q, Leaf(new, q) PROVE Leaf(root, q) /\ Get(root, q) = Get(new, q) /\ g[q] = q
  BY <1>1, <1>2, <1>4, LeafStays, LeavesAre
<1> HIDE DEF f, g
<1>5. \A p : Leaf(root, p) => Leaf(new, f[p]) /\ Get(new, f[p]) = Get(root, p) /\ g[f[p]] = p
  BY <1>3, <1>4
<1>6. \A q : Leaf(new, q) => Leaf(root, g[q]) /\ Get(root, g[q]) = Get(new, q) /\ f[g[q]] = q
  BY <1>3, <1>4
<1> QED BY <1>2, <1>5, <1>6, SameValues

LEMMA KeyMovedBack ==
  ASSUME NEW n, NEW m, NEW a, NEW b, KeyMoved(n, m, a, b)
  PROVE  KeyMoved(m, n, b, a)
BY DEF KeyMoved

\* A path that leads through the key a of a node, through its key b.
Turned(p, path, a, b) ==
    IF ~Apart(path, p) /\ Len(path) + 1 \in DOMAIN p /\ p[Len(path) + 1] = Key(a)
    THEN Put(p, Len(path) + 1, Key(b)) ELSE p

LEMMA TurnedUnder ==
  ASSUME NEW path, IsPath(path), NEW seg, IsSeg(seg), NEW rest, IsPath(rest), NEW a, NEW b
  PROVE  LET p == Append(path, seg) \o rest
         IN  /\ IsPath(p) /\ Len(p) = Len(Append(path, Key(b)) \o rest)
             /\ seg = Key(a) => Turned(p, path, a, b) = Append(path, Key(b)) \o rest
             /\ seg # Key(a) => Turned(p, path, a, b) = p
<1> DEFINE k == Len(path) + 1
<1>1. PICK head, other, p, q : /\ head = Append(path, seg) /\ other = Append(path, Key(b))
                               /\ p = head \o rest /\ q = other \o rest
  OBVIOUS
<1>2. Len(path) \in Nat /\ IsSeg(Key(b)) /\ IsList(rest) /\ Len(rest) \in Nat
  BY PathSegs, SegsMade
<1>3. /\ IsPath(head) /\ Len(head) = k /\ head[k] = seg
      /\ \A i \in 1 .. Len(path) : head[i] = path[i]
  BY <1>1, PathAppended
<1>4. /\ IsPath(other) /\ Len(other) = k /\ other[k] = Key(b)
      /\ \A i \in 1 .. Len(path) : other[i] = path[i]
  BY <1>1, <1>2, PathAppended
<1>5. IsPath(p) /\ IsPath(q)
  BY <1>1, <1>3, <1>4, PathJoined
<1>6. IsList(head) /\ IsList(other) /\ IsList(p) /\ IsList(q) /\ DOMAIN p = 1 .. Len(p) /\ DOMAIN path = 1 .. Len(path)
  BY <1>3, <1>4, <1>5, PathSegs
<1>7. /\ Len(p) = Len(head) + Len(rest)
      /\ \A i \in 1 .. Len(head) : p[i] = head[i]
      /\ \A i \in 1 .. Len(rest) : p[Len(head) + i] = rest[i]
  BY <1>1, <1>2, <1>6, ListJoined
<1>8. /\ Len(q) = Len(other) + Len(rest)
      /\ \A i \in 1 .. Len(other) : q[i] = other[i]
      /\ \A i \in 1 .. Len(rest) : q[Len(other) + i] = rest[i]
  BY <1>1, <1>2, <1>6, ListJoined
<1>9. k \in 1 .. Len(p) /\ p[k] = seg /\ Len(q) = Len(p)
  BY <1>2, <1>3, <1>4, <1>7, <1>8
<1>10. ~Apart(path, p)
  <2>1. ASSUME NEW i \in 1 .. Len(path) PROVE path[i] = p[i]
    BY <1>2, <1>3, <1>7, <2>1
  <2> QED BY <1>6, <2>1 DEF Apart
<1>11. CASE seg = Key(a)
  <2>1. Turned(p, path, a, b) = Put(p, k, Key(b))
    BY <1>6, <1>9, <1>10, <1>11 DEF Turned
  <2>2. PICK t : t = Put(p, k, Key(b))
    OBVIOUS
  <2>3. /\ IsList(t) /\ Len(t) = Len(p) /\ t[k] = Key(b)
        /\ \A i \in 1 .. Len(p) : i # k => t[i] = p[i]
    BY <1>6, <1>9, <2>2, ListUpdated
  <2>4. ASSUME NEW i \in 1 .. Len(p) PROVE t[i] = q[i]
    <3>1. CASE i \in 1 .. Len(path)
      BY <1>2, <1>3, <1>4, <1>7, <1>8, <2>3, <3>1
    <3>2. CASE i = k
      BY <1>2, <1>4, <1>8, <2>3, <3>2
    <3>3. CASE i > k
      <4>1. i - k \in 1 .. Len(rest) /\ k + (i - k) = i
        BY <1>2, <1>3, <1>7, <2>4, <3>3
      <4>2. p[k + (i - k)] = rest[i - k] /\ q[k + (i - k)] = rest[i - k]
        BY <1>3, <1>4, <1>7, <1>8, <4>1
      <4> QED BY <2>3, <3>3, <4>1, <4>2
    <3> QED BY <1>2, <2>4, <3>1, <3>2, <3>3
  <2>5. t = q
    BY <1>6, <1>9, <2>3, <2>4, SameLists
  <2> QED BY <1>1, <1>5, <1>9, <1>11, <2>1, <2>2, <2>5
<1>12. CASE seg # Key(a)
  <2>1. Turned(p, path, a, b) = p
    BY <1>9, <1>12 DEF Turned
  <2> QED BY <1>1, <1>5, <1>9, <1>12, <2>1
<1> QED BY <1>11, <1>12

LEMMA LeafMoves ==
  ASSUME NEW root, NEW new, NEW path, Beside(root, new, path), NEW a, NEW b, a # b,
         KeyMoved(Get(root, path), Get(new, path), a, b), NEW p, Leaf(root, p),
         NEW q, q = Turned(p, path, a, b)
  PROVE  Leaf(new, q) /\ Get(new, q) = Get(root, p) /\ Turned(q, path, b, a) = p
<1>1. CASE Apart(path, p)
  BY <1>1 DEF Beside, Leaf, Turned
<1>2. CASE \E seg, rest : IsSeg(seg) /\ IsPath(rest) /\ p = Append(path, seg) \o rest
  <2>1. PICK seg, rest : IsSeg(seg) /\ IsPath(rest) /\ p = Append(path, seg) \o rest
    BY <1>2
  <2>2. IsPath(path) /\ IsSeg(Key(a)) /\ IsSeg(Key(b)) /\ Key(a) # Key(b)
    BY SegsMade DEF Beside
  <2>3. Get(root, p) = Get(Child(Get(root, path), seg), rest)
    BY <2>1, <2>2, GetUnder
  <2>4. Child(Get(root, path), seg) # Absent
    BY <2>1, <2>3, GetNothing DEF Leaf
  <2>5. seg # Key(b)
    BY <2>4 DEF KeyMoved
  <2>6. CASE seg = Key(a)
    <3>1. PICK t : t = Append(path, Key(b)) \o rest
      OBVIOUS
    <3>2. q = t /\ Len(p) = Len(t)
      BY <2>1, <2>2, <2>6, <3>1, TurnedUnder
    <3>3. IsPath(t) /\ Turned(t, path, b, a) = Append(path, Key(a)) \o rest
      BY <2>1, <2>2, <3>1, TurnedUnder
    <3>4. Get(new, t) = Get(Child(Get(new, path), Key(b)), rest)
      BY <2>1, <2>2, <3>1, GetUnder
    <3>5. Get(new, t) = Get(root, p)
      BY <2>3, <2>6, <3>4 DEF KeyMoved
    <3> QED BY <2>1, <2>6, <3>2, <3>3, <3>5 DEF Leaf
  <2>7. CASE seg # Key(a)
    <3>1. Turned(p, path, a, b) = p /\ Turned(p, path, b, a) = p
      BY <2>1, <2>2, <2>5, <2>7, TurnedUnder
    <3>2. q = p /\ Get(new, p) = Get(Child(Get(new, path), seg), rest)
      BY <2>1, <2>2, <3>1, GetUnder
    <3>3. Get(new, q) = Get(root, p)
      BY <2>1, <2>3, <2>5, <2>7, <3>2 DEF KeyMoved
    <3> QED BY <3>1, <3>3 DEF Leaf
  <2> QED BY <2>6, <2>7
<1> QED BY <1>1, <1>2, LeafPlace

LEMMA KeysDoNotCount ==
  ASSUME NEW root, NEW new, NEW path, Beside(root, new, path), NEW a, NEW b, a # b,
         KeyMoved(Get(root, path), Get(new, path), a, b)
  PROVE  Values(new) = Values(root)
<1>1. Beside(new, root, path) /\ KeyMoved(Get(new, path), Get(root, path), b, a)
  BY BesideBack, KeyMovedBack
<1> DEFINE f == [p \in Leaves(root) |-> Turned(p, path, a, b)]
           g == [q \in Leaves(new) |-> Turned(q, path, b, a)]
<1>2. Tree(root) /\ Tree(new)
  BY DEF Beside
<1>3. ASSUME NEW p, Leaf(root, p)
      PROVE  /\ f[p] = Turned(p, path, a, b) /\ Leaf(new, f[p]) /\ Get(new, f[p]) = Get(root, p)
             /\ Turned(f[p], path, b, a) = p
  <2>1. f[p] = Turned(p, path, a, b)
    BY <1>2, <1>3, LeavesAre
  <2> QED BY <1>3, <2>1, LeafMoves
<1>4. ASSUME NEW q, Leaf(new, q)
      PROVE  /\ g[q] = Turned(q, path, b, a) /\ Leaf(root, g[q]) /\ Get(root, g[q]) = Get(new, q)
             /\ Turned(g[q], path, a, b) = q
  <2>1. g[q] = Turned(q, path, b, a)
    BY <1>2, <1>4, LeavesAre
  <2> QED BY <1>1, <1>4, <2>1, LeafMoves
<1> HIDE DEF f, g
<1>5. \A p : Leaf(root, p) => Leaf(new, f[p]) /\ Get(new, f[p]) = Get(root, p) /\ g[f[p]] = p
  BY <1>3, <1>4
<1>6. \A q : Leaf(new, q) => Leaf(root, g[q]) /\ Get(root, g[q]) = Get(new, q) /\ f[g[q]] = q
  BY <1>3, <1>4
<1> QED BY <1>2, <1>5, <1>6, SameValues

\* The tree that results has the values there were.
Keeps(root, new) == Tree(new) /\ Values(new) = Values(root)

LEMMA RenameKeyKeeps ==
  ASSUME NEW root, Tree(root), NEW path, IsPath(path), NEW new
  PROVE  RenameKey(root, path, new) = Refused \/ Keeps(root, RenameKey(root, path, new))
<1> DEFINE tree == RenameKey(root, path, new)
           parent == Get(root, Front(path))
           old == Last(path)[2]
<1>1. \/ tree = Refused \/ tree = root
      \/ /\ path # <<>> /\ Kind(parent) = "dict" /\ HasKey(parent, old) /\ ~HasKey(parent, new)
         /\ \E m : Written(root, tree, Front(path), m) /\ Kind(m) = "dict" /\ KeyMoved(parent, m, old, new)
  BY RenameKeyWrites
<1>2. CASE tree = root
  BY <1>2 DEF Keeps
<1>3. ASSUME path # <<>>, Kind(parent) = "dict", HasKey(parent, old), ~HasKey(parent, new),
             NEW m, Written(root, tree, Front(path), m), Kind(m) = "dict", KeyMoved(parent, m, old, new)
      PROVE  Keeps(root, tree)
  <2>1. IsPath(Front(path)) /\ old # new
    BY <1>3, ParentOf
  <2> HIDE DEF tree, old
  <2>2. Beside(root, tree, Front(path)) /\ Get(tree, Front(path)) = m
    BY <1>3, <2>1, WrittenBeside DEF IsContainer
  <2>3. Values(tree) = Values(root)
    BY <1>3, <2>1, <2>2, KeysDoNotCount
  <2> QED BY <1>3, <2>3 DEF Keeps, Written
<1> QED BY <1>1, <1>2, <1>3

LEMMA NullsKept ==
  ASSUME NEW root, Tree(root), NEW path, IsPath(path), NEW tree,
         \/ tree = root
         \/ \E m : /\ Written(root, tree, path, m)
                   /\ Kind(Get(root, path)) = "dict" /\ Kind(m) = "dict" /\ NullsApart(Get(root, path), m)
  PROVE  Keeps(root, tree)
<1>1. CASE tree = root
  BY <1>1 DEF Keeps
<1>2. ASSUME NEW m, Written(root, tree, path, m), Kind(Get(root, path)) = "dict", Kind(m) = "dict",
             NullsApart(Get(root, path), m)
      PROVE  Keeps(root, tree)
  <2>1. Beside(root, tree, path) /\ Get(tree, path) = m
    BY <1>2, WrittenBeside DEF IsContainer
  <2>2. Values(tree) = Values(root)
    BY <1>2, <2>1, NullsDoNotCount
  <2> QED BY <1>2, <2>2 DEF Keeps, Written
<1> QED BY <1>1, <1>2

LEMMA WithKeyKeeps ==
  ASSUME NEW root, Tree(root), NEW path, IsPath(path), NEW rel, NEW new
  PROVE  Keeps(root, WithKey(root, path, rel, new))
BY WithKeyWrites, NullsKept

LEMMA SwappedKeeps ==
  ASSUME NEW root, Tree(root), NEW path, IsPath(path), NEW a, NEW b
  PROVE  Keeps(root, Swapped(root, path, a, b))
BY SwappedWrites, NullsKept

-----------------------------------------------------------------------------
(* How a sheet lies over its tree: its rows are the node of the view, or   *)
(* different children of it; its columns are the keys, the values and the  *)
(* types of a dictionary, the bare rows, or fields none of which is in     *)
(* another, with or without a column of bare rows.                         *)

IsField(role) == role = Field(role[2]) /\ IsPath(role[2]) /\ role[2] # <<>> /\ role[2][1][1] = "key"

RowsOK(anchor, paths, roles) ==
    \/ paths = <<anchor>> /\ (RowRole \in ToSet(roles) => roles = <<RowRole>>)
    \/ /\ \A r \in DOMAIN paths : IsPath(paths[r]) /\ paths[r] = Append(anchor, Last(paths[r]))
       /\ \A q, r \in DOMAIN paths : paths[q] = paths[r] => q = r

RolesOK(anchor, mode, paths, roles) ==
    \/ /\ roles = <<KeyRole, RowRole, TypeRole>>
       /\ \A r \in DOMAIN paths : paths[r] # anchor /\ Last(paths[r])[1] = "key"
    \/ roles = <<RowRole>>
    \/ /\ mode = "Records"
       /\ \A c \in DOMAIN roles : roles[c] = RowRole \/ IsField(roles[c])
       /\ \A b, c \in DOMAIN roles :
             b # c => Apart(roles[b][2], roles[c][2]) \/ (IsField(roles[b]) /= IsField(roles[c]))

Layout(anchor, mode, paths, roles) ==
    /\ IsPath(anchor) /\ IsList(paths) /\ IsList(roles)
    /\ RowsOK(anchor, paths, roles) /\ RolesOK(anchor, mode, paths, roles)

LEMMA RoleTags ==
  /\ RowRole[1] = "Row" /\ RowRole[2] = <<>> /\ KeyRole[1] = "Key" /\ KeyRole[2] = <<>>
  /\ TypeRole[1] = "Type" /\ TypeRole[2] = <<>>
  /\ \A f : Field(f)[1] = "Field" /\ Field(f)[2] = f
  /\ RowRole # KeyRole /\ RowRole # TypeRole /\ KeyRole # TypeRole
BY DEF RowRole, KeyRole, TypeRole, Field

LEMMA FieldIsNoOther ==
  ASSUME NEW role, role[1] = "Field"
  PROVE  role # RowRole /\ role # KeyRole /\ role # TypeRole
BY DEF RowRole, KeyRole, TypeRole

\* What a cell shows depends on the node its row leads to.
LEMMA CellOfSame ==
  ASSUME NEW root, NEW new, NEW path, Get(root, path) = Get(new, path), NEW role, NEW mode
  PROVE  CellOf(root, path, role, mode) = CellOf(new, path, role, mode)
BY DEF CellOf

LEMMA CellOfField ==
  ASSUME NEW root, NEW path, NEW mode, NEW role, role[1] = "Field"
  PROVE  CellOf(root, path, role, mode) = Shown(Get(Get(root, path), role[2]))
BY FieldIsNoOther DEF CellOf

LEMMA CellOfKey ==
  ASSUME NEW root, NEW path, NEW mode
  PROVE  CellOf(root, path, KeyRole, mode) = <<"text", Last(path)[2]>>
BY RoleTags DEF CellOf

LEMMA CellOfRow ==
  ASSUME NEW root, NEW path, NEW mode
  PROVE  CellOf(root, path, RowRole, mode) =
            IF mode = "Records" /\ Kind(Get(root, path)) = "dict" THEN Shown(Absent)
            ELSE Shown(Get(root, path))
BY RoleTags DEF CellOf

LEMMA ApartFurther ==
  ASSUME NEW p, IsPath(p), NEW q, IsPath(q), Apart(p, q), NEW a, IsPath(a), NEW b, IsPath(b)
  PROVE  Apart(p \o a, q \o b)
<1>1. PICK i \in DOMAIN p \cap DOMAIN q : p[i] # q[i]
  BY DEF Apart
<1>2. IsList(p) /\ IsList(q) /\ IsList(a) /\ IsList(b) /\ DOMAIN p = 1 .. Len(p) /\ DOMAIN q = 1 .. Len(q)
      /\ Len(p) \in Nat /\ Len(q) \in Nat /\ Len(a) \in Nat /\ Len(b) \in Nat
  BY PathSegs
<1>3. /\ Len(p \o a) = Len(p) + Len(a) /\ (p \o a)[i] = p[i] /\ IsList(p \o a)
      /\ Len(q \o b) = Len(q) + Len(b) /\ (q \o b)[i] = q[i] /\ IsList(q \o b)
  BY <1>1, <1>2, ListJoined
<1>4. i \in DOMAIN (p \o a) /\ i \in DOMAIN (q \o b)
  <2>1. DOMAIN (p \o a) = 1 .. Len(p \o a) /\ DOMAIN (q \o b) = 1 .. Len(q \o b)
    BY <1>3, ListFacts
  <2> QED BY <1>1, <1>2, <1>3, <2>1
<1> QED BY <1>1, <1>3, <1>4 DEF Apart

LEMMA ApartUnder ==
  ASSUME NEW p, IsPath(p), NEW a, IsPath(a), NEW b, IsPath(b), Apart(a, b)
  PROVE  Apart(p \o a, p \o b)
<1>1. PICK i \in DOMAIN a \cap DOMAIN b : a[i] # b[i]
  BY DEF Apart
<1>2. IsList(p) /\ IsList(a) /\ IsList(b) /\ DOMAIN a = 1 .. Len(a) /\ DOMAIN b = 1 .. Len(b)
      /\ Len(p) \in Nat /\ Len(a) \in Nat /\ Len(b) \in Nat
  BY PathSegs
<1>3. /\ Len(p \o a) = Len(p) + Len(a) /\ (p \o a)[Len(p) + i] = a[i] /\ IsList(p \o a)
      /\ Len(p \o b) = Len(p) + Len(b) /\ (p \o b)[Len(p) + i] = b[i] /\ IsList(p \o b)
  BY <1>1, <1>2, ListJoined
<1>4. Len(p) + i \in DOMAIN (p \o a) /\ Len(p) + i \in DOMAIN (p \o b)
  <2>1. DOMAIN (p \o a) = 1 .. Len(p \o a) /\ DOMAIN (p \o b) = 1 .. Len(p \o b)
    BY <1>3, ListFacts
  <2> QED BY <1>1, <1>2, <1>3, <2>1
<1> QED BY <1>1, <1>3, <1>4 DEF Apart

LEMMA AppendedParts ==
  ASSUME NEW p, IsPath(p), NEW a, IsSeg(a)
  PROVE  /\ Last(Append(p, a)) = a /\ Front(Append(p, a)) = p
         /\ Append(p, a) # p /\ Append(p, a) # <<>> /\ IsPath(Append(p, a))
         /\ \A b : IsSeg(b) /\ b # a => Apart(Append(p, a), Append(p, b))
<1> DEFINE q == Append(p, a)
<1>1. /\ IsPath(q) /\ Len(q) = Len(p) + 1 /\ Len(p) \in Nat /\ IsList(p) /\ IsList(q)
      /\ (\A i \in 1 .. Len(p) : q[i] = p[i]) /\ q[Len(p) + 1] = a /\ DOMAIN q = 1 .. Len(q)
  BY PathAppended, PathSegs
<1>2. \A b : IsSeg(b) => Append(p, b)[Len(p) + 1] = b /\ DOMAIN Append(p, b) = 1 .. Len(p) + 1
  <2> TAKE b
  <2> HAVE IsSeg(b)
  <2>1. IsPath(Append(p, b)) /\ Len(Append(p, b)) = Len(p) + 1 /\ Append(p, b)[Len(p) + 1] = b
    BY PathAppended
  <2>2. DOMAIN Append(p, b) = 1 .. Len(Append(p, b))
    BY <2>1, PathSegs
  <2> QED BY <2>1, <2>2
<1> HIDE DEF q
<1>3. ASSUME NEW b, IsSeg(b), b # a PROVE Apart(q, Append(p, b))
  <2>1. Len(p) + 1 \in DOMAIN q \cap DOMAIN Append(p, b)
    BY <1>1, <1>2, <1>3
  <2>2. q[Len(p) + 1] # Append(p, b)[Len(p) + 1]
    BY <1>1, <1>2, <1>3
  <2> QED BY <2>1, <2>2 DEF Apart
<1>4. Last(q) = a
  BY <1>1 DEF Last
<1>5. Front(q) = p
  <2>1. IsList(Front(q)) /\ Len(Front(q)) = Len(q) - 1 /\ \A i \in 1 .. Len(q) - 1 : Front(q)[i] = q[i]
    BY <1>1, ListFront
  <2>2. Len(q) - 1 = Len(p)
    BY <1>1
  <2> QED BY <1>1, <2>1, <2>2, SameLists
<1>6. q # p /\ q # <<>>
  BY <1>1
<1> QED BY <1>1, <1>3, <1>4, <1>5, <1>6 DEF q

\* A row is the node of the view, and the only one, or a child of it.
LEMMA RowPlace ==
  ASSUME NEW anchor, NEW mode, NEW paths, NEW roles, Layout(anchor, mode, paths, roles),
         NEW r \in DOMAIN paths
  PROVE  \/ paths[r] = anchor /\ DOMAIN paths = {r}
         \/ \E seg : IsSeg(seg) /\ paths[r] = Append(anchor, seg)
<1>1. CASE paths = <<anchor>>
  <2>1. DOMAIN paths = {1} /\ paths[1] = anchor
    BY <1>1
  <2> QED BY <2>1
<1>2. CASE \A i \in DOMAIN paths : IsPath(paths[i]) /\ paths[i] = Append(anchor, Last(paths[i]))
  <2>1. IsPath(paths[r]) /\ paths[r] = Append(anchor, Last(paths[r]))
    BY <1>2
  <2>2. IsList(anchor)
    BY DEF Layout, IsPath
  <2>3. Len(Append(anchor, Last(paths[r]))) = Len(anchor) + 1 /\ Len(anchor) \in Nat
    BY <2>2, ListAppended, ListFacts
  <2>4. paths[r] # <<>>
    BY <2>1, <2>3
  <2> QED BY <2>1, <2>4, ParentOf
<1> QED BY <1>1, <1>2 DEF Layout, RowsOK

\* Different rows part, and so does all that is under them.
LEMMA RowsPart ==
  ASSUME NEW anchor, NEW mode, NEW paths, NEW roles, Layout(anchor, mode, paths, roles),
         NEW q \in DOMAIN paths, NEW r \in DOMAIN paths
  PROVE  /\ IsPath(paths[r]) /\ (q # r => Apart(paths[q], paths[r]))
         /\ \/ paths[r] = anchor /\ DOMAIN paths = {r}
            \/ \E seg : IsSeg(seg) /\ paths[r] = Append(anchor, seg)
<1>1. CASE paths = <<anchor>>
  <2>1. DOMAIN paths = {1} /\ paths[1] = anchor
    BY <1>1
  <2> QED BY <2>1 DEF Layout
<1>2. CASE /\ \A i \in DOMAIN paths : IsPath(paths[i]) /\ paths[i] = Append(anchor, Last(paths[i]))
           /\ \A i, j \in DOMAIN paths : paths[i] = paths[j] => i = j
  <2>1. ASSUME NEW i \in DOMAIN paths PROVE IsSeg(Last(paths[i])) /\ paths[i] = Append(anchor, Last(paths[i]))
    <3>1. IsPath(paths[i]) /\ paths[i] = Append(anchor, Last(paths[i]))
      BY <1>2
    <3>2. paths[i] # <<>>
      <4>1. IsList(anchor)
        BY DEF Layout, IsPath
      <4>2. Len(Append(anchor, Last(paths[i]))) = Len(anchor) + 1 /\ Len(anchor) \in Nat
        BY <4>1, ListAppended, ListFacts
      <4> QED BY <3>1, <4>2
    <3> QED BY <3>1, <3>2, ParentOf
  <2>2. ASSUME q # r PROVE Apart(paths[q], paths[r])
    <3>1. paths[q] # paths[r]
      BY <1>2, <2>2
    <3>2. Last(paths[q]) # Last(paths[r])
      BY <2>1, <3>1
    <3>3. Apart(Append(anchor, Last(paths[q])), Append(anchor, Last(paths[r])))
      BY <2>1, <3>2, AppendedParts DEF Layout
    <3> QED BY <2>1, <3>3
  <2> QED BY <1>2, <2>1, <2>2
<1> QED BY <1>1, <1>2 DEF Layout, RowsOK

LEMMA RelIsPath ==
  ASSUME NEW anchor, NEW mode, NEW paths, NEW roles, Layout(anchor, mode, paths, roles),
         NEW c \in DOMAIN roles
  PROVE  /\ IsPath(roles[c][2])
         /\ \/ roles[c] = RowRole \/ roles[c] = KeyRole \/ roles[c] = TypeRole
            \/ IsField(roles[c]) /\ roles[c][1] = "Field" /\ mode = "Records"
<1>1. CASE roles = <<KeyRole, RowRole, TypeRole>>
  <2>1. c \in {1, 2, 3}
    BY <1>1
  <2>2. roles[c] = RowRole \/ roles[c] = KeyRole \/ roles[c] = TypeRole
    BY <1>1, <2>1
  <2> QED BY <2>2, RoleTags, NoneIsPath
<1>2. CASE roles = <<RowRole>>
  <2>1. roles[c] = RowRole
    BY <1>2
  <2> QED BY <2>1, RoleTags, NoneIsPath
<1>3. CASE /\ mode = "Records"
           /\ \A b \in DOMAIN roles : roles[b] = RowRole \/ IsField(roles[b])
  <2>1. CASE roles[c] = RowRole
    BY <2>1, RoleTags, NoneIsPath
  <2>2. CASE IsField(roles[c])
    BY <1>3, <2>2, RoleTags DEF IsField
  <2> QED BY <1>3, <2>1, <2>2
<1> QED BY <1>1, <1>2, <1>3 DEF Layout, RolesOK

-----------------------------------------------------------------------------
(* A cell written, and what the other cells show then.                     *)

\* Each cell of a row shows the node an edit of it would write to.
ShowsRow(root, mode, paths, roles, cells, r) ==
    \A c \in DOMAIN roles :
        /\ roles[c] = KeyRole => Get(root, paths[r]) # Absent
        /\ roles[c] # TypeRole => cells[r][c] = CellOf(root, paths[r], roles[c], mode)

LEMMA RowStays ==
  ASSUME NEW root, NEW new, NEW mode, NEW paths, NEW roles, NEW old, NEW cells, NEW r,
         ShowsRow(root, mode, paths, roles, old, r), Get(root, paths[r]) = Get(new, paths[r]),
         cells[r] = old[r]
  PROVE  ShowsRow(new, mode, paths, roles, cells, r)
BY CellOfSame DEF ShowsRow

LEMMA FieldPath ==
  ASSUME NEW p, IsPath(p), NEW f, IsPath(f), f # <<>>
  PROVE  /\ IsPath(p \o f) /\ Len(p) \in 0 .. Len(p \o f) - 1 /\ Prefix(p \o f, Len(p)) = p
         /\ \A root : Get(root, p \o f) = Get(Get(root, p), f)
<1>1. Len(p) \in Nat /\ Len(f) \in Nat /\ Len(f) # 0 /\ IsList(p) /\ IsList(f)
  BY PathSegs, PathEmpty
<1>2. IsPath(p \o f) /\ Len(p \o f) = Len(p) + Len(f) /\ \A i \in 1 .. Len(p) : (p \o f)[i] = p[i]
  BY <1>1, ListJoined, PathJoined
<1>3. Len(p) \in 0 .. Len(p \o f) - 1
  BY <1>1, <1>2
<1>4. Prefix(p \o f, Len(p)) = p
  BY <1>1, <1>2 DEF Prefix, IsList
<1>5. \A root : Get(root, p \o f) = Get(Get(root, p), f)
  BY GetJoined
<1> QED BY <1>2, <1>3, <1>4, <1>5

\* A value written over a scalar or nothing.
LEMMA ValueWritten ==
  ASSUME NEW anchor, NEW mode, NEW paths, NEW roles, Layout(anchor, mode, paths, roles),
         NEW r \in DOMAIN paths, NEW c \in DOMAIN roles, roles[c] # KeyRole, roles[c] # TypeRole,
         NEW root, NEW new, NEW v, Tree(v), ~IsContainer(v),
         ~IsContainer(Get(root, paths[r] \o roles[c][2])),
         Written(root, new, paths[r] \o roles[c][2], v)
  PROVE  /\ \A q \in DOMAIN paths : q # r => Get(root, paths[q]) = Get(new, paths[q])
         /\ CellOf(new, paths[r], roles[c], mode) = Shown(v)
         /\ \A b \in DOMAIN roles : b # c /\ roles[b] # TypeRole =>
               CellOf(new, paths[r], roles[b], mode) = CellOf(root, paths[r], roles[b], mode)
         /\ \A b \in DOMAIN roles : roles[b] = KeyRole => Get(new, paths[r]) # Absent
<1> DEFINE p == paths[r]
           f == roles[c][2]
           w == p \o f
<1>1. /\ IsPath(p) /\ IsPath(f)
      /\ roles[c] = RowRole \/ (IsField(roles[c]) /\ roles[c][1] = "Field" /\ mode = "Records")
  <2>1. IsPath(p)
    BY RowsPart
  <2>2. IsPath(f) /\ (roles[c] = RowRole \/ (IsField(roles[c]) /\ roles[c][1] = "Field" /\ mode = "Records"))
    BY RelIsPath
  <2> QED BY <2>1, <2>2
<1>2. /\ Get(new, w) = v
      /\ \A i \in 0 .. Len(w) - 1 :
            /\ IsContainer(Get(root, Prefix(w, i)))
            /\ Kind(Get(new, Prefix(w, i))) = Kind(Get(root, Prefix(w, i)))
      /\ \A q : IsPath(q) /\ Apart(w, q) => Get(new, q) = Get(root, q)
  BY DEF Written
<1>3. v # Absent /\ Kind(v) # "dict"
  BY NodesAreThere DEF Tree, IsContainer
<1> HIDE DEF w
<1>4. ASSUME NEW q \in DOMAIN paths, q # r PROVE Get(root, paths[q]) = Get(new, paths[q])
  <2>1. IsPath(paths[q]) /\ Apart(p, paths[q])
    BY <1>4, RowsPart, ApartSwapped
  <2>2. Apart(p \o f, paths[q] \o <<>>)
    BY <1>1, <2>1, ApartFurther, NoneIsPath
  <2>3. Apart(w, paths[q])
    BY <2>1, <2>2, PathNone DEF w
  <2> QED BY <1>2, <2>1, <2>3
<1>5. CASE roles[c] = RowRole
  <2>1. f = <<>> /\ w = p
    BY <1>1, <1>5, RoleTags, PathNone DEF w
  <2>2. CellOf(new, p, roles[c], mode) = Shown(v)
    BY <1>2, <1>3, <1>5, <2>1, CellOfRow
  <2>3. ASSUME NEW b \in DOMAIN roles, b # c, roles[b] # TypeRole
        PROVE  CellOf(new, p, roles[b], mode) = CellOf(root, p, roles[b], mode)
    <3>1. CASE roles[b] = KeyRole
      BY <3>1, CellOfKey
    <3>2. CASE roles[b] # KeyRole
      <4>1. IsField(roles[b]) /\ roles[b][1] = "Field" /\ IsPath(roles[b][2])
        <5>1. roles[b] # RowRole
          <6>1. CASE roles = <<KeyRole, RowRole, TypeRole>>
            <7>1. b \in {1, 2, 3} /\ c \in {1, 2, 3}
              BY <6>1
            <7> QED BY <1>5, <2>3, <6>1, <7>1, RoleTags
          <6>2. CASE roles = <<RowRole>>
            <7>1. b = 1 /\ c = 1
              BY <6>2
            <7> QED BY <2>3, <7>1
          <6>3. CASE Apart(roles[b][2], roles[c][2]) \/ (IsField(roles[b]) /= IsField(roles[c]))
            <7>1. CASE Apart(roles[b][2], roles[c][2])
              BY <2>1, <7>1, NoneParts, ApartSwapped
            <7>2. CASE IsField(roles[b]) /= IsField(roles[c])
              BY <1>5, <7>2
            <7> QED BY <6>3, <7>1, <7>2
          <6> QED BY <2>3, <6>1, <6>2, <6>3 DEF Layout, RolesOK
        <5> QED BY <2>3, <3>2, <5>1, RelIsPath
      <4>2. Len(roles[b][2]) # 0
        BY <4>1, PathEmpty DEF IsField
      <4>3. ~IsContainer(Get(root, p)) /\ ~IsContainer(Get(new, p))
        BY <1>2, <2>1 DEF w
      <4>4. Get(Get(root, p), roles[b][2]) = Absent /\ Get(Get(new, p), roles[b][2]) = Absent
        BY <4>1, <4>2, <4>3, NoneUnderScalar
      <4> QED BY <4>1, <4>4, CellOfField
    <3> QED BY <3>1, <3>2
  <2>4. Get(new, p) # Absent
    BY <1>2, <1>3, <2>1
  <2> QED BY <1>4, <2>2, <2>3, <2>4
<1>6. CASE IsField(roles[c]) /\ roles[c][1] = "Field" /\ mode = "Records"
  <2>1. /\ f # <<>> /\ f[1][1] = "key"
        /\ Len(p) \in 0 .. Len(w) - 1 /\ Prefix(w, Len(p)) = p
        /\ \A n : Get(n, w) = Get(Get(n, p), f)
    BY <1>1, <1>6, FieldPath DEF IsField, w
  <2>2. CellOf(new, p, roles[c], mode) = Shown(v)
    BY <1>2, <1>6, <2>1, CellOfField
  <2>3. \A b \in DOMAIN roles : roles[b] # KeyRole
    <3>1. roles # <<KeyRole, RowRole, TypeRole>>
      <4>1. SUFFICES ASSUME roles = <<KeyRole, RowRole, TypeRole>> PROVE FALSE
        OBVIOUS
      <4>2. c \in {1, 2, 3}
        BY <4>1
      <4>3. roles[c] = RowRole
        BY <4>1, <4>2
      <4> QED BY <1>6, <4>3, RoleTags
    <3>2. CASE roles = <<RowRole>>
      <4>1. roles[c] = RowRole
        BY <3>2
      <4> QED BY <1>6, <4>1, RoleTags
    <3>3. CASE \A b \in DOMAIN roles : roles[b] = RowRole \/ IsField(roles[b])
      BY <3>3, RoleTags DEF IsField
    <3> QED BY <3>1, <3>2, <3>3 DEF Layout, RolesOK
  <2>4. Kind(Get(root, p)) = "dict" /\ Kind(Get(new, p)) = "dict"
    <3>1. IsContainer(Get(root, p)) /\ Kind(Get(new, p)) = Kind(Get(root, p))
      BY <1>2, <2>1
    <3>2. SUFFICES ASSUME Kind(Get(new, p)) # "dict" PROVE FALSE
      BY <3>1
    <3>3. Len(f) \in Nat /\ Len(f) # 0
      BY <1>1, <2>1, PathSegs, PathEmpty
    <3>4. 0 \in 0 .. Len(f) - 1 /\ 1 \in 0 .. Len(f)
      BY <3>3
    <3>5. IsSeg(f[0 + 1]) /\ Get(Get(new, p), Prefix(f, 0 + 1)) = Child(Get(Get(new, p), Prefix(f, 0)), f[0 + 1])
      BY <1>1, <3>4, PrefixStep
    <3>6. Get(Get(new, p), Prefix(f, 0)) = Get(new, p)
      BY <1>1, WholePrefix, GetHere
    <3>7. Child(Get(new, p), f[1]) = Absent
      BY <2>1, <3>2, <3>5, ChildElsewhere
    <3>8. Get(Get(new, p), Prefix(f, 1)) = Absent
      BY <3>5, <3>6, <3>7
    <3>9. Get(Get(new, p), f) = Absent
      BY <1>1, <3>4, <3>8, PrefixThere
    <3> QED BY <1>2, <1>3, <2>1, <3>9
  <2>5. ASSUME NEW b \in DOMAIN roles, b # c, roles[b] # TypeRole
        PROVE  CellOf(new, p, roles[b], mode) = CellOf(root, p, roles[b], mode)
    <3>1. CASE roles[b] = RowRole
      BY <1>6, <2>4, <3>1, CellOfRow
    <3>2. CASE roles[b] # RowRole
      <4>1. IsField(roles[b]) /\ roles[b][1] = "Field" /\ IsPath(roles[b][2]) /\ roles[b][2] # <<>>
        BY <2>3, <2>5, <3>2, RelIsPath DEF IsField
      <4>2. Apart(f, roles[b][2])
        <5>1. \/ roles = <<KeyRole, RowRole, TypeRole>> \/ roles = <<RowRole>>
              \/ Apart(roles[c][2], roles[b][2]) \/ (IsField(roles[c]) /= IsField(roles[b]))
          BY <2>5 DEF Layout, RolesOK
        <5>2. roles # <<KeyRole, RowRole, TypeRole>>
          <6>1. SUFFICES ASSUME roles = <<KeyRole, RowRole, TypeRole>> PROVE FALSE
            OBVIOUS
          <6>2. 1 \in DOMAIN roles /\ roles[1] = KeyRole
            BY <6>1
          <6> QED BY <2>3, <6>2
        <5>3. roles # <<RowRole>>
          <6>1. SUFFICES ASSUME roles = <<RowRole>> PROVE FALSE
            OBVIOUS
          <6>2. b = 1 /\ c = 1
            BY <6>1
          <6> QED BY <2>5, <6>2
        <5> QED BY <1>6, <4>1, <5>1, <5>2, <5>3
      <4>3. Apart(w, p \o roles[b][2])
        BY <1>1, <4>1, <4>2, ApartUnder DEF w
      <4>4. IsPath(p \o roles[b][2]) /\ \A n : Get(n, p \o roles[b][2]) = Get(Get(n, p), roles[b][2])
        BY <1>1, <4>1, FieldPath
      <4>5. Get(Get(new, p), roles[b][2]) = Get(Get(root, p), roles[b][2])
        BY <1>2, <4>3, <4>4
      <4> QED BY <4>1, <4>5, CellOfField
    <3> QED BY <3>1, <3>2
  <2> QED BY <1>4, <2>2, <2>3, <2>5
<1> QED BY <1>1, <1>5, <1>6

\* A key renamed: the rows whose keys are there stay where they are.
LEMMA KeyWritten ==
  ASSUME NEW anchor, NEW mode, NEW paths, NEW roles, Layout(anchor, mode, paths, roles),
         NEW r \in DOMAIN paths, NEW c \in DOMAIN roles, roles[c] = KeyRole,
         NEW root, Tree(root), NEW text, RenameKey(root, paths[r], text) # Refused
  PROVE  /\ Tree(RenameKey(root, paths[r], text)) /\ Get(root, anchor) # Absent
         /\ \A q \in DOMAIN paths : q # r /\ Get(root, paths[q]) # Absent =>
               Get(root, paths[q]) = Get(RenameKey(root, paths[r], text), paths[q])
<1> DEFINE new == RenameKey(root, paths[r], text)
           parent == Get(root, anchor)
           old == Last(paths[r])[2]
<1>1. \A q \in DOMAIN paths : paths[q] # anchor /\ Last(paths[q])[1] = "key"
  <2>1. CASE roles = <<RowRole>>
    <3>1. roles[c] = RowRole
      BY <2>1
    <3> QED BY <3>1, RoleTags
  <2>2. CASE \A b \in DOMAIN roles : roles[b] = RowRole \/ IsField(roles[b])
    BY <2>2, RoleTags DEF IsField
  <2> QED BY <2>1, <2>2 DEF Layout, RolesOK
<1>2. ASSUME NEW q \in DOMAIN paths PROVE \E seg : IsSeg(seg) /\ paths[q] = Append(anchor, seg)
  <2>1. \/ paths[q] = anchor /\ DOMAIN paths = {q}
        \/ \E seg : IsSeg(seg) /\ paths[q] = Append(anchor, seg)
    BY RowPlace, ZenonT(20)
  <2> QED BY <1>1, <2>1
<1>3. IsPath(anchor)
  BY DEF Layout
<1>4. ASSUME NEW q \in DOMAIN paths
      PROVE  /\ IsPath(paths[q]) /\ Front(paths[q]) = anchor /\ IsSeg(Last(paths[q]))
             /\ Last(paths[q]) = Key(Last(paths[q])[2])
             /\ \A n : Get(n, paths[q]) = Child(Get(n, anchor), Last(paths[q]))
             /\ q # r => Last(paths[q]) # Last(paths[r])
  <2>1. PICK seg : IsSeg(seg) /\ paths[q] = Append(anchor, seg)
    BY <1>2
  <2>2. Front(paths[q]) = anchor /\ Last(paths[q]) = seg /\ IsPath(paths[q])
    BY <1>3, <2>1, AppendedParts
  <2>3. seg = Key(seg[2])
    BY <1>1, <2>1, <2>2, SegForms
  <2>4. \A n : Get(n, Append(anchor, seg)) = Child(Get(n, anchor), seg)
    BY <1>3, <2>1, GetFurther
  <2>5. ASSUME q # r PROVE Last(paths[q]) # Last(paths[r])
    <3>1. PICK s : IsSeg(s) /\ paths[r] = Append(anchor, s)
      BY <1>2
    <3>2. Last(paths[r]) = s
      BY <1>3, <3>1, AppendedParts
    <3>3. paths[q] # paths[r]
      <4>1. Apart(paths[q], paths[r])
        BY <2>5, RowsPart
      <4> QED BY <4>1 DEF Apart
    <3> QED BY <2>1, <2>2, <3>1, <3>2, <3>3
  <2> QED BY <2>1, <2>2, <2>3, <2>4, <2>5
<1>5. /\ paths[r] # <<>> /\ Kind(parent) = "dict" /\ Last(paths[r]) = Key(old)
      /\ \/ old = text /\ new = root
         \/ /\ HasKey(parent, old) /\ ~HasKey(parent, text)
            /\ \E m : /\ Written(root, new, anchor, m)
                      /\ \A seg : IsSeg(seg) /\ seg # Key(old) /\ seg # Key(text) =>
                                     Child(m, seg) = Child(parent, seg)
  <2>1. IsPath(paths[r]) /\ Front(paths[r]) = anchor
    BY <1>4
  <2> QED BY <2>1, RenameKeyWrites DEF KeyMoved
<1>6. parent # Absent
  BY <1>5, KindOfAbsent DEF IsContainer
<1>7. NodeOK(parent)
  BY <1>3, <1>6 DEF Tree
<1> HIDE DEF new, parent, old
<1>8. CASE new = root
  BY <1>6, <1>8 DEF new, parent
<1>9. ASSUME NEW m, Written(root, new, anchor, m), ~HasKey(parent, text),
             \A seg : IsSeg(seg) /\ seg # Key(old) /\ seg # Key(text) => Child(m, seg) = Child(parent, seg)
      PROVE  /\ Tree(new)
             /\ \A q \in DOMAIN paths : q # r /\ Get(root, paths[q]) # Absent =>
                   Get(root, paths[q]) = Get(new, paths[q])
  <2>1. Tree(new) /\ Get(new, anchor) = m
    BY <1>9 DEF Written
  <2>2. ASSUME NEW q \in DOMAIN paths, q # r, Get(root, paths[q]) # Absent
        PROVE  Get(root, paths[q]) = Get(new, paths[q])
    <3> DEFINE seg == Last(paths[q])
    <3>1. /\ IsSeg(seg) /\ seg = Key(seg[2]) /\ seg # Key(old)
          /\ Get(root, paths[q]) = Child(parent, seg) /\ Get(new, paths[q]) = Child(m, seg)
      <4>1. Last(paths[r]) = Key(old) /\ seg # Last(paths[r])
        BY <1>5, <1>4, <2>2
      <4> QED BY <1>4, <2>1, <4>1 DEF parent
    <3> HIDE DEF seg
    <3>2. HasKey(parent, seg[2])
      <4>1. seg[1] = "key" /\ Kind(parent) = "dict"
        BY <1>5, <3>1, SegsMade
      <4> QED BY <1>7, <2>2, <3>1, <4>1, ChildByKey
    <3>3. seg # Key(text)
      BY <1>9, <3>2, SegsMade
    <3> QED BY <1>9, <3>1, <3>3
  <2> QED BY <2>1, <2>2
<1> QED BY <1>5, <1>6, <1>8, <1>9 DEF new, parent

-----------------------------------------------------------------------------
(* Changes one after the other.                                            *)

\* What one more change makes of the tree so far.
Stepped(before, edit) ==
    IF before.failed \/ Change(before.root, edit) = Refused
    THEN [before EXCEPT !.failed = TRUE]
    ELSE [root |-> Change(before.root, edit), failed |-> FALSE]

Start(root) == [root |-> root, failed |-> FALSE]

IsAfter(a, root, edits, n) == a = [i \in 0 .. n |-> IF i = 0 THEN Start(root) ELSE Stepped(a[i - 1], edits[i])]

LEMMA AfterExists ==
  ASSUME NEW root, NEW edits
  PROVE  \A n \in Nat : \E a : IsAfter(a, root, edits, n)
<1> DEFINE S == {n \in Nat : \E a : IsAfter(a, root, edits, n)}
<1>1. 0 \in S
  <2> DEFINE u == [i \in 0 .. 0 |-> Start(root)]
  <2>1. u = [i \in 0 .. 0 |-> IF i = 0 THEN Start(root) ELSE Stepped(u[i - 1], edits[i])]
    OBVIOUS
  <2> HIDE DEF u
  <2>2. IsAfter(u, root, edits, 0)
    BY <2>1 DEF IsAfter
  <2> QED BY <2>2
<1>2. \A n \in Nat : n \in S => n + 1 \in S
  <2> SUFFICES ASSUME NEW n \in Nat, NEW a, IsAfter(a, root, edits, n)
               PROVE  \E u : IsAfter(u, root, edits, n + 1)
    OBVIOUS
  <2> DEFINE u == [i \in 0 .. n + 1 |-> IF i = n + 1 THEN Stepped(a[n], edits[n + 1]) ELSE a[i]]
  <2>1. \A i \in 0 .. n : a[i] = IF i = 0 THEN Start(root) ELSE Stepped(a[i - 1], edits[i])
    BY DEF IsAfter
  <2>2. \A i \in 0 .. n + 1 : u[i] = IF i = 0 THEN Start(root) ELSE Stepped(u[i - 1], edits[i])
    <3> TAKE i \in 0 .. n + 1
    <3>1. CASE i = n + 1
      BY <3>1
    <3>2. CASE i \in 0 .. n
      <4>1. i # n + 1 /\ (i # 0 => i - 1 \in 0 .. n + 1 /\ i - 1 # n + 1)
        BY <3>2
      <4> QED BY <4>1, <3>2, <2>1
    <3> QED BY <3>1, <3>2
  <2>3. u = [i \in 0 .. n + 1 |-> IF i = 0 THEN Start(root) ELSE Stepped(u[i - 1], edits[i])]
    <3>1. u = [i \in 0 .. n + 1 |-> u[i]]
      OBVIOUS
    <3> HIDE DEF u
    <3> QED BY <3>1, <2>2
  <2> HIDE DEF u
  <2> QED BY <2>3 DEF IsAfter
<1> HIDE DEF S
<1>3. Nat \subseteq S
  BY <1>1, <1>2, EveryNatural
<1> QED BY <1>3 DEF S

LEMMA RunSteps ==
  ASSUME NEW root, NEW edits, Len(edits) \in Nat
  PROVE  \E a : /\ a[0] = Start(root) /\ a[Len(edits)] = OneByOne(root, edits)
                /\ \A i \in 1 .. Len(edits) : a[i] = Stepped(a[i - 1], edits[i])
<1> DEFINE after == CHOOSE a : IsAfter(a, root, edits, Len(edits))
<1>1. \E a : IsAfter(a, root, edits, Len(edits))
  BY AfterExists
<1>2. IsAfter(after, root, edits, Len(edits))
  BY <1>1, Zenon
<1>3. OneByOne(root, edits) = after[Len(edits)]
  BY DEF OneByOne, IsAfter, Stepped, Start
<1> HIDE DEF after
<1>4. /\ after[0] = Start(root)
      /\ \A i \in 1 .. Len(edits) : after[i] = Stepped(after[i - 1], edits[i])
  BY <1>2 DEF IsAfter
<1> QED BY <1>3, <1>4

\* Whatever is refused on the way, the tree stays one.
\* A tree comes of it, and where that is claimed, one with the same values.
Fits(kept, root, new) == Tree(new) /\ (kept => Keeps(root, new))
Plants(kept, edit) == \A t : Tree(t) => Change(t, edit) = Refused \/ Fits(kept, t, Change(t, edit))

LEMMA RunFits ==
  ASSUME NEW kept, NEW root, Tree(root), NEW edits, Len(edits) \in Nat,
         \A i \in 1 .. Len(edits) : Plants(kept, edits[i])
  PROVE  Fits(kept, root, OneByOne(root, edits).root)
<1>1. PICK a : /\ a[0] = Start(root) /\ a[Len(edits)] = OneByOne(root, edits)
               /\ \A i \in 1 .. Len(edits) : a[i] = Stepped(a[i - 1], edits[i])
  BY RunSteps
<1> DEFINE Fine(x) == x = [root |-> x.root, failed |-> x.failed] /\ Fits(kept, root, x.root)
           S == {i \in Nat : i \in 0 .. Len(edits) => Fine(a[i])}
<1>2. 0 \in S
  BY <1>1 DEF Start, Fits, Keeps
<1>3. \A i \in Nat : i \in S => i + 1 \in S
  <2> SUFFICES ASSUME NEW i \in Nat, Fine(a[i]), i + 1 \in 0 .. Len(edits) PROVE Fine(a[i + 1])
    OBVIOUS
  <2>1. i + 1 \in 1 .. Len(edits) /\ (i + 1) - 1 = i
    OBVIOUS
  <2>2. a[i + 1] = Stepped(a[i], edits[i + 1])
    BY <1>1, <2>1
  <2>3. CASE a[i].failed \/ Change(a[i].root, edits[i + 1]) = Refused
    <3>1. a[i + 1] = [a[i] EXCEPT !.failed = TRUE]
      BY <2>2, <2>3 DEF Stepped
    <3> QED BY <3>1
  <2>4. CASE ~(a[i].failed \/ Change(a[i].root, edits[i + 1]) = Refused)
    <3>1. a[i + 1] = [root |-> Change(a[i].root, edits[i + 1]), failed |-> FALSE]
      BY <2>2, <2>4 DEF Stepped
    <3>2. Fits(kept, a[i].root, Change(a[i].root, edits[i + 1]))
      BY <2>1, <2>4 DEF Plants, Fits
    <3>3. Fits(kept, root, Change(a[i].root, edits[i + 1]))
      BY <3>2 DEF Fits, Keeps
    <3> QED BY <3>1, <3>3
  <2> QED BY <2>3, <2>4
<1> HIDE DEF S
<1>4. Nat \subseteq S
  BY <1>2, <1>3, EveryNatural
<1>5. Fine(a[Len(edits)])
  BY <1>4 DEF S
<1> QED BY <1>1, <1>5

\* Two changes that both went through.
LEMMA RunOfTwo ==
  ASSUME NEW root, NEW edits, Len(edits) = 2, ~OneByOne(root, edits).failed
  PROVE  /\ Change(root, edits[1]) # Refused
         /\ Change(Change(root, edits[1]), edits[2]) # Refused
         /\ OneByOne(root, edits).root = Change(Change(root, edits[1]), edits[2])
<1>1. PICK a : /\ a[0] = Start(root) /\ a[Len(edits)] = OneByOne(root, edits)
               /\ \A i \in 1 .. Len(edits) : a[i] = Stepped(a[i - 1], edits[i])
  BY RunSteps
<1>2. a[1] = Stepped(a[0], edits[1]) /\ a[2] = Stepped(a[1], edits[2]) /\ a[2] = OneByOne(root, edits)
  <2>1. 1 \in 1 .. 2 /\ 2 \in 1 .. 2 /\ 1 - 1 = 0 /\ 2 - 1 = 1
    OBVIOUS
  <2> QED BY <1>1, <2>1
<1>3. Change(root, edits[1]) # Refused
  <2>1. SUFFICES ASSUME Change(root, edits[1]) = Refused PROVE FALSE
    OBVIOUS
  <2>2. a[1] = [root |-> root, failed |-> TRUE]
    BY <1>1, <1>2, <2>1 DEF Stepped, Start
  <2>3. a[2] = [root |-> root, failed |-> TRUE]
    BY <1>2, <2>2 DEF Stepped
  <2> QED BY <1>2, <2>3
<1>4. a[1] = [root |-> Change(root, edits[1]), failed |-> FALSE]
  BY <1>1, <1>2, <1>3 DEF Stepped, Start
<1>5. Change(Change(root, edits[1]), edits[2]) # Refused
  <2>1. SUFFICES ASSUME Change(Change(root, edits[1]), edits[2]) = Refused PROVE FALSE
    OBVIOUS
  <2>2. a[2] = [root |-> Change(root, edits[1]), failed |-> TRUE]
    BY <1>2, <1>4, <2>1 DEF Stepped
  <2> QED BY <1>2, <2>2
<1>6. a[2] = [root |-> Change(Change(root, edits[1]), edits[2]), failed |-> FALSE]
  <2>1. a[1].failed = FALSE /\ a[1].root = Change(root, edits[1])
    BY <1>4
  <2> QED BY <1>2, <2>1, <1>5 DEF Stepped
<1> QED BY <1>2, <1>3, <1>5, <1>6

LEMMA ParsedText ==
  ASSUME NEW text, NEW old
  PROVE  /\ Tree(ParseScalar(text, old)) /\ ~IsContainer(ParseScalar(text, old))
         /\ text \in Texts => Shown(ParseScalar(text, old)) = <<"text", text>>
<1>1. CASE Kind(old) # "str" /\ text \in Blanks
  <2>1. ParseScalar(text, old) = <<"null", "">>
    BY <1>1 DEF ParseScalar, Null
  <2>2. Tree(<<"null", "">>) /\ ~IsContainer(<<"null", "">>) /\ Content(<<"null", "">>) = ""
    BY ScalarIsTree
  <2>3. text \in Texts => text = ""
    BY <1>1, TextsAssumption
  <2> QED BY <2>1, <2>2, <2>3 DEF Shown
<1>2. CASE ~(Kind(old) # "str" /\ text \in Blanks)
  <2>1. PICK kind \in {"str", "int"} : ParseScalar(text, old) = <<kind, text>>
    BY <1>2 DEF ParseScalar
  <2>2. Tree(<<kind, text>>) /\ ~IsContainer(<<kind, text>>) /\ Content(<<kind, text>>) = text
    <3>1. kind \notin {"list", "dict", "absent", "refused"}
      OBVIOUS
    <3> QED BY <3>1, ScalarIsTree
  <2> QED BY <2>1, <2>2 DEF Shown
<1> QED BY <1>1, <1>2

-----------------------------------------------------------------------------
(* Cells typed into.                                                       *)

\* Setting a cell is a renaming of its key or the writing of a value where there
\* was no container.
LEMMA CellSetIs ==
  ASSUME NEW r \in Rows, NEW c \in Cols, NEW root, NEW text, SetCell(root, r, c, text) # Refused
  PROVE  /\ Top.roles[c] # TypeRole
         /\ Top.roles[c] = KeyRole =>
               SetCell(root, r, c, text) = RenameKey(root, Top.paths[r] \o Top.roles[c][2], text)
         /\ Top.roles[c] # KeyRole =>
               LET path == Top.paths[r] \o Top.roles[c][2]
               IN  /\ ~IsContainer(Get(root, path))
                   /\ SetCell(root, r, c, text) = SetNode(root, path, ParseScalar(text, Get(root, path)))
<1> DEFINE path == Top.paths[r] \o Top.roles[c][2]
           old == Get(root, path)
<1>1. Top.roles[c] # TypeRole
  BY RoleTags DEF SetCell
<1>2. CASE Top.roles[c] = KeyRole
  BY <1>1, <1>2 DEF SetCell, CellPath
<1>3. CASE Top.roles[c] # KeyRole
  <2>1. SetCell(root, r, c, text) = IF IsContainer(old) THEN Refused ELSE SetNode(root, path, ParseScalar(text, old))
    BY <1>1, <1>3 DEF SetCell, CellPath
  <2> QED BY <1>1, <1>3, <2>1
<1> QED BY <1>2, <1>3

LEMMA KeyCellPath ==
  ASSUME NEW anchor, NEW mode, Layout(anchor, mode, Top.paths, Top.roles),
         NEW r \in Rows, NEW c \in Cols, Top.roles[c] = KeyRole
  PROVE  Top.paths[r] \o Top.roles[c][2] = Top.paths[r]
<1>1. IsPath(Top.paths[r])
  BY RowsPart DEF Rows
<1> QED BY <1>1, PathNone, RoleTags

LEMMA KeyCellSet ==
  ASSUME NEW anchor, NEW mode, Layout(anchor, mode, Top.paths, Top.roles),
         NEW r \in Rows, NEW c \in Cols, Top.roles[c] = KeyRole,
         NEW root, NEW text, SetCell(root, r, c, text) # Refused
  PROVE  SetCell(root, r, c, text) = RenameKey(root, Top.paths[r], text)
<1>1. SetCell(root, r, c, text) = RenameKey(root, Top.paths[r] \o Top.roles[c][2], text)
  BY CellSetIs
<1>2. Top.paths[r] \o Top.roles[c][2] = Top.paths[r]
  BY KeyCellPath
<1> QED BY <1>1, <1>2, Zenon

LEMMA CellSetGivesTree ==
  ASSUME NEW anchor, NEW mode, Layout(anchor, mode, Top.paths, Top.roles),
         NEW r \in Rows, NEW c \in Cols, NEW root, Tree(root), NEW text
  PROVE  SetCell(root, r, c, text) = Refused \/ Tree(SetCell(root, r, c, text))
<1> SUFFICES ASSUME SetCell(root, r, c, text) # Refused PROVE Tree(SetCell(root, r, c, text))
  OBVIOUS
<1> DEFINE path == Top.paths[r] \o Top.roles[c][2]
<1>1. IsPath(path)
  <2>1. IsPath(Top.paths[r])
    BY RowsPart DEF Rows
  <2>2. IsPath(Top.roles[c][2])
    BY RelIsPath DEF Cols
  <2> QED BY <2>1, <2>2, PathJoined
<1>2. CASE Top.roles[c] = KeyRole
  <2>1. SetCell(root, r, c, text) = RenameKey(root, path, text)
    BY <1>2, CellSetIs
  <2> HIDE DEF path
  <2> QED BY <1>1, <2>1, RenameKeyGivesTree
<1>3. CASE Top.roles[c] # KeyRole
  <2>1. SetCell(root, r, c, text) = SetNode(root, path, ParseScalar(text, Get(root, path)))
    BY <1>3, CellSetIs
  <2>2. Tree(ParseScalar(text, Get(root, path)))
    BY ParsedText
  <2> HIDE DEF path
  <2>3. Written(root, SetCell(root, r, c, text), path, ParseScalar(text, Get(root, path)))
    BY <1>1, <2>1, <2>2, SetNodeWrites
  <2> QED BY <2>3 DEF Written
<1> QED BY <1>2, <1>3

\* What every other cell shows of the tree still is what the tree holds, and so is
\* the text typed into the one.
LEMMA CellSet ==
  ASSUME NEW anchor, NEW mode, Layout(anchor, mode, Top.paths, Top.roles),
         NEW r \in Rows, NEW c \in Cols, NEW root, Tree(root), NEW text,
         Top.roles[c] # KeyRole => text \in Texts, SetCell(root, r, c, text) # Refused,
         NEW old, NEW cells, cells[r][c] = <<"text", text>>,
         \A b \in Cols : b # c => cells[r][b] = old[r][b],
         NEW q \in Rows, q # r => cells[q] = old[q], Top.roles[c] = KeyRole => q # r,
         ShowsRow(root, mode, Top.paths, Top.roles, old, q) \/ (q = r /\ Top.roles = <<RowRole>>)
  PROVE  ShowsRow(SetCell(root, r, c, text), mode, Top.paths, Top.roles, cells, q)
<1> DEFINE new == SetCell(root, r, c, text)
           paths == Top.paths
           roles == Top.roles
           path == paths[r] \o roles[c][2]
           v == ParseScalar(text, Get(root, path))
<1>1. roles[c] # TypeRole /\ r \in DOMAIN paths /\ c \in DOMAIN roles /\ q \in DOMAIN paths
  BY CellSetIs DEF Rows, Cols
<1>2. CASE roles[c] = KeyRole
  <2>1. new = RenameKey(root, paths[r], text)
    BY <1>2, KeyCellSet
  <2>2. roles # <<RowRole>>
    <3>1. roles = <<RowRole>> => roles[c] = RowRole
      BY <1>1
    <3> QED BY <1>2, <3>1, RoleTags
  <2>3. ShowsRow(root, mode, paths, roles, old, q) /\ q # r /\ cells[q] = old[q]
    BY <1>2, <2>2
  <2>4. Get(root, paths[q]) # Absent
    BY <1>1, <1>2, <2>3 DEF ShowsRow
  <2> HIDE DEF new, paths, roles
  <2>5. Layout(anchor, mode, paths, roles) /\ RenameKey(root, paths[r], text) # Refused
    BY <2>1 DEF new, paths, roles
  <2>6. Get(root, paths[q]) = Get(new, paths[q])
    BY <1>1, <1>2, <2>1, <2>3, <2>4, <2>5, KeyWritten
  <2>7. ShowsRow(new, mode, paths, roles, cells, q)
    BY <2>3, <2>6, RowStays
  <2> QED BY <2>7 DEF new, paths, roles
<1>3. CASE roles[c] # KeyRole
  <2>1. ~IsContainer(Get(root, path)) /\ new = SetNode(root, path, v)
    BY <1>3, CellSetIs
  <2>2. Tree(v) /\ ~IsContainer(v) /\ Shown(v) = <<"text", text>>
    BY <1>3, ParsedText
  <2>3. IsPath(path)
    <3>1. IsPath(Top.paths[r])
      BY RowsPart DEF Rows
    <3>2. IsPath(Top.roles[c][2])
      BY RelIsPath DEF Cols
    <3> QED BY <3>1, <3>2, PathJoined
  <2>4. Written(root, new, path, v)
    <3> HIDE DEF path, v
    <3> QED BY <2>1, <2>2, <2>3, SetNodeWrites
  <2> HIDE DEF new, v
  <2>5. /\ \A s \in DOMAIN paths : s # r => Get(root, paths[s]) = Get(new, paths[s])
        /\ CellOf(new, paths[r], roles[c], mode) = Shown(v)
        /\ \A b \in DOMAIN roles : b # c /\ roles[b] # TypeRole =>
               CellOf(new, paths[r], roles[b], mode) = CellOf(root, paths[r], roles[b], mode)
        /\ \A b \in DOMAIN roles : roles[b] = KeyRole => Get(new, paths[r]) # Absent
    <3> HIDE DEF paths, roles
    <3>1. Layout(anchor, mode, paths, roles)
      BY DEF paths, roles
    <3> QED BY <1>1, <1>3, <2>1, <2>2, <2>4, <3>1, ValueWritten
  <2>6. CASE q # r
    <3>1. ShowsRow(root, mode, paths, roles, old, q) /\ cells[q] = old[q]
      BY <2>6
    <3>2. Get(root, paths[q]) = Get(new, paths[q])
      BY <1>1, <2>5, <2>6
    <3>3. ShowsRow(new, mode, paths, roles, cells, q)
      <4> HIDE DEF paths, roles
      <4> QED BY <3>1, <3>2, RowStays
    <3> QED BY <3>3 DEF new
  <2>7. CASE q = r
    <3>1. ASSUME NEW b \in DOMAIN roles, roles[b] # TypeRole
          PROVE  cells[r][b] = CellOf(new, paths[r], roles[b], mode)
      <4>1. CASE b = c
        BY <2>2, <2>5, <4>1
      <4>2. CASE b # c
        <5>1. roles # <<RowRole>>
          <6>1. roles = <<RowRole>> => b = 1 /\ c = 1
            BY <1>1
          <6> QED BY <4>2, <6>1
        <5>2. old[r][b] = CellOf(root, paths[r], roles[b], mode)
          BY <2>7, <3>1, <5>1 DEF ShowsRow
        <5>3. cells[r][b] = old[r][b]
          BY <4>2 DEF Cols
        <5> QED BY <2>5, <3>1, <4>2, <5>2, <5>3
      <4> QED BY <4>1, <4>2
    <3>2. ShowsRow(new, mode, paths, roles, cells, q)
      BY <2>5, <2>7, <3>1 DEF ShowsRow
    <3> QED BY <3>2 DEF new
  <2> QED BY <2>6, <2>7
<1> QED BY <1>2, <1>3

\* An edit goes through under a node that is gone only where the sheet is that node
\* itself, as its one cell.
LEMMA WrittenUnder ==
  ASSUME NEW anchor, NEW mode, NEW paths, NEW roles, Layout(anchor, mode, paths, roles),
         NEW r \in DOMAIN paths, NEW c \in DOMAIN roles, roles[c] # KeyRole, roles[c] # TypeRole,
         NEW root, NEW new, NEW v, Written(root, new, paths[r] \o roles[c][2], v)
  PROVE  Get(root, anchor) # Absent \/ (DOMAIN paths = {r} /\ roles = <<RowRole>>)
<1> DEFINE p == paths[r]
           f == roles[c][2]
           path == p \o f
<1>1. IsPath(anchor) /\ IsList(anchor) /\ Len(anchor) \in Nat
  BY PathSegs DEF Layout
<1>2. IsPath(p)
  BY RowsPart
<1>3. IsPath(f) /\ (f = <<>> => roles[c] = RowRole)
  <2>1. IsPath(f) /\ (roles[c] = RowRole \/ roles[c] = KeyRole \/ roles[c] = TypeRole \/ IsField(roles[c]))
    BY RelIsPath
  <2> QED BY <2>1 DEF IsField
<1>4. \/ p = anchor /\ DOMAIN paths = {r}
      \/ \E seg : IsSeg(seg) /\ p = Append(anchor, seg)
  BY RowPlace, ZenonT(20)
<1>5. ASSUME Len(anchor) \in 0 .. Len(path) - 1, Prefix(path, Len(anchor)) = anchor
      PROVE  Get(root, anchor) # Absent
  <2>1. IsContainer(Get(root, Prefix(path, Len(anchor))))
    BY <1>5 DEF Written
  <2> QED BY <1>5, <2>1, KindOfAbsent
<1>6. ASSUME NEW seg, IsSeg(seg), p = Append(anchor, seg) PROVE Get(root, anchor) # Absent
  <2>1. Len(p) = Len(anchor) + 1 /\ Prefix(p, Len(anchor)) = Prefix(anchor, Len(anchor))
    <3>1. Len(anchor) \in 0 .. Len(anchor)
      BY <1>1
    <3> QED BY <1>1, <1>6, <3>1, AppendedPrefix
  <2>2. Len(path) = Len(p) + Len(f) /\ Len(f) \in Nat /\ \A i \in 1 .. Len(p) : path[i] = p[i]
    BY <1>2, <1>3, ListJoined, PathSegs
  <2>3. Len(anchor) \in 0 .. Len(path) - 1
    <3> HIDE DEF path, p, f
    <3> QED BY <1>1, <2>1, <2>2
  <2>4. Prefix(path, Len(anchor)) = Prefix(p, Len(anchor))
    BY <1>1, <2>1, <2>2 DEF Prefix
  <2>5. Prefix(path, Len(anchor)) = anchor
    BY <1>1, <2>1, <2>4, WholePrefix
  <2> QED BY <1>5, <2>3, <2>5
<1>7. CASE p = anchor /\ DOMAIN paths = {r}
  <2>1. CASE f # <<>>
    <3>1. Len(anchor) \in 0 .. Len(path) - 1 /\ Prefix(path, Len(anchor)) = anchor
      BY <1>1, <1>3, <1>7, <2>1, FieldPath
    <3> QED BY <1>5, <3>1
  <2>2. CASE f = <<>>
    <3>1. RowRole \in ToSet(roles)
      BY <1>3, <2>2 DEF ToSet
    <3>2. p # Append(anchor, Last(p))
      <4>1. Len(Append(anchor, Last(p))) = Len(anchor) + 1
        BY <1>1, ListAppended
      <4> QED BY <1>1, <1>7, <4>1
    <3>3. roles = <<RowRole>>
      BY <3>1, <3>2 DEF Layout, RowsOK
    <3> QED BY <1>7, <3>3
  <2> QED BY <2>1, <2>2
<1> QED BY <1>4, <1>6, <1>7

LEMMA CellSetAnchored ==
  ASSUME NEW anchor, NEW mode, Layout(anchor, mode, Top.paths, Top.roles),
         NEW r \in Rows, NEW c \in Cols, NEW root, Tree(root), NEW text,
         SetCell(root, r, c, text) # Refused
  PROVE  Get(root, anchor) # Absent \/ (Rows = {r} /\ Top.roles = <<RowRole>>)
<1> DEFINE path == Top.paths[r] \o Top.roles[c][2]
           v == ParseScalar(text, Get(root, path))
<1>1. Top.roles[c] # TypeRole /\ r \in DOMAIN Top.paths /\ c \in DOMAIN Top.roles
  BY CellSetIs DEF Rows, Cols
<1>2. CASE Top.roles[c] = KeyRole
  <2>1. RenameKey(root, Top.paths[r], text) # Refused
    BY <1>2, KeyCellSet
  <2> QED BY <1>1, <1>2, <2>1, KeyWritten
<1>3. CASE Top.roles[c] # KeyRole
  <2>1. SetCell(root, r, c, text) = SetNode(root, path, v) /\ Tree(v)
    BY <1>3, CellSetIs, ParsedText
  <2>2. IsPath(path)
    <3>1. IsPath(Top.paths[r])
      BY <1>1, RowsPart
    <3>2. IsPath(Top.roles[c][2])
      BY <1>1, RelIsPath
    <3> QED BY <3>1, <3>2, PathJoined
  <2>3. Written(root, SetCell(root, r, c, text), path, v)
    <3> HIDE DEF path, v
    <3> QED BY <2>1, <2>2, SetNodeWrites
  <2>4. Get(root, anchor) # Absent \/ (DOMAIN Top.paths = {r} /\ Top.roles = <<RowRole>>)
    <3> HIDE DEF v
    <3> QED BY <1>1, <1>3, <2>3, WrittenUnder, ZenonT(20)
  <2> QED BY <2>4 DEF Rows
<1> QED BY <1>2, <1>3

-----------------------------------------------------------------------------
(* Two cells typed into at once.                                           *)

IsGrid(cells, width) ==
    width \in Nat /\ IsList(cells) /\ \A r \in DOMAIN cells : cells[r] = [c \in 1 .. width |-> cells[r][c]]

LEMMA GridPatched ==
  ASSUME NEW cells, NEW width, IsGrid(cells, width), NEW rows, NEW c \in 1 .. width, NEW text
  PROVE  /\ IsGrid(Patched(cells, rows, c, text), width) /\ DOMAIN Patched(cells, rows, c, text) = DOMAIN cells
         /\ Len(Patched(cells, rows, c, text)) = Len(cells)
         /\ \A r \in DOMAIN cells \ rows : Patched(cells, rows, c, text)[r] = cells[r]
         /\ \A r \in DOMAIN cells \cap rows :
               /\ Patched(cells, rows, c, text)[r][c] = <<"text", text>>
               /\ \A b \in 1 .. width : b # c => Patched(cells, rows, c, text)[r][b] = cells[r][b]
<1> DEFINE new == Patched(cells, rows, c, text)
<1>1. IsList(cells) /\ Len(cells) \in Nat /\ DOMAIN cells = 1 .. Len(cells)
  BY ListFacts DEF IsGrid
<1>2. /\ new = [r \in 1 .. Len(cells) |-> new[r]]
      /\ \A r \in DOMAIN cells :
            new[r] = IF r \in rows THEN [cells[r] EXCEPT ![c] = <<"text", text>>] ELSE cells[r]
  BY <1>1 DEF Patched
<1> HIDE DEF new
<1>3. IsList(new) /\ Len(new) = Len(cells) /\ DOMAIN new = DOMAIN cells
  BY <1>1, <1>2, MadeList, ListFacts
<1>4. ASSUME NEW r \in DOMAIN cells
      PROVE  /\ new[r] = [b \in 1 .. width |-> new[r][b]]
             /\ r \in rows => /\ new[r][c] = <<"text", text>>
                              /\ \A b \in 1 .. width : b # c => new[r][b] = cells[r][b]
  <2>1. cells[r] = [b \in 1 .. width |-> cells[r][b]]
    BY DEF IsGrid
  <2>2. CASE r \in rows
    <3>1. new[r] = [cells[r] EXCEPT ![c] = <<"text", text>>]
      BY <1>2, <2>2
    <3> QED BY <2>1, <3>1
  <2>3. CASE r \notin rows
    BY <1>2, <2>1, <2>3
  <2> QED BY <2>2, <2>3
<1>5. IsGrid(new, width)
  BY <1>3, <1>4 DEF IsGrid
<1> QED BY <1>2, <1>3, <1>4, <1>5 DEF new

LEMMA PairCounted ==
  ASSUME NEW x, NEW y, x # y
  PROVE  IsFiniteSet({x, y}) /\ Cardinality({x, y}) = 2
<1>1. IsFiniteSet({x}) /\ Cardinality({x}) = 1
  BY FS_Singleton
<1>2. y \notin {x} /\ {x} \cup {y} = {x, y}
  OBVIOUS
<1>3. IsFiniteSet({x} \cup {y}) /\ Cardinality({x} \cup {y}) = 1 + 1
  BY <1>1, <1>2, FS_AddElement
<1> QED BY <1>2, <1>3

LEMMA TwoRows ==
  ASSUME NEW S, IsFiniteSet(S), NEW marked \in SUBSET S, Cardinality(marked) = 2,
         NEW rows \in SetToSeqs(marked)
  PROVE  /\ Len(rows) = 2 /\ DOMAIN rows = {1, 2} /\ rows[1] # rows[2] /\ marked = {rows[1], rows[2]}
         /\ rows[1] \in S /\ rows[2] \in S
<1>1. rows \in [1 .. 2 -> marked] /\ \A i, j \in 1 .. 2 : i # j => rows[i] # rows[j]
  <2>1. rows \in {f \in [1 .. Cardinality(marked) -> marked] :
                     \A i, j \in 1 .. Cardinality(marked) : i # j => f[i] # f[j]}
    BY DEF SetToSeqs
  <2>2. rows \in {f \in [1 .. 2 -> marked] : \A i, j \in 1 .. 2 : i # j => f[i] # f[j]}
    BY <2>1, Zenon
  <2> QED BY <2>2
<1>2. Len(rows) = 2 /\ DOMAIN rows = {1, 2} /\ rows[1] # rows[2] /\ {rows[1], rows[2]} \subseteq marked
  <2>1. DOMAIN rows = 1 .. 2 /\ rows = [i \in 1 .. 2 |-> rows[i]]
    BY <1>1
  <2>2. Len(rows) = 2
    BY <2>1, MadeList
  <2>3. 1 \in 1 .. 2 /\ 2 \in 1 .. 2 /\ 1 # 2 /\ 1 .. 2 = {1, 2}
    OBVIOUS
  <2> QED BY <1>1, <2>1, <2>2, <2>3
<1>3. Cardinality({rows[1], rows[2]}) = 2
  BY <1>2, PairCounted
<1>4. IsFiniteSet(marked)
  BY FS_Subset
<1>5. marked = {rows[1], rows[2]}
  BY <1>2, <1>3, <1>4, FS_Subset
<1> QED BY <1>2, <1>5

LEMMA TypedChange ==
  ASSUME NEW root, NEW r, NEW c, NEW text
  PROVE  Change(root, [does |-> "type", row |-> r, col |-> c, text |-> text]) = SetCell(root, r, c, text)
BY DEF Change

LEMMA BulkIs ==
  ASSUME NEW rows, Len(rows) = 2, DOMAIN rows = {1, 2}, NEW c, NEW text, ~Bulk(rows, c, text).failed
  PROVE  LET one == SetCell(Root(Top), rows[1], c, text)
         IN  /\ one # Refused /\ SetCell(one, rows[2], c, text) # Refused
             /\ Bulk(rows, c, text).root = SetCell(one, rows[2], c, text)
<1> DEFINE edits == [i \in DOMAIN rows |-> [does |-> "type", row |-> rows[i], col |-> c, text |-> text]]
           one == SetCell(Root(Top), rows[1], c, text)
<1>1. Bulk(rows, c, text) = OneByOne(Root(Top), edits)
  BY DEF Bulk, Edits
<1>2. Len(edits) = 2
  <2>1. DOMAIN edits = 1 .. 2
    OBVIOUS
  <2> HIDE DEF edits
  <2> QED BY <2>1
<1>3. /\ edits[1] = [does |-> "type", row |-> rows[1], col |-> c, text |-> text]
      /\ edits[2] = [does |-> "type", row |-> rows[2], col |-> c, text |-> text]
  OBVIOUS
<1> HIDE DEF edits
<1>4. /\ Change(Root(Top), edits[1]) # Refused
      /\ Change(Change(Root(Top), edits[1]), edits[2]) # Refused
      /\ Bulk(rows, c, text).root = Change(Change(Root(Top), edits[1]), edits[2])
  BY <1>1, <1>2, RunOfTwo
<1>5. \A t : Change(t, edits[1]) = SetCell(t, rows[1], c, text) /\ Change(t, edits[2]) = SetCell(t, rows[2], c, text)
  BY <1>3, TypedChange
<1>6. Change(Root(Top), edits[1]) = one /\ Change(one, edits[2]) = SetCell(one, rows[2], c, text)
  BY <1>5
<1> HIDE DEF one
<1>7. Bulk(rows, c, text).root = SetCell(one, rows[2], c, text) /\ one # Refused /\ SetCell(one, rows[2], c, text) # Refused
  BY <1>4, <1>6
<1> QED BY <1>7 DEF one

\* One cell of the table holds the text, all others hold what they held.
SetIn(old, new, r, c, text) ==
    /\ new[r][c] = <<"text", text>>
    /\ \A d \in Cols : d # c => new[r][d] = old[r][d]
    /\ \A q \in Rows : q # r => new[q] = old[q]

LEMMA TwoSet ==
  ASSUME NEW anchor, NEW mode, Layout(anchor, mode, Top.paths, Top.roles),
         NEW root, Tree(root), NEW a \in Rows, NEW b \in Rows, a # b,
         NEW c \in Cols, NEW text, Top.roles[c] # KeyRole => text \in Texts,
         NEW one, one = SetCell(root, a, c, text), one # Refused,
         NEW two, two = SetCell(one, b, c, text), two # Refused,
         NEW old, NEW mid, SetIn(old, mid, a, c, text), NEW end, SetIn(mid, end, b, c, text)
  PROVE  /\ Tree(two) /\ Get(root, anchor) # Absent
         /\ \A q \in Rows : /\ Top.roles[c] = KeyRole => q \notin {a, b}
                            /\ ShowsRow(root, mode, Top.paths, Top.roles, old, q)
                            => ShowsRow(two, mode, Top.paths, Top.roles, end, q)
<1>1. Tree(one)
  BY CellSetGivesTree
<1>2. Tree(two)
  BY <1>1, CellSetGivesTree
<1>3. Get(root, anchor) # Absent
  <2>1. Get(root, anchor) # Absent \/ Rows = {a}
    BY CellSetAnchored
  <2> QED BY <2>1
<1>4. ASSUME NEW q \in Rows, Top.roles[c] = KeyRole => q \notin {a, b},
             ShowsRow(root, mode, Top.paths, Top.roles, old, q)
      PROVE  ShowsRow(two, mode, Top.paths, Top.roles, end, q)
  <2>1. Top.roles[c] = KeyRole => q # a /\ q # b
    BY <1>4
  <2>2. ShowsRow(one, mode, Top.paths, Top.roles, mid, q)
    BY <1>4, <2>1, CellSet DEF SetIn
  <2> QED BY <1>1, <2>1, <2>2, CellSet DEF SetIn
<1> QED BY <1>2, <1>3, <1>4

LEMMA BulkSet ==
  ASSUME NEW anchor, NEW mode, Layout(anchor, mode, Top.paths, Top.roles), MappingOk(Top),
         IsGrid(Top.cells, Top.width), Tree(Root(Top)),
         NEW marked \in SUBSET Rows, Cardinality(marked) = 2, NEW rows \in SetToSeqs(marked),
         NEW c \in Cols, NEW text, Top.roles[c] # KeyRole => text \in Texts, ~Bulk(rows, c, text).failed
  PROVE  /\ Tree(Bulk(rows, c, text).root) /\ Get(Root(Top), anchor) # Absent
         /\ IsGrid(Patched(Top.cells, marked, c, text), Top.width)
         /\ Len(Patched(Top.cells, marked, c, text)) = Len(Top.cells)
         /\ \A q \in Rows \ Renaming(marked, c) :
               ShowsRow(Root(Top), mode, Top.paths, Top.roles, Top.cells, q) =>
               ShowsRow(Bulk(rows, c, text).root, mode, Top.paths, Top.roles,
                        Patched(Top.cells, marked, c, text), q)
<1>1. Rows = 1 .. Len(Top.paths) /\ Len(Top.paths) \in Nat /\ Cols = 1 .. Len(Top.roles)
  BY ListFacts DEF Rows, Cols, Layout
<1>2. IsFiniteSet(Rows)
  <2>1. IsFiniteSet(1 .. Len(Top.paths))
    <3>1. 1 \in Int /\ Len(Top.paths) \in Int
      BY <1>1
    <3> QED BY <3>1, FS_Interval
  <2> QED BY <1>1, <2>1
<1>3. /\ Len(rows) = 2 /\ DOMAIN rows = {1, 2} /\ rows[1] # rows[2] /\ marked = {rows[1], rows[2]}
      /\ rows[1] \in Rows /\ rows[2] \in Rows
  BY <1>2, TwoRows
<1>4. PICK a, b : a = rows[1] /\ b = rows[2]
  OBVIOUS
<1>5. a \in Rows /\ b \in Rows /\ a # b /\ marked = {a, b}
  BY <1>3, <1>4
<1>6. PICK one, two : /\ one = SetCell(Root(Top), a, c, text) /\ two = SetCell(one, b, c, text)
                      /\ one # Refused /\ two # Refused /\ Bulk(rows, c, text).root = two
  BY <1>3, <1>4, BulkIs
<1>7. DOMAIN Top.cells = Rows /\ Cols = 1 .. Top.width /\ c \in 1 .. Top.width
  BY <1>1, ListFacts DEF MappingOk, IsGrid
<1>8. PICK mid, end : mid = Patched(Top.cells, {a}, c, text) /\ end = Patched(Top.cells, marked, c, text)
  OBVIOUS
<1>9. IsGrid(end, Top.width) /\ Len(end) = Len(Top.cells)
  BY <1>7, <1>8, GridPatched
<1>10. ASSUME NEW r \in Rows
       PROVE  /\ ~(r = a) => mid[r] = Top.cells[r]
              /\ r = a => mid[r][c] = <<"text", text>>
              /\ r = a => \A d \in Cols : d # c => mid[r][d] = Top.cells[r][d]
  <2>1. r \in DOMAIN Top.cells
    BY <1>7
  <2>2. mid[r] = IF r \in {a} THEN [Top.cells[r] EXCEPT ![c] = <<"text", text>>] ELSE Top.cells[r]
    BY <1>8, <2>1 DEF Patched
  <2>3. Top.cells[r] = [d \in 1 .. Top.width |-> Top.cells[r][d]]
    BY <2>1 DEF IsGrid
  <2> QED BY <1>7, <2>2, <2>3
<1>11. ASSUME NEW r \in Rows
       PROVE  /\ ~(r \in marked) => end[r] = Top.cells[r]
              /\ r \in marked => end[r][c] = <<"text", text>>
              /\ r \in marked => \A d \in Cols : d # c => end[r][d] = Top.cells[r][d]
  <2>1. r \in DOMAIN Top.cells
    BY <1>7
  <2>2. end[r] = IF r \in marked THEN [Top.cells[r] EXCEPT ![c] = <<"text", text>>] ELSE Top.cells[r]
    BY <1>8, <2>1 DEF Patched
  <2>3. Top.cells[r] = [d \in 1 .. Top.width |-> Top.cells[r][d]]
    BY <2>1 DEF IsGrid
  <2> QED BY <1>7, <2>2, <2>3
<1>12. end[a] = mid[a]
  <2>1. a \in DOMAIN Top.cells /\ a \in marked /\ a \in {a}
    BY <1>5, <1>7
  <2> QED BY <1>8, <2>1 DEF Patched
<1>13. \A r \in Rows : r # b => end[r] = mid[r]
  <2> SUFFICES ASSUME NEW r \in Rows, r # b PROVE end[r] = mid[r]
    OBVIOUS
  <2>1. CASE r = a
    BY <1>12, <2>1
  <2>2. CASE r # a
    <3>1. r \notin marked
      BY <1>5, <2>2
    <3> QED BY <1>10, <1>11, <2>2, <3>1
  <2> QED BY <2>1, <2>2
<1>14. SetIn(mid, end, b, c, text)
  <2>1. b \in marked /\ b # a /\ b \in Rows
    BY <1>5
  <2> QED BY <1>10, <1>11, <1>13, <2>1 DEF SetIn
<1>15. SetIn(Top.cells, mid, a, c, text)
  BY <1>5, <1>10 DEF SetIn
<1>16. /\ Tree(two) /\ Get(Root(Top), anchor) # Absent
       /\ \A q \in Rows : /\ Top.roles[c] = KeyRole => q \notin {a, b}
                          /\ ShowsRow(Root(Top), mode, Top.paths, Top.roles, Top.cells, q)
                          => ShowsRow(two, mode, Top.paths, Top.roles, end, q)
  BY <1>5, <1>6, <1>14, <1>15, TwoSet
<1>17. \A q \in Rows \ Renaming(marked, c) : Top.roles[c] = KeyRole => q \notin {a, b}
  BY <1>5 DEF Renaming
<1> QED BY <1>6, <1>8, <1>9, <1>16, <1>17

-----------------------------------------------------------------------------
(* What rows and columns commands make of the tree.                        *)

LEMMA RowsListed ==
  ASSUME NEW S, IsFiniteSet(S), NEW R, StrictTotalOrder(R, S)
  PROVE  /\ Len(InOrder(S, R)) \in Nat /\ DOMAIN InOrder(S, R) = 1 .. Len(InOrder(S, R))
         /\ \A i \in 1 .. Len(InOrder(S, R)) : InOrder(S, R)[i] \in S
<1> DEFINE o == InOrder(S, R)
<1>1. o = [i \in 1 .. Cardinality(S) |-> o[i]] /\ Cardinality(S) \in Nat
  BY FS_CardinalityType DEF InOrder
<1>2. \A i \in 1 .. Cardinality(S) : o[i] \in S
  BY InOrderBijection, ListingFacts
<1> HIDE DEF o
<1>3. Len(o) = Cardinality(S) /\ DOMAIN o = 1 .. Cardinality(S)
  BY <1>1, MadeList, ListFacts
<1> QED BY <1>1, <1>2, <1>3 DEF o

LEMMA LowToHighLists ==
  ASSUME NEW anchor, NEW mode, Layout(anchor, mode, Top.paths, Top.roles), NEW S \in SUBSET Rows
  PROVE  /\ Len(LowToHigh(S)) \in Nat /\ DOMAIN LowToHigh(S) = 1 .. Len(LowToHigh(S))
         /\ \A i \in 1 .. Len(LowToHigh(S)) : LowToHigh(S)[i] \in S
         /\ Len(HighToLow(S)) \in Nat /\ DOMAIN HighToLow(S) = 1 .. Len(HighToLow(S))
         /\ \A i \in 1 .. Len(HighToLow(S)) : HighToLow(S)[i] \in S
<1>1. Rows = 1 .. Len(Top.paths) /\ Len(Top.paths) \in Nat
  BY ListFacts DEF Rows, Layout
<1>2. IsFiniteSet(Rows)
  <2>1. IsFiniteSet(1 .. Len(Top.paths))
    <3>1. 1 \in Int /\ Len(Top.paths) \in Int
      BY <1>1
    <3> QED BY <3>1, FS_Interval
  <2> QED BY <1>1, <2>1
<1>3. IsFiniteSet(S) /\ S \in SUBSET Int
  <2>1. IsFiniteSet(S)
    BY <1>2, FS_Subset
  <2>2. \A i \in S : i \in Int
    BY <1>1
  <2> QED BY <2>1, <2>2
<1>4. StrictTotalOrder(Ascending(S), S)
  BY <1>3, AscendingIsOrder
<1>5. StrictTotalOrder({p \in S \X S : p[1] > p[2]}, S)
  BY <1>3 DEF StrictTotalOrder
<1> QED BY <1>3, <1>4, <1>5, RowsListed DEF LowToHigh, HighToLow

\* Every column of the sheet leads somewhere from every row.
LEMMA ColumnPaths ==
  ASSUME NEW anchor, NEW mode, Layout(anchor, mode, Top.paths, Top.roles),
         NEW r \in Rows, NEW c \in Cols
  PROVE  /\ IsPath(Top.paths[r]) /\ IsPath(Top.paths[r] \o Rel(c))
         /\ Rel(c) # <<>> => IsPath(Top.paths[r] \o Front(Rel(c)))
<1>1. IsPath(Top.paths[r])
  BY RowsPart DEF Rows
<1>2. IsPath(Rel(c))
  BY RelIsPath DEF Cols, Rel
<1>3. Rel(c) # <<>> => IsPath(Front(Rel(c)))
  BY <1>2, ParentOf
<1> QED BY <1>1, <1>2, <1>3, PathJoined

LEMMA FieldColumnIs ==
  ASSUME NEW anchor, NEW mode, Layout(anchor, mode, Top.paths, Top.roles), NEW c \in FieldColumns
  PROVE  c \in Cols /\ Rel(c) # <<>> /\ IsPath(Rel(c)) /\ mode = "Records"
<1>1. c \in Cols /\ Top.roles[c][1] = "Field"
  BY DEF FieldColumns
<1>2. IsField(Top.roles[c]) /\ mode = "Records"
  <2>1. \/ Top.roles[c] = RowRole \/ Top.roles[c] = KeyRole \/ Top.roles[c] = TypeRole
        \/ IsField(Top.roles[c]) /\ mode = "Records"
    BY <1>1, RelIsPath DEF Cols
  <2> QED BY <1>1, <2>1, FieldIsNoOther
<1> QED BY <1>1, <1>2 DEF IsField, Rel

\* The changes of each kind, for any tree.
LEMMA RemovePlants ==
  ASSUME NEW p, IsPath(p) PROVE Plants(FALSE, [does |-> "remove", path |-> p])
<1>1. \A t : Change(t, [does |-> "remove", path |-> p]) = RemoveNode(t, p)
  BY DEF Change
<1> QED BY <1>1, RemoveNodeGivesTree DEF Plants, Fits

LEMMA RenamePlants ==
  ASSUME NEW p, IsPath(p), NEW k PROVE Plants(TRUE, [does |-> "rename", path |-> p, key |-> k])
<1>1. \A t : Change(t, [does |-> "rename", path |-> p, key |-> k]) = RenameKey(t, p, k)
  BY DEF Change
<1> QED BY <1>1, RenameKeyKeeps DEF Plants, Fits, Keeps

LEMMA InsertPlants ==
  ASSUME NEW p, IsPath(p), NEW f, NEW k
  PROVE  Plants(TRUE, [does |-> "insert", path |-> p, rel |-> f, key |-> k])
<1>1. \A t : Change(t, [does |-> "insert", path |-> p, rel |-> f, key |-> k]) = WithKey(t, p, f, k)
  BY DEF Change
<1> QED BY <1>1, WithKeyKeeps DEF Plants, Fits, Keeps

LEMMA SwapPlants ==
  ASSUME NEW p, IsPath(p), NEW k, NEW m
  PROVE  Plants(TRUE, [does |-> "swap", path |-> p, key |-> k, other |-> m])
<1>1. \A t : Change(t, [does |-> "swap", path |-> p, key |-> k, other |-> m]) = Swapped(t, p, k, m)
  BY DEF Change
<1> QED BY <1>1, SwappedKeeps DEF Plants, Fits, Keeps

LEMMA RowsPlanted ==
  ASSUME NEW kept, NEW root, Tree(root), NEW rows, Len(rows) \in Nat, DOMAIN rows = 1 .. Len(rows),
         NEW edits, edits = [i \in DOMAIN rows |-> edits[i]],
         \A i \in 1 .. Len(rows) : Plants(kept, edits[i])
  PROVE  Fits(kept, root, OneByOne(root, edits).root)
<1>1. Len(edits) = Len(rows)
  BY MadeList
<1> QED BY <1>1, RunFits

LEMMA WithoutGivesTree ==
  ASSUME NEW anchor, NEW mode, Layout(anchor, mode, Top.paths, Top.roles), Tree(Root(Top)),
         NEW S \in SUBSET Rows
  PROVE  Tree(Without(S).root)
<1> DEFINE rows == HighToLow(S)
           edits == [i \in DOMAIN rows |-> [does |-> "remove", path |-> Top.paths[rows[i]]]]
<1>1. Without(S) = OneByOne(Root(Top), edits)
  BY DEF Without, Edits
<1>2. Len(rows) \in Nat /\ DOMAIN rows = 1 .. Len(rows) /\ \A i \in 1 .. Len(rows) : rows[i] \in Rows
  BY LowToHighLists
<1>3. ASSUME NEW i \in 1 .. Len(rows) PROVE Plants(FALSE, edits[i])
  <2>1. edits[i] = [does |-> "remove", path |-> Top.paths[rows[i]]]
    BY <1>2
  <2>2. IsPath(Top.paths[rows[i]])
    BY <1>2, RowsPart DEF Rows
  <2> QED BY <2>1, <2>2, RemovePlants
<1>4. edits = [i \in DOMAIN rows |-> edits[i]]
  OBVIOUS
<1> HIDE DEF edits, rows
<1> QED BY <1>1, <1>2, <1>3, <1>4, RowsPlanted DEF Fits

\* The outcomes of a column command: nothing, or a tree and finitely many expansions.
Outcome(kept, out) ==
    \/ out = Refused
    \/ \E root, expanded : /\ out = Done(root, expanded) /\ Fits(kept, Root(Top), root)
                           /\ IsFiniteSet(expanded)

LEMMA DeleteFieldGives ==
  ASSUME NEW anchor, NEW mode, Layout(anchor, mode, Top.paths, Top.roles), Tree(Root(Top)),
         IsFiniteSet(Top.view.expanded), NEW c \in FieldColumns
  PROVE  Outcome(FALSE, DeleteField(Rel(c)))
<1> DEFINE has == {r \in Rows : Get(Root(Top), Top.paths[r] \o Rel(c)) # Absent}
           rows == LowToHigh(has)
           edits == [i \in DOMAIN rows |-> [does |-> "remove", path |-> Top.paths[rows[i]] \o Rel(c)]]
<1>1. DeleteField(Rel(c)) = Refused \/ DeleteField(Rel(c)) = Done(OneByOne(Root(Top), edits).root, Top.view.expanded)
  BY DEF DeleteField, ForRows, Edits
<1>2. Len(rows) \in Nat /\ DOMAIN rows = 1 .. Len(rows) /\ \A i \in 1 .. Len(rows) : rows[i] \in Rows
  <2>1. has \in SUBSET Rows
    OBVIOUS
  <2> HIDE DEF has
  <2> QED BY <2>1, LowToHighLists
<1>3. ASSUME NEW i \in 1 .. Len(rows) PROVE Plants(FALSE, edits[i])
  <2>1. edits[i] = [does |-> "remove", path |-> Top.paths[rows[i]] \o Rel(c)]
    BY <1>2
  <2>2. IsPath(Top.paths[rows[i]] \o Rel(c))
    BY <1>2, FieldColumnIs, ColumnPaths
  <2> QED BY <2>1, <2>2, RemovePlants
<1>4. edits = [i \in DOMAIN rows |-> edits[i]]
  OBVIOUS
<1> HIDE DEF edits, rows
<1>5. Fits(FALSE, Root(Top), OneByOne(Root(Top), edits).root)
  BY <1>2, <1>3, <1>4, RowsPlanted
<1> QED BY <1>1, <1>5 DEF Outcome

LEMMA RenameFieldGives ==
  ASSUME NEW anchor, NEW mode, Layout(anchor, mode, Top.paths, Top.roles), Tree(Root(Top)),
         IsFiniteSet(Top.view.expanded), NEW c \in FieldColumns, NEW k
  PROVE  Outcome(TRUE, RenameField(Rel(c), k))
<1> DEFINE has == {r \in Rows : HasKey(Get(Root(Top), Holders(Rel(c))[r]), KeyOf(Rel(c)))}
           rows == LowToHigh(has)
           edits == [i \in DOMAIN rows |-> [does |-> "rename", path |-> Top.paths[rows[i]] \o Rel(c), key |-> k]]
           expanded == {RenamedPath(p, Rel(c), k) : p \in Top.view.expanded}
<1>1. RenameField(Rel(c), k) = Refused \/ RenameField(Rel(c), k) = Done(OneByOne(Root(Top), edits).root, expanded)
  BY DEF RenameField, ForRows, Edits
<1>2. Len(rows) \in Nat /\ DOMAIN rows = 1 .. Len(rows) /\ \A i \in 1 .. Len(rows) : rows[i] \in Rows
  <2>1. has \in SUBSET Rows
    OBVIOUS
  <2> HIDE DEF has
  <2> QED BY <2>1, LowToHighLists
<1>3. ASSUME NEW i \in 1 .. Len(rows) PROVE Plants(TRUE, edits[i])
  <2>1. edits[i] = [does |-> "rename", path |-> Top.paths[rows[i]] \o Rel(c), key |-> k]
    BY <1>2
  <2>2. IsPath(Top.paths[rows[i]] \o Rel(c))
    BY <1>2, FieldColumnIs, ColumnPaths
  <2> QED BY <2>1, <2>2, RenamePlants
<1>4. edits = [i \in DOMAIN rows |-> edits[i]]
  OBVIOUS
<1>5. IsFiniteSet(expanded)
  <2> DEFINE f == [p \in Top.view.expanded |-> RenamedPath(p, Rel(c), k)]
  <2>1. IsFiniteSet(Range(f))
    <3>1. f \in Surjection(Top.view.expanded, Range(f))
      BY DEF Surjection, Range
    <3> QED BY <3>1, FS_Surjection
  <2>2. expanded = Range(f)
    BY DEF Range
  <2> QED BY <2>1, <2>2
<1> HIDE DEF edits, rows, expanded
<1>6. Fits(TRUE, Root(Top), OneByOne(Root(Top), edits).root)
  BY <1>2, <1>3, <1>4, RowsPlanted
<1> QED BY <1>1, <1>5, <1>6 DEF Outcome

LEMMA InsertFieldGives ==
  ASSUME NEW anchor, NEW mode, Layout(anchor, mode, Top.paths, Top.roles), Tree(Root(Top)),
         IsFiniteSet(Top.view.expanded), NEW c \in Cols, NEW k
  PROVE  Outcome(TRUE, InsertField(Rel(c), k))
<1> DEFINE parents == IF Rel(c) = <<>> THEN Top.paths ELSE Holders(Rel(c))
           has == {r \in Rows : Kind(Get(Root(Top), parents[r])) = "dict"}
           rows == LowToHigh(has)
           edits == [i \in DOMAIN rows |->
                        [does |-> "insert", path |-> parents[rows[i]], rel |-> Rel(c), key |-> k]]
<1>1. InsertField(Rel(c), k) = Refused \/ InsertField(Rel(c), k) = Done(OneByOne(Root(Top), edits).root, Top.view.expanded)
  BY DEF InsertField, ForRows, Edits
<1>2. Len(rows) \in Nat /\ DOMAIN rows = 1 .. Len(rows) /\ \A i \in 1 .. Len(rows) : rows[i] \in Rows
  <2>1. has \in SUBSET Rows
    OBVIOUS
  <2> HIDE DEF has
  <2> QED BY <2>1, LowToHighLists
<1>3. ASSUME NEW i \in 1 .. Len(rows) PROVE Plants(TRUE, edits[i])
  <2>1. edits[i] = [does |-> "insert", path |-> parents[rows[i]], rel |-> Rel(c), key |-> k]
    BY <1>2
  <2>2. IsPath(parents[rows[i]])
    <3>1. CASE Rel(c) = <<>>
      BY <1>2, <3>1, ColumnPaths
    <3>2. CASE Rel(c) # <<>>
      <4>1. parents[rows[i]] = Top.paths[rows[i]] \o Front(Rel(c))
        BY <1>2, <3>2 DEF Holders
      <4> QED BY <1>2, <3>2, <4>1, ColumnPaths
    <3> QED BY <3>1, <3>2
  <2> HIDE DEF parents
  <2> QED BY <2>1, <2>2, InsertPlants
<1>4. edits = [i \in DOMAIN rows |-> edits[i]]
  OBVIOUS
<1> HIDE DEF edits, rows
<1>5. Fits(TRUE, Root(Top), OneByOne(Root(Top), edits).root)
  BY <1>2, <1>3, <1>4, RowsPlanted
<1> QED BY <1>1, <1>5 DEF Outcome

LEMMA MoveFieldGives ==
  ASSUME NEW anchor, NEW mode, Layout(anchor, mode, Top.paths, Top.roles), Tree(Root(Top)),
         IsFiniteSet(Top.view.expanded), NEW c \in FieldColumns, NEW other
  PROVE  Outcome(TRUE, MoveField(c, Rel(c), other))
<1> DEFINE has == {r \in Rows : /\ HasKey(Get(Root(Top), Holders(Rel(c))[r]), KeyOf(Rel(c)))
                                /\ HasKey(Get(Root(Top), Holders(Rel(c))[r]), KeyOf(other))}
           rows == LowToHigh(has)
           edits == [i \in DOMAIN rows |->
                        [does |-> "swap", path |-> Holders(Rel(c))[rows[i]], key |-> KeyOf(Rel(c)),
                         other |-> KeyOf(other)]]
<1>1. MoveField(c, Rel(c), other) = Refused \/ MoveField(c, Rel(c), other) = Done(OneByOne(Root(Top), edits).root, Top.view.expanded)
  BY DEF MoveField, ForRows, Edits
<1>2. Len(rows) \in Nat /\ DOMAIN rows = 1 .. Len(rows) /\ \A i \in 1 .. Len(rows) : rows[i] \in Rows
  <2>1. has \in SUBSET Rows
    OBVIOUS
  <2> HIDE DEF has
  <2> QED BY <2>1, LowToHighLists
<1>3. ASSUME NEW i \in 1 .. Len(rows) PROVE Plants(TRUE, edits[i])
  <2>1. edits[i] = [does |-> "swap", path |-> Holders(Rel(c))[rows[i]], key |-> KeyOf(Rel(c)), other |-> KeyOf(other)]
    BY <1>2
  <2>2. IsPath(Holders(Rel(c))[rows[i]])
    <3>1. Holders(Rel(c))[rows[i]] = Top.paths[rows[i]] \o Front(Rel(c))
      BY <1>2 DEF Holders
    <3> QED BY <1>2, <3>1, FieldColumnIs, ColumnPaths
  <2> QED BY <2>1, <2>2, SwapPlants
<1>4. edits = [i \in DOMAIN rows |-> edits[i]]
  OBVIOUS
<1> HIDE DEF edits, rows
<1>5. Fits(TRUE, Root(Top), OneByOne(Root(Top), edits).root)
  BY <1>2, <1>3, <1>4, RowsPlanted
<1> QED BY <1>1, <1>5 DEF Outcome

-----------------------------------------------------------------------------
(* The keys of the rows, and the children a column is widened into.        *)

Distinct(s) == IsList(s) /\ DupFree(s)

LEMMA JoinParts ==
  ASSUME NEW s, IsList(s), NEW t, IsList(t), NEW i \in 1 .. Len(s \o t)
  PROVE  \/ i \in 1 .. Len(s) /\ (s \o t)[i] = s[i]
         \/ \E j \in 1 .. Len(t) : i = Len(s) + j /\ (s \o t)[i] = t[j]
<1>1. /\ Len(s) \in Nat /\ Len(t) \in Nat /\ Len(s \o t) = Len(s) + Len(t)
      /\ \A k \in 1 .. Len(s) : (s \o t)[k] = s[k]
      /\ \A k \in 1 .. Len(t) : (s \o t)[Len(s) + k] = t[k]
  BY ListJoined, ListFacts
<1>2. i \in 1 .. Len(s) + Len(t)
  BY <1>1
<1>3. CASE i <= Len(s)
  <2>1. i \in 1 .. Len(s)
    BY <1>1, <1>2, <1>3
  <2> QED BY <1>1, <2>1
<1>4. CASE i > Len(s)
  <2>1. i - Len(s) \in 1 .. Len(t) /\ i = Len(s) + (i - Len(s))
    BY <1>1, <1>2, <1>4
  <2> QED BY <1>1, <2>1
<1> QED BY <1>1, <1>2, <1>3, <1>4

LEMMA DistinctJoined ==
  ASSUME NEW s, Distinct(s), NEW t, Distinct(t),
         \A i \in 1 .. Len(s), j \in 1 .. Len(t) : s[i] # t[j]
  PROVE  Distinct(s \o t)
<1> DEFINE r == s \o t
<1>1. IsList(s) /\ IsList(t) /\ IsList(r)
  BY ListJoined DEF Distinct
<1>2. DOMAIN s = 1 .. Len(s) /\ DOMAIN t = 1 .. Len(t) /\ DOMAIN r = 1 .. Len(r)
  BY <1>1, ListFacts
<1>3. \A i \in 1 .. Len(r) : \/ i \in 1 .. Len(s) /\ r[i] = s[i]
                             \/ \E j \in 1 .. Len(t) : i = Len(s) + j /\ r[i] = t[j]
  BY <1>1, JoinParts
<1> HIDE DEF r
<1>4. ASSUME NEW i \in 1 .. Len(r), NEW j \in 1 .. Len(r), r[i] = r[j] PROVE i = j
  <2>1. CASE i \in 1 .. Len(s) /\ r[i] = s[i]
    <3>1. CASE j \in 1 .. Len(s) /\ r[j] = s[j]
      BY <1>2, <1>4, <2>1, <3>1 DEF Distinct, DupFree
    <3>2. CASE \E k \in 1 .. Len(t) : j = Len(s) + k /\ r[j] = t[k]
      BY <1>4, <2>1, <3>2
    <3> QED BY <1>3, <3>1, <3>2
  <2>2. CASE \E k \in 1 .. Len(t) : i = Len(s) + k /\ r[i] = t[k]
    <3>1. CASE j \in 1 .. Len(s) /\ r[j] = s[j]
      BY <1>4, <2>2, <3>1
    <3>2. CASE \E k \in 1 .. Len(t) : j = Len(s) + k /\ r[j] = t[k]
      BY <1>2, <1>4, <2>2, <3>2 DEF Distinct, DupFree
    <3> QED BY <1>3, <3>1, <3>2
  <2> QED BY <1>3, <2>1, <2>2
<1>5. DupFree(r)
  BY <1>2, <1>4 DEF DupFree
<1> QED BY <1>1, <1>5 DEF Distinct, r

LEMMA NoneIsDistinct == Distinct(<<>>)
BY NoneIsPath DEF Distinct, DupFree, IsPath

LEMMA EmptyList ==
  ASSUME NEW s, IsList(s), Len(s) = 0 PROVE s = <<>>
BY DEF IsList

LEMMA Retained ==
  ASSUME NEW s, Distinct(s), NEW keep
  PROVE  /\ Distinct(Retain(s, keep))
         /\ \A i \in 1 .. Len(Retain(s, keep)) : Retain(s, keep)[i] \in keep
         /\ s = <<>> => Retain(s, keep) = <<>>
<1> DEFINE T == {s[i] : i \in 1 .. Len(s)}
           r == Retain(s, keep)
<1>1. s \in Seq(T)
  BY ListedIsSeq DEF Distinct
<1> HIDE DEF T
<1>2. r \in Seq(T) /\ DupFree(r) /\ Range(r) = Range(s) \cap keep
  BY <1>1, RetainProperties DEF Distinct
<1> HIDE DEF r
<1>3. IsList(r) /\ DOMAIN r = 1 .. Len(r)
  BY <1>2, SeqIsListed, ListFacts
<1>4. \A i \in 1 .. Len(r) : r[i] \in Range(r)
  BY <1>3 DEF Range
<1>5. ASSUME s = <<>> PROVE r = <<>>
  <2>1. Range(s) = {}
    BY <1>5 DEF Range
  <2>2. Len(r) \in Nat /\ ~(1 \in 1 .. Len(r))
    BY <1>2, <1>3, <1>4, <2>1, ListFacts
  <2>3. Len(r) = 0
    BY <2>2
  <2> QED BY <1>3, <2>3, EmptyList
<1>6. \A i \in 1 .. Len(r) : r[i] \in keep
  BY <1>2, <1>4
<1>7. Distinct(r)
  BY <1>2, <1>3 DEF Distinct
<1> QED BY <1>5, <1>6, <1>7 DEF r

\* A node of the tree, or none.
Cell(n) == n = Absent \/ NodeOK(n)

LEMMA NodeKeys ==
  ASSUME NEW n, Cell(n)
  PROVE  Distinct(KeysOf(n))
<1>1. CASE Kind(n) = "dict"
  <2>1. n # Absent
    BY <1>1, KindOfAbsent DEF IsContainer
  <2>2. /\ DOMAIN Content(n) = 1 .. Len(Content(n)) /\ Len(Content(n)) \in Nat
        /\ \A i, j \in DOMAIN Content(n) : Content(n)[i][1] = Content(n)[j][1] => i = j
    BY <1>1, <2>1, DictFacts DEF Cell
  <2> DEFINE keys == [i \in DOMAIN Content(n) |-> Content(n)[i][1]]
  <2>3. KeysOf(n) = keys
    BY <1>1 DEF KeysOf
  <2>4. keys = [i \in 1 .. Len(Content(n)) |-> keys[i]] /\ DupFree(keys)
    BY <2>2 DEF DupFree
  <2> HIDE DEF keys
  <2>5. IsList(keys)
    BY <2>2, <2>4, MadeList
  <2> QED BY <2>3, <2>4, <2>5 DEF Distinct
<1>2. CASE Kind(n) # "dict"
  BY <1>2, NoneIsDistinct DEF KeysOf
<1> QED BY <1>1, <1>2

\* One more node's keys after those there are.
MoreKeys(keys, n) == keys \o Retain(KeysOf(n), ToSet(KeysOf(n)) \ ToSet(keys))

IsKeysUpTo(u, nodes, n) == u = [i \in 0 .. n |-> IF i = 0 THEN <<>> ELSE MoreKeys(u[i - 1], nodes[i])]

LEMMA KeysUpToExist ==
  ASSUME NEW nodes
  PROVE  \A n \in Nat : \E u : IsKeysUpTo(u, nodes, n)
<1> DEFINE S == {n \in Nat : \E u : IsKeysUpTo(u, nodes, n)}
<1>1. 0 \in S
  <2> DEFINE u == [i \in 0 .. 0 |-> <<>>]
  <2>1. u = [i \in 0 .. 0 |-> IF i = 0 THEN <<>> ELSE MoreKeys(u[i - 1], nodes[i])]
    OBVIOUS
  <2> HIDE DEF u
  <2>2. IsKeysUpTo(u, nodes, 0)
    BY <2>1 DEF IsKeysUpTo
  <2> QED BY <2>2
<1>2. \A n \in Nat : n \in S => n + 1 \in S
  <2> SUFFICES ASSUME NEW n \in Nat, NEW a, IsKeysUpTo(a, nodes, n)
               PROVE  \E u : IsKeysUpTo(u, nodes, n + 1)
    OBVIOUS
  <2> DEFINE u == [i \in 0 .. n + 1 |-> IF i = n + 1 THEN MoreKeys(a[n], nodes[n + 1]) ELSE a[i]]
  <2>1. \A i \in 0 .. n : a[i] = IF i = 0 THEN <<>> ELSE MoreKeys(a[i - 1], nodes[i])
    BY DEF IsKeysUpTo
  <2>2. \A i \in 0 .. n + 1 : u[i] = IF i = 0 THEN <<>> ELSE MoreKeys(u[i - 1], nodes[i])
    <3> TAKE i \in 0 .. n + 1
    <3>1. CASE i = n + 1
      BY <3>1
    <3>2. CASE i \in 0 .. n
      <4>1. i # n + 1 /\ (i # 0 => i - 1 \in 0 .. n + 1 /\ i - 1 # n + 1)
        BY <3>2
      <4> QED BY <4>1, <3>2, <2>1
    <3> QED BY <3>1, <3>2
  <2>3. u = [i \in 0 .. n + 1 |-> IF i = 0 THEN <<>> ELSE MoreKeys(u[i - 1], nodes[i])]
    <3>1. u = [i \in 0 .. n + 1 |-> u[i]]
      OBVIOUS
    <3> HIDE DEF u
    <3> QED BY <3>1, <2>2
  <2> HIDE DEF u
  <2> QED BY <2>3 DEF IsKeysUpTo
<1> HIDE DEF S
<1>3. Nat \subseteq S
  BY <1>1, <1>2, EveryNatural
<1> QED BY <1>3 DEF S

LEMMA AllKeysSteps ==
  ASSUME NEW nodes, Len(nodes) \in Nat
  PROVE  \E u : /\ u[0] = <<>> /\ u[Len(nodes)] = AllKeys(nodes)
                /\ \A i \in 1 .. Len(nodes) : u[i] = MoreKeys(u[i - 1], nodes[i])
<1> DEFINE upTo == CHOOSE u : IsKeysUpTo(u, nodes, Len(nodes))
<1>1. \E u : IsKeysUpTo(u, nodes, Len(nodes))
  BY KeysUpToExist
<1>2. IsKeysUpTo(upTo, nodes, Len(nodes))
  BY <1>1, Zenon
<1>3. AllKeys(nodes) = upTo[Len(nodes)]
  BY DEF AllKeys, IsKeysUpTo, MoreKeys
<1> HIDE DEF upTo
<1>4. /\ upTo[0] = <<>>
      /\ \A i \in 1 .. Len(nodes) : upTo[i] = MoreKeys(upTo[i - 1], nodes[i])
  BY <1>2 DEF IsKeysUpTo
<1> QED BY <1>3, <1>4

LEMMA MoreKeysDistinct ==
  ASSUME NEW keys, Distinct(keys), NEW n, Cell(n)
  PROVE  Distinct(MoreKeys(keys, n)) /\ (keys = <<>> /\ KeysOf(n) = <<>> => MoreKeys(keys, n) = <<>>)
<1> DEFINE keep == ToSet(KeysOf(n)) \ ToSet(keys)
           more == Retain(KeysOf(n), keep)
<1>1. /\ Distinct(more) /\ \A i \in 1 .. Len(more) : more[i] \in keep
      /\ KeysOf(n) = <<>> => more = <<>>
  <2> HIDE DEF keep
  <2> QED BY NodeKeys, Retained
<1>2. \A i \in 1 .. Len(keys) : keys[i] \in ToSet(keys)
  BY ListFacts DEF Distinct, ToSet
<1>3. \A i \in 1 .. Len(keys), j \in 1 .. Len(more) : keys[i] # more[j]
  BY <1>1, <1>2
<1>4. MoreKeys(keys, n) = keys \o more
  BY DEF MoreKeys
<1> HIDE DEF more, keep
<1>5. Distinct(keys \o more)
  BY <1>1, <1>3, DistinctJoined
<1>6. keys = <<>> /\ KeysOf(n) = <<>> => keys \o more = <<>>
  BY <1>1
<1> QED BY <1>4, <1>5, <1>6

LEMMA AllKeysDistinct ==
  ASSUME NEW nodes, IsList(nodes), \A i \in 1 .. Len(nodes) : Cell(nodes[i])
  PROVE  /\ Distinct(AllKeys(nodes))
         /\ (\A i \in 1 .. Len(nodes) : KeysOf(nodes[i]) = <<>>) => AllKeys(nodes) = <<>>
<1>1. Len(nodes) \in Nat
  BY ListFacts
<1>2. PICK u : /\ u[0] = <<>> /\ u[Len(nodes)] = AllKeys(nodes)
               /\ \A i \in 1 .. Len(nodes) : u[i] = MoreKeys(u[i - 1], nodes[i])
  BY <1>1, AllKeysSteps
<1> DEFINE Fine(i) == /\ Distinct(u[i])
                      /\ (\A j \in 1 .. Len(nodes) : KeysOf(nodes[j]) = <<>>) => u[i] = <<>>
           S == {i \in Nat : i \in 0 .. Len(nodes) => Fine(i)}
<1>3. 0 \in S
  BY <1>2, NoneIsDistinct
<1>4. \A i \in Nat : i \in S => i + 1 \in S
  <2> SUFFICES ASSUME NEW i \in Nat, Fine(i), i + 1 \in 0 .. Len(nodes) PROVE Fine(i + 1)
    BY <1>1
  <2>1. i + 1 \in 1 .. Len(nodes) /\ (i + 1) - 1 = i
    BY <1>1
  <2>2. u[i + 1] = MoreKeys(u[i], nodes[i + 1]) /\ Cell(nodes[i + 1])
    BY <1>2, <2>1
  <2>3. /\ Distinct(MoreKeys(u[i], nodes[i + 1]))
        /\ u[i] = <<>> /\ KeysOf(nodes[i + 1]) = <<>> => MoreKeys(u[i], nodes[i + 1]) = <<>>
    BY <2>2, MoreKeysDistinct
  <2> QED BY <2>1, <2>2, <2>3
<1> HIDE DEF S
<1>5. Nat \subseteq S
  BY <1>3, <1>4, EveryNatural
<1>6. Fine(Len(nodes))
  BY <1>1, <1>5 DEF S
<1> QED BY <1>2, <1>6

-----------------------------------------------------------------------------
(* Columns widened into their children.                                    *)

\* Steps to different children.
Steps(segs) == IsList(segs) /\ DupFree(segs) /\ \A i \in 1 .. Len(segs) : IsSeg(segs[i])

\* Paths from the row that start with a key and part from each other.
KeyHeaded(p) == IsPath(p) /\ p # <<>> /\ p[1][1] = "key"
Columns(cols) ==
    /\ IsList(cols) /\ \A i \in 1 .. Len(cols) : KeyHeaded(cols[i])
    /\ \A i, j \in 1 .. Len(cols) : i # j => Apart(cols[i], cols[j])

LEMMA LongestOf ==
  ASSUME NEW nodes, IsList(nodes), \A i \in 1 .. Len(nodes) : Cell(nodes[i])
  PROVE  LET sizes == {0} \cup {Len(Content(nodes[i])) : i \in {j \in DOMAIN nodes : Kind(nodes[j]) = "list"}}
         IN  (CHOOSE m \in sizes : \A n \in sizes : n <= m) \in Nat
<1> DEFINE sizes == {0} \cup {Len(Content(nodes[i])) : i \in {j \in DOMAIN nodes : Kind(nodes[j]) = "list"}}
           upTo(k) == {0} \cup {Len(Content(nodes[i])) : i \in {j \in 1 .. k : Kind(nodes[j]) = "list"}}
           Has(k) == \E m \in upTo(k) : \A n \in upTo(k) : n <= m
           S == {k \in Nat : k \in 0 .. Len(nodes) => Has(k)}
<1>1. Len(nodes) \in Nat /\ DOMAIN nodes = 1 .. Len(nodes)
  BY ListFacts
<1>2. \A i \in 1 .. Len(nodes) : Kind(nodes[i]) = "list" => Len(Content(nodes[i])) \in Nat
  <2> SUFFICES ASSUME NEW i \in 1 .. Len(nodes), Kind(nodes[i]) = "list" PROVE Len(Content(nodes[i])) \in Nat
    OBVIOUS
  <2>1. NodeOK(nodes[i])
    BY KindOfAbsent DEF Cell, IsContainer
  <2> QED BY <2>1, ArrayFacts
<1>3. 0 \in S
  <2>1. upTo(0) = {0}
    OBVIOUS
  <2> HIDE DEF upTo
  <2> QED BY <2>1
<1>4. \A k \in Nat : k \in S => k + 1 \in S
  <2> HIDE DEF Has
  <2> SUFFICES ASSUME NEW k \in Nat, k \in S, k + 1 \in 0 .. Len(nodes) PROVE Has(k + 1)
    OBVIOUS
  <2>1. k \in 0 .. Len(nodes) /\ k + 1 \in 1 .. Len(nodes)
    BY <1>1
  <2>a. Has(k)
    BY <2>1
  <2> USE DEF Has
  <2>2. PICK m \in upTo(k) : \A n \in upTo(k) : n <= m
    BY <2>a
  <2> DEFINE more == IF Kind(nodes[k + 1]) = "list" THEN {Len(Content(nodes[k + 1]))} ELSE {}
  <2>3. upTo(k + 1) = upTo(k) \cup more
    <3>1. 1 .. k + 1 = (1 .. k) \cup {k + 1}
      OBVIOUS
    <3> QED BY <3>1
  <2>4. m \in Nat /\ \A n \in more : n \in Nat
    <3>1. \A x \in upTo(k) : x \in Nat
      BY <1>1, <1>2, <2>1
    <3>2. \A n \in more : n \in Nat
      BY <1>2, <2>1
    <3> HIDE DEF upTo
    <3> QED BY <2>2, <3>1, <3>2
  <2>5. CASE \E n \in more : n > m
    <3>1. PICK n \in more : n > m
      BY <2>5
    <3>2. \A x \in more : x = n
      BY <3>1
    <3>3. \A x \in upTo(k) : x \in Nat
      BY <1>1, <1>2, <2>1
    <3> HIDE DEF upTo, more
    <3>4. n \in upTo(k + 1) /\ \A x \in upTo(k + 1) : x <= n
      BY <2>2, <2>3, <2>4, <3>1, <3>2, <3>3
    <3> QED BY <3>4
  <2>6. CASE ~ \E n \in more : n > m
    <3> HIDE DEF upTo, more
    <3>1. m \in upTo(k + 1) /\ \A x \in upTo(k + 1) : x <= m
      BY <2>2, <2>3, <2>4, <2>6
    <3> QED BY <3>1
  <2> QED BY <2>5, <2>6
<1>5. Nat \subseteq S
  <2> HIDE DEF S
  <2> QED BY <1>3, <1>4, EveryNatural
<1>6. \E m \in sizes : \A n \in sizes : n <= m
  <2>1. sizes = upTo(Len(nodes))
    BY <1>1
  <2>2. Len(nodes) \in S
    BY <1>1, <1>5
  <2> QED BY <1>1, <2>1, <2>2
<1>7. \A x \in sizes : x \in Nat
  BY <1>1, <1>2
<1> HIDE DEF sizes
<1>8. (CHOOSE m \in sizes : \A n \in sizes : n <= m) \in sizes
  BY <1>6
<1>9. (CHOOSE m \in sizes : \A n \in sizes : n <= m) \in Nat
  BY <1>7, <1>8
<1> QED BY <1>9 DEF sizes

LEMMA ChildSteps ==
  ASSUME NEW nodes, IsList(nodes), \A i \in 1 .. Len(nodes) : Cell(nodes[i])
  PROVE  Steps(ChildSegments(nodes))
<1> DEFINE keys == AllKeys(nodes)
           byKey == [i \in DOMAIN keys |-> Key(keys[i])]
           sizes == {0} \cup {Len(Content(nodes[i])) : i \in {j \in DOMAIN nodes : Kind(nodes[j]) = "list"}}
           longest == CHOOSE m \in sizes : \A n \in sizes : n <= m
           byPosition == [i \in 1 .. longest |-> Idx(i)]
<1>1. Distinct(keys)
  BY AllKeysDistinct
<1>2. longest \in Nat
  BY LongestOf
<1>3. ChildSegments(nodes) = byKey \/ ChildSegments(nodes) = byPosition
  BY DEF ChildSegments
<1>4. Steps(byKey)
  <2> HIDE DEF keys
  <2>1. Len(keys) \in Nat /\ DOMAIN keys = 1 .. Len(keys)
    BY <1>1, ListFacts DEF Distinct
  <2>2. /\ byKey = [i \in 1 .. Len(keys) |-> byKey[i]]
        /\ \A i \in 1 .. Len(keys) : byKey[i] = Key(keys[i])
    BY <2>1
  <2> HIDE DEF byKey
  <2>3. IsList(byKey) /\ Len(byKey) = Len(keys) /\ DOMAIN byKey = 1 .. Len(keys)
    BY <2>1, <2>2, MadeList, ListFacts
  <2>4. ASSUME NEW i \in 1 .. Len(keys), NEW j \in 1 .. Len(keys), byKey[i] = byKey[j] PROVE i = j
    <3>1. Key(keys[i])[2] = Key(keys[j])[2]
      BY <2>2, <2>4
    <3>2. keys[i] = keys[j]
      BY <3>1, SegsMade
    <3> QED BY <1>1, <2>1, <3>2 DEF Distinct, DupFree
  <2> QED BY <2>2, <2>3, <2>4, SegsMade DEF Steps, DupFree
<1>5. Steps(byPosition)
  <2> HIDE DEF longest, sizes, byKey, keys
  <2>2. /\ byPosition = [i \in 1 .. longest |-> byPosition[i]]
        /\ \A i \in 1 .. longest : byPosition[i] = Idx(i)
    OBVIOUS
  <2> HIDE DEF byPosition
  <2>3. IsList(byPosition) /\ Len(byPosition) = longest /\ DOMAIN byPosition = 1 .. longest
    BY <1>2, <2>2, MadeList, ListFacts
  <2>4. ASSUME NEW i \in 1 .. longest, NEW j \in 1 .. longest, byPosition[i] = byPosition[j] PROVE i = j
    <3>1. Idx(i)[2] = Idx(j)[2]
      BY <2>2, <2>4
    <3> QED BY <3>1, SegsMade
  <2>5. \A i \in 1 .. longest : IsSeg(byPosition[i])
    BY <2>2, SegsMade
  <2>6. DupFree(byPosition)
    BY <2>3, <2>4 DEF DupFree
  <2> QED BY <2>3, <2>5, <2>6 DEF Steps
<1> QED BY <1>3, <1>4, <1>5

LEMMA OneColumn ==
  ASSUME NEW p, KeyHeaded(p)
  PROVE  Columns(<<p>>) /\ \A i \in 1 .. Len(<<p>>) : <<p>>[i] = p
<1>1. IsList(<<p>>) /\ Len(<<p>>) = 1 /\ <<p>>[1] = p
  BY DEF IsList
<1>2. \A i \in 1 .. 1 : i = 1
  OBVIOUS
<1> QED BY <1>1, <1>2 DEF Columns

LEMMA AppendedHead ==
  ASSUME NEW p, KeyHeaded(p), NEW seg, IsSeg(seg)
  PROVE  KeyHeaded(Append(p, seg))
<1>1. Len(p) \in Nat /\ Len(p) # 0 /\ 1 \in 1 .. Len(p)
  BY PathSegs, PathEmpty DEF KeyHeaded
<1>2. IsPath(Append(p, seg)) /\ Append(p, seg) # <<>> /\ Append(p, seg)[1] = p[1]
  BY <1>1, PathAppended, AppendedParts DEF KeyHeaded
<1> QED BY <1>2 DEF KeyHeaded

\* A column's children are columns, all of them under it.
LEMMA ChildColumns ==
  ASSUME NEW p, KeyHeaded(p), NEW segs, Steps(segs)
  PROVE  /\ Columns(Children(p, segs))
         /\ \A i \in 1 .. Len(Children(p, segs)) : \A q :
               IsPath(q) /\ Apart(p, q) => Apart(Children(p, segs)[i], q)
<1>1. CASE segs = <<>>
  <2>1. Children(p, segs) = <<p>>
    BY <1>1 DEF Children
  <2>2. Columns(<<p>>) /\ \A i \in 1 .. Len(<<p>>) : <<p>>[i] = p
    BY OneColumn
  <2> QED BY <2>1, <2>2, Zenon
<1>2. CASE segs # <<>>
  <2> DEFINE cols == [i \in DOMAIN segs |-> Append(p, segs[i])]
  <2>1. Children(p, segs) = cols
    BY <1>2 DEF Children
  <2>2. Len(segs) \in Nat /\ DOMAIN segs = 1 .. Len(segs)
    BY ListFacts DEF Steps
  <2>3. /\ cols = [i \in 1 .. Len(segs) |-> cols[i]]
        /\ \A i \in 1 .. Len(segs) : cols[i] = Append(p, segs[i])
    BY <2>2
  <2> HIDE DEF cols
  <2>4. IsList(cols) /\ Len(cols) = Len(segs)
    BY <2>2, <2>3, MadeList
  <2>5. \A i \in 1 .. Len(segs) : IsSeg(segs[i])
    BY DEF Steps
  <2>6. ASSUME NEW i \in 1 .. Len(segs), NEW j \in 1 .. Len(segs), i # j PROVE Apart(cols[i], cols[j])
    <3>1. segs[i] # segs[j]
      BY <2>2, <2>6 DEF Steps, DupFree
    <3>2. Apart(Append(p, segs[i]), Append(p, segs[j]))
      BY <2>5, <3>1, AppendedParts DEF KeyHeaded
    <3> QED BY <2>3, <3>2
  <2>7. Columns(cols)
    BY <2>3, <2>4, <2>5, <2>6, AppendedHead DEF Columns
  <2>8. ASSUME NEW i \in 1 .. Len(segs), NEW q, IsPath(q), Apart(p, q) PROVE Apart(cols[i], q)
    <3>1. cols[i] = Append(p, segs[i]) /\ IsSeg(segs[i])
      BY <2>3, <2>5
    <3>2. Len(p) \in Nat /\ DOMAIN p = 1 .. Len(p)
      BY PathSegs DEF KeyHeaded
    <3>3. /\ IsPath(Append(p, segs[i])) /\ Len(Append(p, segs[i])) = Len(p) + 1
          /\ \A k \in 1 .. Len(p) : Append(p, segs[i])[k] = p[k]
      BY <3>1, PathAppended DEF KeyHeaded
    <3>4. DOMAIN Append(p, segs[i]) = 1 .. Len(p) + 1
      BY <3>3, PathSegs
    <3>5. PICK k \in DOMAIN p \cap DOMAIN q : p[k] # q[k]
      BY <2>8 DEF Apart
    <3>6. k \in DOMAIN Append(p, segs[i]) /\ Append(p, segs[i])[k] = p[k]
      BY <3>2, <3>3, <3>4, <3>5
    <3> QED BY <3>1, <3>5, <3>6 DEF Apart
  <2> QED BY <2>1, <2>4, <2>7, <2>8
<1> QED BY <1>1, <1>2

-----------------------------------------------------------------------------
(* A level of expansions after the other.                                  *)

LEMMA ColumnsJoined ==
  ASSUME NEW s, Columns(s), NEW t, Columns(t),
         \A i \in 1 .. Len(s), j \in 1 .. Len(t) : Apart(s[i], t[j])
  PROVE  Columns(s \o t)
<1> DEFINE r == s \o t
<1>1. IsList(s) /\ IsList(t) /\ IsList(r)
  BY ListJoined DEF Columns
<1>2. \A i \in 1 .. Len(r) : \/ i \in 1 .. Len(s) /\ r[i] = s[i]
                             \/ \E j \in 1 .. Len(t) : i = Len(s) + j /\ r[i] = t[j]
  BY <1>1, JoinParts
<1> HIDE DEF r
<1>3. \A i \in 1 .. Len(r) : KeyHeaded(r[i])
  BY <1>2 DEF Columns
<1>4. ASSUME NEW i \in 1 .. Len(r), NEW j \in 1 .. Len(r), i # j PROVE Apart(r[i], r[j])
  <2>1. CASE i \in 1 .. Len(s) /\ r[i] = s[i]
    <3>1. CASE j \in 1 .. Len(s) /\ r[j] = s[j]
      BY <1>4, <2>1, <3>1 DEF Columns
    <3>2. CASE \E k \in 1 .. Len(t) : j = Len(s) + k /\ r[j] = t[k]
      BY <2>1, <3>2
    <3> QED BY <1>2, <3>1, <3>2
  <2>2. CASE \E k \in 1 .. Len(t) : i = Len(s) + k /\ r[i] = t[k]
    <3>1. CASE j \in 1 .. Len(s) /\ r[j] = s[j]
      BY <2>2, <3>1, ApartSwapped
    <3>2. CASE \E k \in 1 .. Len(t) : j = Len(s) + k /\ r[j] = t[k]
      <4>1. PICK a \in 1 .. Len(t) : i = Len(s) + a /\ r[i] = t[a]
        BY <2>2
      <4>2. PICK b \in 1 .. Len(t) : j = Len(s) + b /\ r[j] = t[b]
        BY <3>2
      <4>3. a # b
        BY <1>4, <4>1, <4>2
      <4> QED BY <4>1, <4>2, <4>3 DEF Columns
    <3> QED BY <1>2, <3>1, <3>2
  <2> QED BY <1>2, <2>1, <2>2
<1> QED BY <1>1, <1>3, <1>4 DEF Columns, r

IsFlat(f, seqs, n) == f = [i \in 1 .. n |-> IF i = 1 THEN seqs[i] ELSE f[i - 1] \o seqs[i]]

LEMMA FlatExists ==
  ASSUME NEW seqs
  PROVE  \A n \in Nat : \E f : IsFlat(f, seqs, n)
<1> DEFINE S == {n \in Nat : \E f : IsFlat(f, seqs, n)}
<1>1. 0 \in S
  <2> DEFINE f == [i \in 1 .. 0 |-> <<>>]
  <2>1. f = [i \in 1 .. 0 |-> IF i = 1 THEN seqs[i] ELSE f[i - 1] \o seqs[i]]
    OBVIOUS
  <2> HIDE DEF f
  <2>2. IsFlat(f, seqs, 0)
    BY <2>1 DEF IsFlat
  <2> QED BY <2>2
<1>2. \A n \in Nat : n \in S => n + 1 \in S
  <2> SUFFICES ASSUME NEW n \in Nat, NEW a, IsFlat(a, seqs, n)
               PROVE  \E u : IsFlat(u, seqs, n + 1)
    OBVIOUS
  <2> DEFINE last == IF n + 1 = 1 THEN seqs[n + 1] ELSE a[n] \o seqs[n + 1]
             u == [i \in 1 .. n + 1 |-> IF i = n + 1 THEN last ELSE a[i]]
  <2>1. \A i \in 1 .. n : a[i] = IF i = 1 THEN seqs[i] ELSE a[i - 1] \o seqs[i]
    BY DEF IsFlat
  <2>2. \A i \in 1 .. n + 1 : u[i] = IF i = 1 THEN seqs[i] ELSE u[i - 1] \o seqs[i]
    <3> TAKE i \in 1 .. n + 1
    <3>1. CASE i = n + 1
      <4>1. u[i] = last
        BY <3>1
      <4>2. i # 1 => i - 1 = n /\ n \in 1 .. n + 1 /\ n # n + 1
        BY <3>1
      <4>3. i # 1 => u[i - 1] = a[n]
        BY <4>2
      <4> HIDE DEF u
      <4> QED BY <3>1, <4>1, <4>2, <4>3
    <3>2. CASE i \in 1 .. n
      <4>1. i # n + 1 /\ (i # 1 => i - 1 \in 1 .. n + 1 /\ i - 1 # n + 1)
        BY <3>2
      <4>2. u[i] = a[i] /\ (i # 1 => u[i - 1] = a[i - 1])
        BY <4>1
      <4> HIDE DEF u
      <4> QED BY <4>2, <3>2, <2>1
    <3> QED BY <3>1, <3>2
  <2>3. u = [i \in 1 .. n + 1 |-> IF i = 1 THEN seqs[i] ELSE u[i - 1] \o seqs[i]]
    <3>1. u = [i \in 1 .. n + 1 |-> u[i]]
      OBVIOUS
    <3> HIDE DEF u
    <3> QED BY <3>1, <2>2
  <2> HIDE DEF u
  <2> QED BY <2>3 DEF IsFlat
<1> HIDE DEF S
<1>3. Nat \subseteq S
  BY <1>1, <1>2, EveryNatural
<1> QED BY <1>3 DEF S

\* Lists of columns that part from each other across the lists too.
Groups(seqs) ==
    /\ IsList(seqs) /\ \A i \in 1 .. Len(seqs) : Columns(seqs[i])
    /\ \A i, j \in 1 .. Len(seqs) : i # j =>
          \A a \in 1 .. Len(seqs[i]), b \in 1 .. Len(seqs[j]) : Apart(seqs[i][a], seqs[j][b])

\* Each column of s is one of the first n lists.
Gathered(s, seqs, n) ==
    /\ Columns(s)
    /\ \A a \in 1 .. Len(s) : \E j \in 1 .. n : \E b \in 1 .. Len(seqs[j]) : s[a] = seqs[j][b]

LEMMA NoColumns == Columns(<<>>)
BY NoneIsPath DEF Columns, IsPath

LEMMA GatheredMore ==
  ASSUME NEW seqs, Groups(seqs), NEW n \in Nat, n + 1 \in 1 .. Len(seqs), NEW s, Gathered(s, seqs, n)
  PROVE  Gathered(s \o seqs[n + 1], seqs, n + 1)
<1> DEFINE t == seqs[n + 1]
<1>0. Len(seqs) \in Nat /\ \A j \in 1 .. n : j \in 1 .. Len(seqs) /\ j \in 1 .. n + 1 /\ j # n + 1
  BY ListFacts DEF Groups
<1>1. Columns(t) /\ Columns(s) /\ IsList(s) /\ IsList(t)
  BY DEF Groups, Gathered, Columns
<1>2. ASSUME NEW i \in 1 .. Len(s), NEW k \in 1 .. Len(t) PROVE Apart(s[i], t[k])
  <2>1. PICK j \in 1 .. n : \E b \in 1 .. Len(seqs[j]) : s[i] = seqs[j][b]
    BY DEF Gathered
  <2> QED BY <1>0, <2>1 DEF Groups
<1>3. \A i \in 1 .. Len(s \o t) : \/ i \in 1 .. Len(s) /\ (s \o t)[i] = s[i]
                                  \/ \E k \in 1 .. Len(t) : i = Len(s) + k /\ (s \o t)[i] = t[k]
  <2> HIDE DEF t
  <2> QED BY <1>1, JoinParts
<1>4. Columns(s \o t)
  <2> HIDE DEF t
  <2> QED BY <1>1, <1>2, ColumnsJoined
<1>5. ASSUME NEW a \in 1 .. Len(s \o t)
      PROVE  \E j \in 1 .. n + 1 : \E b \in 1 .. Len(seqs[j]) : (s \o t)[a] = seqs[j][b]
  <2>1. CASE a \in 1 .. Len(s) /\ (s \o t)[a] = s[a]
    <3>1. PICK j \in 1 .. n : \E b \in 1 .. Len(seqs[j]) : s[a] = seqs[j][b]
      BY <2>1 DEF Gathered
    <3> QED BY <1>0, <2>1, <3>1
  <2>2. CASE \E k \in 1 .. Len(t) : a = Len(s) + k /\ (s \o t)[a] = t[k]
    <3>1. n + 1 \in 1 .. n + 1
      OBVIOUS
    <3> QED BY <2>2, <3>1
  <2> QED BY <1>3, <2>1, <2>2
<1> QED BY <1>4, <1>5 DEF Gathered

LEMMA Flattened ==
  ASSUME NEW seqs, Groups(seqs)
  PROVE  Columns(FlattenSeq(seqs)) /\ (seqs = <<>> => FlattenSeq(seqs) = <<>>)
<1> DEFINE n == Len(seqs)
<1>1. n \in Nat /\ IsList(seqs)
  BY ListFacts DEF Groups
<1>2. CASE n = 0
  <2>1. FlattenSeq(seqs) = seqs
    BY <1>2 DEF FlattenSeq
  <2>2. seqs = <<>>
    BY <1>1, <1>2, EmptyList
  <2> QED BY <2>1, <2>2, NoColumns
<1>3. CASE n # 0
  <2> DEFINE flatten == CHOOSE f : IsFlat(f, seqs, n)
  <2>1. \E f : IsFlat(f, seqs, n)
    <3> HIDE DEF n
    <3> QED BY <1>1, FlatExists
  <2>2. IsFlat(flatten, seqs, n)
    <3> HIDE DEF n
    <3> QED BY <2>1, Zenon
  <2>3. FlattenSeq(seqs) = flatten[n]
    BY <1>3 DEF FlattenSeq, IsFlat
  <2> HIDE DEF flatten, n
  <2>4. \A i \in 1 .. n : flatten[i] = IF i = 1 THEN seqs[i] ELSE flatten[i - 1] \o seqs[i]
    BY <2>2 DEF IsFlat
  <2> DEFINE S == {i \in Nat : i \in 1 .. n => Gathered(flatten[i], seqs, i)}
  <2>5. 0 \in S
    OBVIOUS
  <2>6. \A i \in Nat : i \in S => i + 1 \in S
    <3> SUFFICES ASSUME NEW i \in Nat, i \in S, i + 1 \in 1 .. n PROVE Gathered(flatten[i + 1], seqs, i + 1)
      OBVIOUS
    <3>1. CASE i = 0
      <4>1. flatten[i + 1] = seqs[1] /\ 1 \in 1 .. Len(seqs) /\ i + 1 = 1
        BY <2>4, <3>1 DEF n
      <4>2. Gathered(seqs[1], seqs, 1)
        <5>1. Columns(seqs[1])
          BY <4>1 DEF Groups
        <5>2. 1 \in 1 .. 1
          OBVIOUS
        <5> QED BY <5>1, <5>2 DEF Gathered
      <4> QED BY <4>1, <4>2
    <3>2. CASE i # 0
      <4>1. i \in 1 .. n /\ i + 1 # 1 /\ (i + 1) - 1 = i
        BY <1>1, <3>2
      <4>2. flatten[i + 1] = flatten[i] \o seqs[i + 1]
        BY <2>4, <4>1
      <4>3. Gathered(flatten[i], seqs, i) /\ i + 1 \in 1 .. Len(seqs)
        BY <4>1 DEF n
      <4> QED BY <4>2, <4>3, GatheredMore
    <3> QED BY <3>1, <3>2
  <2> HIDE DEF S
  <2>7. Nat \subseteq S
    BY <2>5, <2>6, EveryNatural
  <2>8. Gathered(flatten[n], seqs, n)
    <3>1. n \in S /\ n \in 1 .. n
      BY <1>1, <1>3, <2>7
    <3> QED BY <3>1 DEF S
  <2>9. seqs # <<>>
    <3>1. Len(<<>>) = 0
      OBVIOUS
    <3> QED BY <1>3, <3>1 DEF n
  <2> QED BY <2>3, <2>8, <2>9 DEF Gathered
<1> QED BY <1>2, <1>3

-----------------------------------------------------------------------------
(* The columns of records.                                                 *)

\* Nodes of a tree, or none, one for each row.
Shelf(rows) == IsList(rows) /\ \A i \in 1 .. Len(rows) : rows[i] = Absent \/ Tree(rows[i])

Widened(rows, expanded, p) ==
    IF p \in expanded THEN Children(p, ChildSegments([i \in DOMAIN rows |-> Get(rows[i], p)])) ELSE <<p>>

OneLevel(rows, expanded, cols) == FlattenSeq([i \in DOMAIN cols |-> Widened(rows, expanded, cols[i])])

LEMMA WidenedColumns ==
  ASSUME NEW rows, Shelf(rows), NEW expanded, NEW p, KeyHeaded(p)
  PROVE  /\ Columns(Widened(rows, expanded, p))
         /\ \A i \in 1 .. Len(Widened(rows, expanded, p)) : \A q :
               IsPath(q) /\ Apart(p, q) => Apart(Widened(rows, expanded, p)[i], q)
<1>1. CASE p \in expanded
  <2>1. PICK cells : cells = [i \in DOMAIN rows |-> Get(rows[i], p)]
    OBVIOUS
  <2>2. Len(rows) \in Nat /\ DOMAIN rows = 1 .. Len(rows)
    BY ListFacts DEF Shelf
  <2>3. cells = [i \in 1 .. Len(rows) |-> cells[i]] /\ \A i \in 1 .. Len(rows) : cells[i] = Get(rows[i], p)
    BY <2>1, <2>2
  <2>4. IsList(cells) /\ Len(cells) = Len(rows)
    BY <2>2, <2>3, MadeList
  <2>5. \A i \in 1 .. Len(rows) : Cell(cells[i])
    <3> TAKE i \in 1 .. Len(rows)
    <3>1. CASE rows[i] = Absent
      BY <2>3, <3>1, GetNothing DEF KeyHeaded, Cell
    <3>2. CASE Tree(rows[i])
      BY <2>3, <3>2 DEF KeyHeaded, Cell, Tree
    <3> QED BY <3>1, <3>2 DEF Shelf
  <2>6. Steps(ChildSegments(cells))
    BY <2>4, <2>5, ChildSteps
  <2>7. Widened(rows, expanded, p) = Children(p, ChildSegments(cells))
    BY <1>1, <2>1 DEF Widened
  <2> QED BY <2>6, <2>7, ChildColumns
<1>2. CASE p \notin expanded
  <2>1. Widened(rows, expanded, p) = <<p>>
    BY <1>2 DEF Widened
  <2>2. Columns(<<p>>) /\ \A i \in 1 .. Len(<<p>>) : <<p>>[i] = p
    BY OneColumn
  <2> QED BY <2>1, <2>2, Zenon
<1> QED BY <1>1, <1>2

LEMMA LevelIsColumns ==
  ASSUME NEW rows, Shelf(rows), NEW expanded, NEW cols, Columns(cols)
  PROVE  Columns(OneLevel(rows, expanded, cols)) /\ (cols = <<>> => OneLevel(rows, expanded, cols) = <<>>)
<1>1. PICK seqs : seqs = [i \in DOMAIN cols |-> Widened(rows, expanded, cols[i])]
  OBVIOUS
<1>2. Len(cols) \in Nat /\ DOMAIN cols = 1 .. Len(cols) /\ \A i \in 1 .. Len(cols) : KeyHeaded(cols[i])
  BY ListFacts DEF Columns
<1>3. /\ seqs = [i \in 1 .. Len(cols) |-> seqs[i]]
      /\ \A i \in 1 .. Len(cols) : seqs[i] = Widened(rows, expanded, cols[i])
  BY <1>1, <1>2
<1>4. IsList(seqs) /\ Len(seqs) = Len(cols)
  BY <1>2, <1>3, MadeList
<1>5. ASSUME NEW i \in 1 .. Len(cols)
      PROVE  Columns(seqs[i]) /\ \A a \in 1 .. Len(seqs[i]) : \A q : IsPath(q) /\ Apart(cols[i], q) => Apart(seqs[i][a], q)
  BY <1>2, <1>3, WidenedColumns
<1>6. ASSUME NEW i \in 1 .. Len(cols), NEW j \in 1 .. Len(cols), i # j,
             NEW a \in 1 .. Len(seqs[i]), NEW b \in 1 .. Len(seqs[j])
      PROVE  Apart(seqs[i][a], seqs[j][b])
  <2>1. Apart(cols[i], cols[j]) /\ IsPath(cols[j]) /\ IsPath(seqs[i][a])
    BY <1>2, <1>5, <1>6 DEF Columns, KeyHeaded
  <2>2. Apart(seqs[i][a], cols[j])
    BY <1>5, <2>1
  <2>3. Apart(cols[j], seqs[i][a])
    BY <2>2, ApartSwapped
  <2>4. Apart(seqs[j][b], seqs[i][a])
    BY <1>5, <2>1, <2>3
  <2> QED BY <2>4, ApartSwapped
<1>7. Groups(seqs)
  BY <1>4, <1>5, <1>6 DEF Groups
<1>8. OneLevel(rows, expanded, cols) = FlattenSeq(seqs)
  BY <1>1 DEF OneLevel
<1>9. cols = <<>> => seqs = <<>>
  BY <1>2, <1>4, EmptyList, NoneIsPath
<1> QED BY <1>7, <1>8, <1>9, Flattened

IsLevels(v, rows, tops, expanded, n) ==
    v = [k \in 0 .. n |-> IF k = 0 THEN tops ELSE OneLevel(rows, expanded, v[k - 1])]

LEMMA LevelsExist ==
  ASSUME NEW rows, NEW tops, NEW expanded
  PROVE  \A n \in Nat : \E v : IsLevels(v, rows, tops, expanded, n)
<1> DEFINE S == {n \in Nat : \E v : IsLevels(v, rows, tops, expanded, n)}
<1>1. 0 \in S
  <2> DEFINE v == [k \in 0 .. 0 |-> tops]
  <2>1. v = [k \in 0 .. 0 |-> IF k = 0 THEN tops ELSE OneLevel(rows, expanded, v[k - 1])]
    OBVIOUS
  <2> HIDE DEF v
  <2>2. IsLevels(v, rows, tops, expanded, 0)
    BY <2>1 DEF IsLevels
  <2> QED BY <2>2
<1>2. \A n \in Nat : n \in S => n + 1 \in S
  <2> SUFFICES ASSUME NEW n \in Nat, NEW a, IsLevels(a, rows, tops, expanded, n)
               PROVE  \E v : IsLevels(v, rows, tops, expanded, n + 1)
    OBVIOUS
  <2> DEFINE v == [k \in 0 .. n + 1 |-> IF k = n + 1 THEN OneLevel(rows, expanded, a[n]) ELSE a[k]]
  <2>1. \A k \in 0 .. n : a[k] = IF k = 0 THEN tops ELSE OneLevel(rows, expanded, a[k - 1])
    BY DEF IsLevels
  <2>2. \A k \in 0 .. n + 1 : v[k] = IF k = 0 THEN tops ELSE OneLevel(rows, expanded, v[k - 1])
    <3> TAKE k \in 0 .. n + 1
    <3>1. CASE k = n + 1
      BY <3>1
    <3>2. CASE k \in 0 .. n
      <4>1. k # n + 1 /\ (k # 0 => k - 1 \in 0 .. n + 1 /\ k - 1 # n + 1)
        BY <3>2
      <4> QED BY <4>1, <3>2, <2>1
    <3> QED BY <3>1, <3>2
  <2>3. v = [k \in 0 .. n + 1 |-> IF k = 0 THEN tops ELSE OneLevel(rows, expanded, v[k - 1])]
    <3>1. v = [k \in 0 .. n + 1 |-> v[k]]
      OBVIOUS
    <3> HIDE DEF v
    <3> QED BY <3>1, <2>2
  <2> HIDE DEF v
  <2> QED BY <2>3 DEF IsLevels
<1> HIDE DEF S
<1>3. Nat \subseteq S
  BY <1>1, <1>2, EveryNatural
<1> QED BY <1>3 DEF S

LEMMA ExpandedIsColumns ==
  ASSUME NEW rows, Shelf(rows), NEW expanded, IsFiniteSet(expanded), NEW tops, Columns(tops)
  PROVE  /\ Columns(ExpandedColumns(rows, tops, expanded))
         /\ tops = <<>> => ExpandedColumns(rows, tops, expanded) = <<>>
<1> DEFINE n == Cardinality(expanded)
           level == CHOOSE v : IsLevels(v, rows, tops, expanded, n)
<1>1. n \in Nat
  BY FS_CardinalityType
<1> HIDE DEF n
<1>2. \E v : IsLevels(v, rows, tops, expanded, n)
  BY <1>1, LevelsExist
<1>3. IsLevels(level, rows, tops, expanded, n)
  BY <1>2, Zenon
<1>4. ExpandedColumns(rows, tops, expanded) = level[n]
  BY DEF ExpandedColumns, IsLevels, OneLevel, Widened, n
<1> HIDE DEF level
<1>5. level[0] = tops /\ \A k \in 1 .. n : level[k] = OneLevel(rows, expanded, level[k - 1])
  BY <1>1, <1>3 DEF IsLevels
<1> DEFINE Fine(k) == Columns(level[k]) /\ (tops = <<>> => level[k] = <<>>)
           S == {k \in Nat : k \in 0 .. n => Fine(k)}
<1>6. 0 \in S
  BY <1>5
<1>7. \A k \in Nat : k \in S => k + 1 \in S
  <2> SUFFICES ASSUME NEW k \in Nat, Fine(k), k + 1 \in 0 .. n PROVE Fine(k + 1)
    BY <1>1
  <2>1. k + 1 \in 1 .. n /\ (k + 1) - 1 = k
    BY <1>1
  <2>2. level[k + 1] = OneLevel(rows, expanded, level[k])
    BY <1>5, <2>1
  <2> QED BY <2>2, LevelIsColumns
<1> HIDE DEF S
<1>8. Nat \subseteq S
  BY <1>6, <1>7, EveryNatural
<1>9. Fine(n)
  BY <1>1, <1>8 DEF S
<1> QED BY <1>4, <1>9

LEMMA KeysAreColumns ==
  ASSUME NEW keys, Distinct(keys)
  PROVE  Columns(OfKeys(keys)) /\ (keys = <<>> => OfKeys(keys) = <<>>)
<1>1. Len(keys) \in Nat /\ DOMAIN keys = 1 .. Len(keys)
  BY ListFacts DEF Distinct
<1>2. PICK cols : cols = [i \in DOMAIN keys |-> <<Key(keys[i])>>]
  OBVIOUS
<1>3. /\ cols = [i \in 1 .. Len(keys) |-> cols[i]]
      /\ \A i \in 1 .. Len(keys) : cols[i] = <<Key(keys[i])>>
  BY <1>1, <1>2
<1>4. IsList(cols) /\ Len(cols) = Len(keys)
  BY <1>1, <1>3, MadeList
<1>5. ASSUME NEW i \in 1 .. Len(keys)
      PROVE  KeyHeaded(cols[i]) /\ DOMAIN cols[i] = {1} /\ cols[i][1] = Key(keys[i])
  <2>1. PICK seg : seg = Key(keys[i])
    OBVIOUS
  <2>2. IsSeg(seg) /\ seg[1] = "key"
    BY <2>1, SegsMade
  <2>3. IsList(<<seg>>) /\ DOMAIN <<seg>> = {1} /\ <<seg>>[1] = seg /\ <<seg>> # <<>> /\ Len(<<seg>>) = 1
    BY DEF IsList
  <2>4. IsPath(<<seg>>)
    BY <2>2, <2>3, PathOfSegs
  <2> QED BY <1>3, <2>1, <2>2, <2>3, <2>4 DEF KeyHeaded
<1>6. ASSUME NEW i \in 1 .. Len(keys), NEW j \in 1 .. Len(keys), i # j PROVE Apart(cols[i], cols[j])
  <2>1. keys[i] # keys[j]
    BY <1>1, <1>6 DEF Distinct, DupFree
  <2>2. Key(keys[i]) # Key(keys[j])
    BY <2>1, SegsMade
  <2>3. DOMAIN cols[i] = {1} /\ DOMAIN cols[j] = {1} /\ cols[i][1] # cols[j][1]
    BY <1>5, <2>2
  <2> QED BY <2>3 DEF Apart
<1>7. Columns(cols)
  BY <1>4, <1>5, <1>6 DEF Columns
<1>8. OfKeys(keys) = cols
  BY <1>2 DEF OfKeys
<1>9. keys = <<>> => cols = <<>>
  BY <1>4, EmptyList, NoneIsPath
<1> QED BY <1>7, <1>8, <1>9

LEMMA FieldsMade ==
  ASSUME NEW cols, Columns(cols)
  PROVE  /\ IsList(Fields(cols)) /\ Len(Fields(cols)) = Len(cols)
         /\ \A i \in 1 .. Len(cols) : Fields(cols)[i] = Field(cols[i]) /\ IsField(Fields(cols)[i])
<1>1. Len(cols) \in Nat /\ DOMAIN cols = 1 .. Len(cols)
  BY ListFacts DEF Columns
<1>2. PICK f : f = [i \in DOMAIN cols |-> Field(cols[i])]
  OBVIOUS
<1>3. f = [i \in 1 .. Len(cols) |-> f[i]] /\ \A i \in 1 .. Len(cols) : f[i] = Field(cols[i])
  BY <1>1, <1>2
<1>4. IsList(f) /\ Len(f) = Len(cols)
  BY <1>1, <1>3, MadeList
<1>5. ASSUME NEW i \in 1 .. Len(cols) PROVE IsField(f[i])
  <2>1. f[i] = Field(cols[i]) /\ KeyHeaded(cols[i])
    BY <1>3 DEF Columns
  <2>2. f[i][2] = cols[i]
    BY <2>1, RoleTags
  <2> QED BY <2>1, <2>2 DEF IsField, KeyHeaded
<1>6. Fields(cols) = f
  BY <1>2 DEF Fields
<1> QED BY <1>3, <1>4, <1>5, <1>6

LEMMA RowIsNoField == ~IsField(RowRole)
BY RoleTags DEF IsField

\* Records have fields none of which is in another, and the bare row where a row has none.
LEMMA RecordColumns ==
  ASSUME NEW rows, Shelf(rows), NEW expanded, IsFiniteSet(expanded),
         NEW roles, roles = RecordRoles(rows, expanded)
  PROVE  /\ IsList(roles)
         /\ \A c \in DOMAIN roles : roles[c] = RowRole \/ IsField(roles[c])
         /\ \A b, c \in DOMAIN roles :
               b # c => Apart(roles[b][2], roles[c][2]) \/ (IsField(roles[b]) /= IsField(roles[c]))
         /\ Len(rows) = 1 /\ RowRole \in ToSet(roles) => roles = <<RowRole>>
<1> DEFINE bare == \A i \in DOMAIN rows : KeysOf(rows[i]) = <<>>
           mixed == \E i \in DOMAIN rows : Kind(rows[i]) # "dict"
<1>1. Len(rows) \in Nat /\ DOMAIN rows = 1 .. Len(rows) /\ IsList(rows)
  BY ListFacts DEF Shelf
<1>2. \A i \in 1 .. Len(rows) : Cell(rows[i])
  BY DEF Shelf, Cell, Tree
<1>3. /\ Distinct(AllKeys(rows))
      /\ (\A i \in 1 .. Len(rows) : KeysOf(rows[i]) = <<>>) => AllKeys(rows) = <<>>
  BY <1>1, <1>2, AllKeysDistinct
<1>4. Columns(OfKeys(AllKeys(rows))) /\ (AllKeys(rows) = <<>> => OfKeys(AllKeys(rows)) = <<>>)
  BY <1>3, KeysAreColumns
<1>5. PICK cols : cols = ExpandedColumns(rows, OfKeys(AllKeys(rows)), expanded)
  OBVIOUS
<1>6. Columns(cols) /\ (bare => cols = <<>>)
  <2>1. Columns(cols) /\ (OfKeys(AllKeys(rows)) = <<>> => cols = <<>>)
    BY <1>4, <1>5, ExpandedIsColumns
  <2> QED BY <1>1, <1>3, <1>4, <2>1
<1>7. PICK front : front = IF bare \/ mixed THEN <<RowRole>> ELSE <<>>
  OBVIOUS
<1>8. /\ IsList(front) /\ Len(front) \in {0, 1}
      /\ \A i \in 1 .. Len(front) : i = 1 /\ front[i] = RowRole
      /\ bare => front = <<RowRole>>
      /\ ~bare /\ ~mixed => front = <<>>
  <2>1. front = <<RowRole>> \/ front = <<>>
    BY <1>7
  <2>2. front = <<RowRole>> => IsList(front) /\ Len(front) = 1 /\ front[1] = RowRole
    BY DEF IsList
  <2>3. front = <<>> => IsList(front) /\ Len(front) = 0
    BY DEF IsList
  <2>4. \A i \in 1 .. 1 : i = 1
    OBVIOUS
  <2>5. \A i \in 1 .. 0 : FALSE
    OBVIOUS
  <2>6. (bare => front = <<RowRole>>) /\ (~bare /\ ~mixed => front = <<>>)
    BY <1>7
  <2> HIDE DEF bare, mixed
  <2> QED BY <2>1, <2>2, <2>3, <2>4, <2>5, <2>6
<1>9. roles = front \o Fields(cols)
  BY <1>5, <1>7 DEF RecordRoles
<1>10. PICK fields : fields = Fields(cols)
  OBVIOUS
<1>11. /\ IsList(fields) /\ Len(fields) = Len(cols)
       /\ \A i \in 1 .. Len(cols) : fields[i] = Field(cols[i]) /\ IsField(fields[i])
  BY <1>6, <1>10, FieldsMade
<1> HIDE DEF bare, mixed
<1>12. IsList(roles) /\ DOMAIN roles = 1 .. Len(roles) /\ Len(roles) = Len(front) + Len(fields)
  <2>1. roles = front \o fields /\ IsList(front) /\ IsList(fields)
    BY <1>8, <1>9, <1>10, <1>11
  <2> QED BY <2>1, ListJoined, ListFacts
<1>13. \A i \in 1 .. Len(roles) : \/ i \in 1 .. Len(front) /\ roles[i] = front[i]
                                 \/ \E j \in 1 .. Len(fields) : i = Len(front) + j /\ roles[i] = fields[j]
  BY <1>8, <1>9, <1>10, <1>11, JoinParts
<1>14. \A i \in 1 .. Len(roles) : \/ i = 1 /\ roles[i] = RowRole /\ front # <<>>
                                 \/ \E j \in 1 .. Len(cols) :
                                       i = Len(front) + j /\ roles[i] = Field(cols[j]) /\ IsField(roles[i])
  <2> TAKE i \in 1 .. Len(roles)
  <2>1. CASE i \in 1 .. Len(front) /\ roles[i] = front[i]
    <3>1. i = 1 /\ roles[i] = RowRole
      BY <1>8, <2>1
    <3>2. front # <<>>
      BY <2>1, NoneIsPath
    <3> QED BY <3>1, <3>2
  <2>2. CASE \E j \in 1 .. Len(fields) : i = Len(front) + j /\ roles[i] = fields[j]
    BY <1>11, <2>2
  <2> QED BY <1>13, <2>1, <2>2
<1>15. ASSUME NEW b \in 1 .. Len(roles), NEW c \in 1 .. Len(roles), b # c
       PROVE  Apart(roles[b][2], roles[c][2]) \/ (IsField(roles[b]) /= IsField(roles[c]))
  <2>1. CASE roles[b] = RowRole /\ b = 1
    <3>1. IsField(roles[c]) /\ ~IsField(roles[b])
      BY <1>14, <1>15, <2>1, RowIsNoField
    <3> QED BY <3>1
  <2>2. CASE roles[c] = RowRole /\ c = 1
    <3>1. IsField(roles[b]) /\ ~IsField(roles[c])
      BY <1>14, <1>15, <2>2, RowIsNoField
    <3> QED BY <3>1
  <2>3. CASE ~(roles[b] = RowRole /\ b = 1) /\ ~(roles[c] = RowRole /\ c = 1)
    <3>1. PICK i \in 1 .. Len(cols) : b = Len(front) + i /\ roles[b] = Field(cols[i])
      BY <1>14, <2>3
    <3>2. PICK j \in 1 .. Len(cols) : c = Len(front) + j /\ roles[c] = Field(cols[j])
      BY <1>14, <2>3
    <3>3. i # j
      BY <1>15, <3>1, <3>2
    <3>4. Apart(cols[i], cols[j])
      BY <1>6, <3>3 DEF Columns
    <3> QED BY <3>1, <3>2, <3>4, RoleTags
  <2> QED BY <2>1, <2>2, <2>3
<1>16. ASSUME Len(rows) = 1, RowRole \in ToSet(roles) PROVE roles = <<RowRole>>
  <2>1. PICK i \in 1 .. Len(roles) : roles[i] = RowRole
    BY <1>12, <1>16 DEF ToSet
  <2>2. front # <<>>
    BY <1>14, <2>1, RowIsNoField
  <2>3. bare
    <3>1. SUFFICES ASSUME ~bare PROVE FALSE
      OBVIOUS
    <3>2. mixed
      BY <1>8, <2>2, <3>1
    <3>3. \A k \in DOMAIN rows : k = 1
      BY <1>1, <1>16
    <3>4. Kind(rows[1]) # "dict"
      BY <3>2, <3>3 DEF mixed
    <3>5. KeysOf(rows[1]) = <<>>
      BY <3>4 DEF KeysOf
    <3>6. bare
      BY <3>3, <3>5 DEF bare
    <3> QED BY <3>1, <3>6
  <2>4. front = <<RowRole>> /\ cols = <<>>
    BY <1>6, <1>8, <2>3
  <2>5. IsList(roles) /\ Len(roles) = 1
    <3>1. Len(front) = 1 /\ Len(cols) = 0
      BY <2>4, NoneIsPath
    <3> QED BY <1>11, <1>12, <3>1
  <2>6. i = 1
    BY <2>1, <2>5
  <2>7. IsList(<<RowRole>>) /\ Len(<<RowRole>>) = 1 /\ <<RowRole>>[1] = RowRole
    BY DEF IsList
  <2>8. \A k \in 1 .. 1 : k = 1
    OBVIOUS
  <2> QED BY <2>1, <2>5, <2>6, <2>7, <2>8, SameLists
<1> QED BY <1>12, <1>14, <1>15, <1>16

-----------------------------------------------------------------------------
(* What a projection gives.                                                *)

LEMMA RowsAre ==
  ASSUME NEW anchor, IsPath(anchor), NEW n, Tree(n), NEW keyed \in BOOLEAN, keyed => Kind(n) = "dict",
         NEW paths, paths = RowPaths(n, anchor, keyed)
  PROVE  /\ IsList(paths) /\ \A r \in DOMAIN paths : IsPath(paths[r])
         /\ \/ paths = <<anchor>> /\ ~keyed
            \/ /\ \A r \in DOMAIN paths :
                     /\ paths[r] = Append(anchor, Last(paths[r])) /\ paths[r] # anchor
                     /\ IsSeg(Last(paths[r]))
                     /\ keyed => Last(paths[r])[1] = "key" /\ Child(n, Last(paths[r])) # Absent
               /\ \A q, r \in DOMAIN paths : paths[q] = paths[r] => q = r
<1>1. ASSUME NEW segs, IsList(segs), \A i \in DOMAIN segs : IsSeg(segs[i]),
             \A i, j \in DOMAIN segs : segs[i] = segs[j] => i = j,
             paths = [i \in DOMAIN segs |-> Append(anchor, segs[i])]
      PROVE  /\ IsList(paths) /\ DOMAIN paths = DOMAIN segs
             /\ \A r \in DOMAIN paths :
                   /\ IsPath(paths[r]) /\ Last(paths[r]) = segs[r]
                   /\ paths[r] = Append(anchor, Last(paths[r])) /\ paths[r] # anchor
                   /\ IsSeg(Last(paths[r]))
             /\ \A q, r \in DOMAIN paths : paths[q] = paths[r] => q = r
  <2>1. Len(segs) \in Nat /\ DOMAIN segs = 1 .. Len(segs)
    BY <1>1, ListFacts
  <2>2. DOMAIN paths = DOMAIN segs /\ \A r \in DOMAIN segs : paths[r] = Append(anchor, segs[r])
    BY <1>1
  <2>3. paths = [i \in 1 .. Len(segs) |-> paths[i]]
    BY <1>1, <2>1
  <2>4. IsList(paths)
    BY <2>1, <2>3, MadeList
  <2>5. ASSUME NEW r \in DOMAIN segs
        PROVE  Last(paths[r]) = segs[r] /\ paths[r] # anchor /\ IsPath(paths[r])
    BY <1>1, <2>2, AppendedParts
  <2>6. \A r \in DOMAIN paths :
           /\ IsPath(paths[r]) /\ Last(paths[r]) = segs[r]
           /\ paths[r] = Append(anchor, Last(paths[r])) /\ paths[r] # anchor
           /\ IsSeg(Last(paths[r]))
    BY <1>1, <2>2, <2>5
  <2>7. ASSUME NEW q \in DOMAIN paths, NEW r \in DOMAIN paths, paths[q] = paths[r] PROVE q = r
    <3>1. segs[q] = segs[r]
      BY <2>6, <2>7
    <3> QED BY <1>1, <2>2, <3>1
  <2> QED BY <2>2, <2>4, <2>6, <2>7
<1>2. CASE keyed
  <2>1. /\ DOMAIN Content(n) = 1 .. Len(Content(n)) /\ Len(Content(n)) \in Nat
        /\ \A i, j \in DOMAIN Content(n) : Content(n)[i][1] = Content(n)[j][1] => i = j
        /\ \A i \in DOMAIN Content(n) : Content(n)[i][2] # Absent
    BY <1>2, DictParts, NodesAreThere DEF Tree
  <2>2. PICK segs : segs = [i \in DOMAIN Content(n) |-> Key(Content(n)[i][1])]
    OBVIOUS
  <2>3. /\ segs = [i \in 1 .. Len(Content(n)) |-> segs[i]] /\ DOMAIN segs = DOMAIN Content(n)
        /\ \A i \in DOMAIN segs : segs[i] = Key(Content(n)[i][1])
    BY <2>1, <2>2
  <2>4. IsList(segs)
    BY <2>1, <2>3, MadeList
  <2>5. \A i \in DOMAIN segs : IsSeg(segs[i]) /\ segs[i][1] = "key" /\ segs[i][2] = Content(n)[i][1]
    BY <2>3, SegsMade
  <2>6. ASSUME NEW i \in DOMAIN segs, NEW j \in DOMAIN segs, segs[i] = segs[j] PROVE i = j
    BY <2>1, <2>3, <2>5, <2>6
  <2>7. ASSUME NEW i \in DOMAIN segs PROVE Child(n, segs[i]) # Absent
    <3>1. NodeOK(n)
      BY DEF Tree
    <3>2. Child(n, segs[i]) = Content(n)[i][2]
      BY <1>2, <2>3, <2>5, <3>1, ChildByKey
    <3> QED BY <2>1, <2>3, <3>2
  <2>8. RowPaths(n, anchor, keyed) = [i \in DOMAIN Content(n) |-> Append(anchor, Key(Content(n)[i][1]))]
    BY <1>2 DEF RowPaths
  <2>9. paths = [i \in DOMAIN segs |-> Append(anchor, segs[i])]
    BY <2>3, <2>8
  <2>10. /\ IsList(paths) /\ DOMAIN paths = DOMAIN segs
         /\ \A r \in DOMAIN paths :
               /\ IsPath(paths[r]) /\ Last(paths[r]) = segs[r]
               /\ paths[r] = Append(anchor, Last(paths[r])) /\ paths[r] # anchor
               /\ IsSeg(Last(paths[r]))
         /\ \A q, r \in DOMAIN paths : paths[q] = paths[r] => q = r
    BY <1>1, <2>4, <2>5, <2>6, <2>9
  <2> QED BY <2>5, <2>7, <2>10
<1>3. CASE ~keyed /\ Kind(n) = "list"
  <2>1. DOMAIN Content(n) = 1 .. Len(Content(n)) /\ Len(Content(n)) \in Nat
    BY <1>3, ArrayParts
  <2>2. PICK segs : segs = [i \in DOMAIN Content(n) |-> Idx(i)]
    OBVIOUS
  <2>3. /\ segs = [i \in 1 .. Len(Content(n)) |-> segs[i]] /\ DOMAIN segs = DOMAIN Content(n)
        /\ \A i \in DOMAIN segs : segs[i] = Idx(i)
    BY <2>1, <2>2
  <2>4. IsList(segs)
    BY <2>1, <2>3, MadeList
  <2>5. \A i \in DOMAIN segs : IsSeg(segs[i]) /\ segs[i][2] = i
    BY <2>3, SegsMade
  <2>6. ASSUME NEW i \in DOMAIN segs, NEW j \in DOMAIN segs, segs[i] = segs[j] PROVE i = j
    BY <2>5, <2>6
  <2>7. RowPaths(n, anchor, keyed) = [i \in DOMAIN Content(n) |-> Append(anchor, Idx(i))]
    BY <1>3 DEF RowPaths
  <2>8. paths = [i \in DOMAIN segs |-> Append(anchor, segs[i])]
    BY <2>3, <2>7
  <2>9. /\ IsList(paths) /\ DOMAIN paths = DOMAIN segs
        /\ \A r \in DOMAIN paths :
              /\ IsPath(paths[r]) /\ Last(paths[r]) = segs[r]
              /\ paths[r] = Append(anchor, Last(paths[r])) /\ paths[r] # anchor
              /\ IsSeg(Last(paths[r]))
        /\ \A q, r \in DOMAIN paths : paths[q] = paths[r] => q = r
    BY <1>1, <2>4, <2>5, <2>6, <2>8
  <2> QED BY <1>3, <2>9
<1>4. CASE ~keyed /\ Kind(n) # "list"
  <2>1. paths = <<anchor>>
    BY <1>4 DEF RowPaths
  <2>2. IsList(<<anchor>>) /\ \A r \in DOMAIN <<anchor>> : <<anchor>>[r] = anchor
    BY DEF IsList
  <2> QED BY <1>4, <2>1, <2>2
<1> QED BY <1>2, <1>3, <1>4

LEMMA CellsAre ==
  ASSUME NEW root, NEW paths, IsList(paths), NEW roles, IsList(roles), NEW mode,
         NEW cells, cells = Cells(root, paths, roles, mode)
  PROVE  /\ IsGrid(cells, Len(roles)) /\ Len(cells) = Len(paths)
         /\ \A r \in DOMAIN paths, c \in DOMAIN roles :
               cells[r][c] = CellOf(root, paths[r], roles[c], mode)
<1>1. /\ Len(paths) \in Nat /\ DOMAIN paths = 1 .. Len(paths)
      /\ Len(roles) \in Nat /\ DOMAIN roles = 1 .. Len(roles)
  BY ListFacts
<1>2. cells = [r \in DOMAIN paths |-> [c \in DOMAIN roles |-> CellOf(root, paths[r], roles[c], mode)]]
  BY DEF Cells
<1>3. /\ DOMAIN cells = DOMAIN paths /\ cells = [r \in 1 .. Len(paths) |-> cells[r]]
      /\ \A r \in DOMAIN paths : cells[r] = [c \in DOMAIN roles |-> CellOf(root, paths[r], roles[c], mode)]
  BY <1>1, <1>2
<1>4. IsList(cells) /\ Len(cells) = Len(paths)
  BY <1>1, <1>3, MadeList
<1>5. \A r \in DOMAIN paths : cells[r] = [c \in 1 .. Len(roles) |-> cells[r][c]]
  BY <1>1, <1>3
<1>6. \A r \in DOMAIN paths, c \in DOMAIN roles : cells[r][c] = CellOf(root, paths[r], roles[c], mode)
  BY <1>3
<1> QED BY <1>1, <1>3, <1>4, <1>5, <1>6 DEF IsGrid

\* The table of a view whose node is there.
IsTable(root, view, t) ==
    /\ Layout(view.anchor, view.mode, t.paths, t.roles)
    /\ IsGrid(t.cells, Len(t.roles)) /\ Len(t.cells) = Len(t.paths)
    /\ \A r \in DOMAIN t.paths : ShowsRow(root, view.mode, t.paths, t.roles, t.cells, r)

LEMMA NothingProjected ==
  ASSUME NEW root, NEW view, Get(root, view.anchor) = Absent
  PROVE  Project(root, view) = Refused
BY DEF Project, ProjectNode

LEMMA ProjectedTable ==
  ASSUME NEW root, Tree(root), NEW view, IsPath(view.anchor), IsFiniteSet(view.expanded),
         Get(root, view.anchor) # Absent
  PROVE  Project(root, view) # Refused /\ IsTable(root, view, Project(root, view)[2])
<1>1. PICK n : n = Get(root, view.anchor)
  OBVIOUS
<1>2. Tree(n) /\ n # Absent
  BY <1>1, PartIsTree
<1>3. PICK keyed \in BOOLEAN : keyed <=> Keyed(n, view)
  OBVIOUS
<1>4. PICK paths : paths = RowPaths(n, view.anchor, keyed)
  OBVIOUS
<1>5. keyed => Kind(n) = "dict"
  BY <1>3 DEF Keyed
<1>6. /\ IsList(paths) /\ \A r \in DOMAIN paths : IsPath(paths[r])
      /\ \/ paths = <<view.anchor>> /\ ~keyed
         \/ /\ \A r \in DOMAIN paths :
                  /\ paths[r] = Append(view.anchor, Last(paths[r])) /\ paths[r] # view.anchor
                  /\ IsSeg(Last(paths[r]))
                  /\ keyed => Last(paths[r])[1] = "key" /\ Child(n, Last(paths[r])) # Absent
            /\ \A q, r \in DOMAIN paths : paths[q] = paths[r] => q = r
  BY <1>2, <1>4, <1>5, RowsAre
<1>7. PICK roles : roles = Roles(root, paths, view, keyed)
  OBVIOUS
<1>8. PICK cells : cells = Cells(root, paths, roles, view.mode)
  OBVIOUS
<1>9. Project(root, view) = <<"table", [paths |-> paths, roles |-> roles, cells |-> cells]>>
  <2>1. keyed = Keyed(n, view)
    BY <1>3 DEF Keyed
  <2> QED BY <1>1, <1>2, <1>4, <1>7, <1>8, <2>1 DEF Project, ProjectNode, LaidOut, Table
<1>10. PICK rows : rows = [i \in DOMAIN paths |-> Get(root, paths[i])]
  OBVIOUS
<1>11. Shelf(rows) /\ Len(rows) = Len(paths)
  <2>1. Len(paths) \in Nat /\ DOMAIN paths = 1 .. Len(paths)
    BY <1>6, ListFacts
  <2>2. rows = [i \in 1 .. Len(paths) |-> rows[i]] /\ \A i \in 1 .. Len(paths) : rows[i] = Get(root, paths[i])
    BY <1>10, <2>1
  <2>3. IsList(rows) /\ Len(rows) = Len(paths)
    BY <2>1, <2>2, MadeList
  <2>4. \A i \in 1 .. Len(paths) : rows[i] = Absent \/ Tree(rows[i])
    BY <1>6, <2>1, <2>2, PartIsTree
  <2> QED BY <2>3, <2>4 DEF Shelf
<1>12. PICK records : records = RecordRoles(rows, view.expanded)
  OBVIOUS
<1>13. /\ IsList(records)
       /\ \A c \in DOMAIN records : records[c] = RowRole \/ IsField(records[c])
       /\ \A b, c \in DOMAIN records :
             b # c => Apart(records[b][2], records[c][2]) \/ (IsField(records[b]) /= IsField(records[c]))
       /\ Len(rows) = 1 /\ RowRole \in ToSet(records) => records = <<RowRole>>
  BY <1>11, <1>12, RecordColumns
<1>14. \/ roles = <<KeyRole, RowRole, TypeRole>> /\ keyed
       \/ roles = records /\ view.mode = "Records"
       \/ roles = <<RowRole>>
  BY <1>7, <1>10, <1>12 DEF Roles
<1>15. IsList(roles)
  <2>1. IsList(<<KeyRole, RowRole, TypeRole>>) /\ IsList(<<RowRole>>)
    BY DEF IsList
  <2> QED BY <1>13, <1>14, <2>1
<1>16. RolesOK(view.anchor, view.mode, paths, roles)
  <2>1. CASE roles = <<KeyRole, RowRole, TypeRole>> /\ keyed
    <3>1. \A r \in DOMAIN paths : paths[r] # view.anchor /\ Last(paths[r])[1] = "key"
      BY <1>6, <2>1
    <3> QED BY <2>1, <3>1 DEF RolesOK
  <2>2. CASE roles = records /\ view.mode = "Records"
    BY <1>13, <2>2 DEF RolesOK
  <2>3. CASE roles = <<RowRole>>
    BY <2>3 DEF RolesOK
  <2> QED BY <1>14, <2>1, <2>2, <2>3
<1>17. RowsOK(view.anchor, paths, roles)
  <2>1. CASE paths = <<view.anchor>> /\ ~keyed
    <3>1. Len(paths) = 1
      BY <2>1
    <3>2. RowRole \in ToSet(roles) => roles = <<RowRole>>
      BY <1>11, <1>13, <1>14, <2>1, <3>1
    <3> QED BY <2>1, <3>2 DEF RowsOK
  <2>2. CASE /\ \A r \in DOMAIN paths : paths[r] = Append(view.anchor, Last(paths[r]))
             /\ \A q, r \in DOMAIN paths : paths[q] = paths[r] => q = r
    BY <1>6, <2>2 DEF RowsOK
  <2> QED BY <1>6, <2>1, <2>2
<1>18. /\ IsGrid(cells, Len(roles)) /\ Len(cells) = Len(paths)
       /\ \A r \in DOMAIN paths, c \in DOMAIN roles :
             cells[r][c] = CellOf(root, paths[r], roles[c], view.mode)
  <2>1. IsList(paths)
    BY <1>6
  <2>2. PICK mode : mode = view.mode
    OBVIOUS
  <2>3. cells = Cells(root, paths, roles, mode)
    BY <1>8, <2>2
  <2>4. /\ IsGrid(cells, Len(roles)) /\ Len(cells) = Len(paths)
        /\ \A r \in DOMAIN paths, c \in DOMAIN roles : cells[r][c] = CellOf(root, paths[r], roles[c], mode)
    BY <1>15, <2>1, <2>3, CellsAre
  <2> QED BY <2>2, <2>4
<1>19. ASSUME NEW r \in DOMAIN paths, NEW c \in DOMAIN roles, roles[c] = KeyRole
       PROVE  Get(root, paths[r]) # Absent
  <2>1. keyed
    <3>1. SUFFICES ASSUME ~keyed PROVE FALSE
      OBVIOUS
    <3>2. CASE roles = records
      BY <1>13, <1>19, <3>2, RoleTags DEF IsField
    <3>3. CASE roles = <<RowRole>>
      <4>1. \A i \in DOMAIN <<RowRole>> : <<RowRole>>[i] = RowRole
        OBVIOUS
      <4> QED BY <1>19, <3>3, <4>1, RoleTags
    <3> QED BY <1>14, <3>1, <3>2, <3>3
  <2>2. /\ paths[r] = Append(view.anchor, Last(paths[r])) /\ IsSeg(Last(paths[r]))
        /\ Child(n, Last(paths[r])) # Absent
    BY <1>6, <2>1
  <2>3. Get(root, Append(view.anchor, Last(paths[r]))) = Child(Get(root, view.anchor), Last(paths[r]))
    BY <2>2, GetFurther
  <2> QED BY <1>1, <2>2, <2>3
<1>20. \A r \in DOMAIN paths : ShowsRow(root, view.mode, paths, roles, cells, r)
  BY <1>18, <1>19 DEF ShowsRow
<1>21. Layout(view.anchor, view.mode, paths, roles)
  BY <1>6, <1>15, <1>16, <1>17 DEF Layout
<1>22. PICK t : t = [paths |-> paths, roles |-> roles, cells |-> cells]
  OBVIOUS
<1>23. t.paths = paths /\ t.roles = roles /\ t.cells = cells
  BY <1>22
<1>24. IsTable(root, view, t)
  BY <1>18, <1>20, <1>21, <1>23 DEF IsTable
<1>25. Project(root, view)[2] = t /\ Project(root, view) # Refused
  BY <1>9, <1>22 DEF Refused
<1> QED BY <1>24, <1>25

-----------------------------------------------------------------------------
(* Sheets that lie over their trees.                                       *)

IsView(v) ==
    /\ v = [x \in {"anchor", "mode", "expanded"} |-> v[x]]
    /\ IsPath(v.anchor) /\ IsFiniteSet(v.expanded)

Snap(snap) == Tree(snap.root) /\ IsGrid(snap.cells, snap.width)
History(stack) == IsList(stack) /\ \A i \in 1 .. Len(stack) : Snap(stack[i])

LaysOver(s) == Layout(s.view.anchor, s.view.mode, s.paths, s.roles) /\ IsGrid(s.cells, s.width)
Viewed(s) == IsView(s.view) /\ History(s.undo) /\ History(s.redo)
Kept(s) == s.doc # 0 => Viewed(s) /\ LaysOver(s)

\* Each cell shows its node, the rows with a renamed key aside.
Shows(s, root) ==
    MappingOk(s) /\ Get(root, s.view.anchor) # Absent =>
        \A r \in DOMAIN s.paths \ s.renamed :
            ShowsRow(root, s.view.mode, s.paths, s.roles, s.cells, r)

Follows(s) == \A p \in DOMAIN s.hits.found : IsPath(p)

LEMMA NoHistory == History(<<>>)
BY NoneIsPath DEF History, IsPath

LEMMA HistoryPushed ==
  ASSUME NEW stack, History(stack), NEW snap, Snap(snap)
  PROVE  History(Pushed(stack, snap))
<1>1. IsList(stack) /\ Len(stack) \in Nat /\ MaxUndo \in Nat /\ MaxUndo # 0
  BY ListFacts, BoundsAssumption DEF History
<1>2. PICK rest : rest = IF Len(stack) = MaxUndo THEN Tail(stack) ELSE stack
  OBVIOUS
<1>3. IsList(rest) /\ \A i \in 1 .. Len(rest) : Snap(rest[i])
  <2>1. CASE Len(stack) = MaxUndo
    <3> DEFINE T == {stack[i] : i \in 1 .. Len(stack)}
    <3>1. stack \in Seq(T)
      BY <1>1, ListedIsSeq
    <3>2. \A e \in T : Snap(e)
      BY DEF History
    <3> HIDE DEF T
    <3>3. rest \in Seq(T)
      BY <1>1, <1>2, <2>1, <3>1
    <3>4. IsList(rest) /\ \A i \in 1 .. Len(rest) : rest[i] \in T
      BY <3>3, SeqIsListed
    <3> QED BY <3>2, <3>4
  <2>2. CASE Len(stack) # MaxUndo
    BY <1>2, <2>2 DEF History
  <2> QED BY <2>1, <2>2
<1>4. Pushed(stack, snap) = Append(rest, snap)
  BY <1>2 DEF Pushed
<1>5. /\ IsList(Append(rest, snap)) /\ Len(Append(rest, snap)) = Len(rest) + 1 /\ Len(rest) \in Nat
      /\ \A i \in 1 .. Len(rest) : Append(rest, snap)[i] = rest[i]
      /\ Append(rest, snap)[Len(rest) + 1] = snap
  BY <1>3, ListAppended, ListFacts
<1>6. \A i \in 1 .. Len(rest) + 1 : i \in 1 .. Len(rest) \/ i = Len(rest) + 1
  BY <1>5
<1> QED BY <1>3, <1>4, <1>5, <1>6 DEF History

LEMMA HistoryBack ==
  ASSUME NEW stack, History(stack), stack # <<>>
  PROVE  Snap(Last(stack)) /\ History(Front(stack))
<1>1. IsList(stack) /\ Len(stack) \in Nat
  BY ListFacts DEF History
<1>2. Len(stack) > 0
  BY <1>1, EmptyList
<1>3. IsList(Front(stack)) /\ Len(Front(stack)) = Len(stack) - 1 /\ \A i \in 1 .. Len(stack) - 1 : Front(stack)[i] = stack[i]
  BY <1>1, <1>2, ListFront
<1>4. Last(stack) = stack[Len(stack)] /\ Len(stack) \in 1 .. Len(stack)
  BY <1>1, <1>2 DEF Last
<1>5. \A i \in 1 .. Len(stack) - 1 : i \in 1 .. Len(stack)
  BY <1>1
<1> QED BY <1>3, <1>4, <1>5 DEF History

\* The same table over the same node.
SameTable(s, t) ==
    /\ IsSheet(t) /\ t.doc = s.doc /\ t.hits = s.hits /\ t.view = s.view
    /\ t.paths = s.paths /\ t.roles = s.roles /\ t.cells = s.cells /\ t.width = s.width
    /\ t.renamed = s.renamed

LEMMA SameTableKept ==
  ASSUME NEW s, NEW t, SameTable(s, t)
  PROVE  /\ Kept(s) /\ (t.doc # 0 => History(t.undo) /\ History(t.redo)) => Kept(t)
         /\ \A root : Shows(s, root) => Shows(t, root)
         /\ Follows(s) => Follows(t)
BY DEF SameTable, Kept, Viewed, LaysOver, Shows, Follows, MappingOk

LEMMA PushedSame ==
  ASSUME NEW s, IsSheet(s)
  PROVE  /\ SameTable(s, PushUndo(s))
         /\ PushUndo(s).undo = Pushed(s.undo, Snapshot(s)) /\ PushUndo(s).redo = <<>>
<1> DEFINE pushed == Pushed(s.undo, Snapshot(s))
<1>1. PushUndo(s) = [s EXCEPT !.undo = pushed, !.redo = <<>>]
  BY DEF PushUndo
<1> HIDE DEF pushed
<1>2. SameTable(s, PushUndo(s)) /\ PushUndo(s).undo = pushed /\ PushUndo(s).redo = <<>>
  BY <1>1 DEF SameTable, IsSheet, Parts
<1> QED BY <1>2 DEF pushed

LEMMA SnapTaken ==
  ASSUME NEW s, Kept(s), s.doc # 0, Tree(Root(s))
  PROVE  Snap(Snapshot(s))
BY DEF Snap, Snapshot, Kept, LaysOver

LEMMA PushedKept ==
  ASSUME NEW s, IsSheet(s), Kept(s), s.doc # 0, Tree(Root(s))
  PROVE  Kept(PushUndo(s)) /\ History(PushUndo(s).undo)
<1>1. History(PushUndo(s).undo) /\ History(PushUndo(s).redo)
  <2>1. Snap(Snapshot(s)) /\ History(s.undo)
    BY SnapTaken DEF Kept, Viewed
  <2>2. History(Pushed(s.undo, Snapshot(s)))
    BY <2>1, HistoryPushed
  <2> QED BY <2>2, PushedSame, NoHistory
<1> QED BY <1>1, PushedSame, SameTableKept

\* A table shown in place of the one there was.
LEMMA ShowingLies ==
  ASSUME NEW s, IsSheet(s), Viewed(s), NEW root, NEW t, IsTable(root, s.view, t)
  PROVE  Kept(Showing(s, t)) /\ Shows(Showing(s, t), root)
<1> DEFINE u == Showing(s, t)
<1>1. /\ u.doc = s.doc /\ u.view = s.view /\ u.undo = s.undo /\ u.redo = s.redo
      /\ u.paths = t.paths /\ u.roles = t.roles /\ u.cells = t.cells /\ u.width = Len(t.roles)
  BY DEF Showing, IsSheet, Parts
<1> HIDE DEF u
<1>2. Kept(u)
  BY <1>1 DEF Kept, Viewed, LaysOver, IsTable
<1>3. Shows(u, root)
  BY <1>1 DEF Shows, IsTable
<1> QED BY <1>2, <1>3 DEF u

LEMMA ReprojectedLies ==
  ASSUME NEW s, IsSheet(s), Viewed(s), NEW root, Tree(root),
         Get(root, s.view.anchor) # Absent \/ Kept(s)
  PROVE  Kept(Reprojected(s, root)) /\ Shows(Reprojected(s, root), root)
<1> DEFINE table == Project(root, s.view)
<1>1. Reprojected(s, root) = IF table = Refused THEN s ELSE Showing(s, table[2])
  BY DEF Reprojected, Refreshed
<1>2. CASE Get(root, s.view.anchor) = Absent
  <2>1. table = Refused
    BY <1>2, NothingProjected
  <2> HIDE DEF table
  <2>2. Reprojected(s, root) = s
    BY <1>1, <2>1
  <2> QED BY <1>2, <2>2 DEF Shows
<1>3. CASE Get(root, s.view.anchor) # Absent
  <2>1. table # Refused /\ IsTable(root, s.view, table[2])
    BY <1>3, ProjectedTable DEF Viewed, IsView
  <2> HIDE DEF table
  <2>2. Reprojected(s, root) = Showing(s, table[2])
    BY <1>1, <2>1
  <2> QED BY <2>1, <2>2, ShowingLies
<1> QED BY <1>2, <1>3

LEMMA RestoredLies ==
  ASSUME NEW s, IsSheet(s), s.doc # 0, Kept(s), NEW snap, Snap(snap)
  PROVE  Kept(Restored(s, snap)) /\ Shows(Restored(s, snap), snap.root)
<1> DEFINE table == Project(snap.root, s.view)
           kept == [s EXCEPT !.cells = snap.cells, !.width = snap.width,
                             !.ordered = snap.ordered]
<1>1. Restored(s, snap) = IF table = Refused THEN kept ELSE Showing(s, table[2])
  BY DEF Restored, Refreshed
<1>2. CASE Get(snap.root, s.view.anchor) = Absent
  <2>1. table = Refused
    BY <1>2, NothingProjected
  <2> HIDE DEF table
  <2>2. Restored(s, snap) = kept
    BY <1>1, <2>1
  <2>3. /\ kept.doc = s.doc /\ kept.view = s.view /\ kept.undo = s.undo /\ kept.redo = s.redo
        /\ kept.paths = s.paths /\ kept.roles = s.roles
        /\ kept.cells = snap.cells /\ kept.width = snap.width
    BY DEF IsSheet, Parts
  <2> HIDE DEF kept
  <2>4. Kept(kept)
    BY <2>3 DEF Kept, Viewed, LaysOver, Snap
  <2> QED BY <1>2, <2>2, <2>3, <2>4 DEF Shows
<1>3. CASE Get(snap.root, s.view.anchor) # Absent
  <2>1. table # Refused /\ IsTable(snap.root, s.view, table[2])
    BY <1>3, ProjectedTable DEF Kept, Viewed, IsView, Snap
  <2> HIDE DEF table
  <2>2. Restored(s, snap) = Showing(s, table[2])
    BY <1>1, <2>1
  <2> QED BY <2>1, <2>2, ShowingLies DEF Kept
<1> QED BY <1>2, <1>3

LEMMA UnsortedTable ==
  ASSUME NEW s, IsSheet(s)
  PROVE  SameTable(s, Unsorted(s)) /\ Unsorted(s).undo = s.undo /\ Unsorted(s).redo = s.redo
BY DEF Unsorted, SameTable, IsSheet, Parts

LEMMA RebuiltLies ==
  ASSUME NEW s, IsSheet(s), Viewed(s), NEW root, Tree(root),
         Get(root, s.view.anchor) # Absent \/ Kept(s)
  PROVE  Kept(Unsorted(Reprojected(s, root))) /\ Shows(Unsorted(Reprojected(s, root)), root)
<1> DEFINE t == Reprojected(s, root)
<1>1. Kept(t) /\ Shows(t, root) /\ IsSheet(t)
  BY ReprojectedLies, ReprojectedSame DEF SameSheet
<1> HIDE DEF t
<1>2. SameTable(t, Unsorted(t)) /\ Unsorted(t).undo = t.undo /\ Unsorted(t).redo = t.redo
  BY <1>1, UnsortedTable
<1>3. Kept(Unsorted(t)) /\ Shows(Unsorted(t), root)
  BY <1>1, <1>2, SameTableKept DEF Kept, Viewed, SameTable
<1> QED BY <1>3 DEF t

LEMMA AutoViewIs ==
  ASSUME NEW n, NEW path, IsPath(path)
  PROVE  IsView(AutoView(n, path)) /\ AutoView(n, path).anchor = path
<1>1. IsFiniteSet({})
  BY FS_EmptySet
<1> QED BY <1>1 DEF AutoView, IsView

LEMMA OverLies ==
  ASSUME NEW d, NEW root, Tree(root), NEW view, IsView(view), Get(root, view.anchor) # Absent, NEW sourced
  PROVE  Kept(SheetOver(d, root, view, sourced)) /\ Shows(SheetOver(d, root, view, sourced), root)
<1> DEFINE table == Project(root, view)[2]
           s == SheetOver(d, root, view, sourced)
<1>1. IsTable(root, view, table)
  BY ProjectedTable DEF IsView
<1> HIDE DEF table
<1>2. /\ s.doc = d /\ s.view = view /\ s.undo = <<>> /\ s.redo = <<>>
      /\ s.paths = table.paths /\ s.roles = table.roles /\ s.cells = table.cells
      /\ s.width = Len(table.roles)
  BY DEF SheetOver, SheetOf, table
<1> HIDE DEF s
<1>3. Kept(s)
  BY <1>1, <1>2, NoHistory DEF Kept, Viewed, LaysOver, IsTable
<1>4. Shows(s, root)
  BY <1>1, <1>2 DEF Shows, IsTable
<1> QED BY <1>3, <1>4 DEF s

-----------------------------------------------------------------------------
(* The invariant: every document is a tree, every sheet lies over its tree *)
(* though its cells may be old, and the cells of the active one are not.   *)

CellInv ==
    /\ DocInv /\ file \in Files
    /\ \A d \in 1 .. Len(docs) : Tree(docs[d].root)
    /\ \A i \in 1 .. Len(sheets) : Kept(sheets[i]) /\ Follows(sheets[i])
    /\ OnDoc => Shows(Top, Root(Top))

LEMMA TopKept ==
  ASSUME CellInv
  PROVE  /\ DocInv /\ IsSheet(Top) /\ Kept(Top) /\ Follows(Top)
         /\ OnDoc => /\ Top.doc # 0 /\ Top.doc \in 1 .. Len(docs) /\ Tree(Root(Top))
                     /\ Viewed(Top) /\ LaysOver(Top) /\ Shows(Top, Root(Top))
<1>1. DocInv /\ IsSheet(Top) /\ Depth \in 1 .. Len(sheets) /\ Top = sheets[Depth]
  BY TopOK DEF CellInv, Depth
<1>2. Kept(Top) /\ Follows(Top)
  BY <1>1 DEF CellInv
<1>3. OnDoc => Top.doc # 0 /\ Top.doc \in 1 .. Len(docs)
  BY <1>1, OnDocIsDoc DEF OnDoc
<1>4. OnDoc => Tree(Root(Top)) /\ Shows(Top, Root(Top))
  BY <1>3 DEF CellInv, Root
<1> QED BY <1>1, <1>2, <1>3, <1>4 DEF Kept

LEMMA ShowSound ==
  ASSUME CellInv, DocInv', UNCHANGED file, \A d \in 1 .. Len(docs') : Tree(docs'[d].root),
         NEW t, Show(t), Kept(t), Follows(t), t.doc # 0 => Shows(t, docs'[t.doc].root)
  PROVE  CellInv'
<1>1. Depth \in 1 .. Len(sheets) /\ Depth = Len(sheets) /\ IsList(sheets)
  BY TopKept, TopOK DEF Depth, DocInv
<1>2. sheets' = Put(sheets, Depth, t)
  BY DEF Show, Depth, Put
<1>3. /\ Len(sheets') = Len(sheets) /\ sheets'[Depth] = t
      /\ \A i \in 1 .. Len(sheets) : i # Depth => sheets'[i] = sheets[i]
  BY <1>1, <1>2, ListUpdated
<1>4. \A i \in 1 .. Len(sheets') : Kept(sheets'[i]) /\ Follows(sheets'[i])
  BY <1>3 DEF CellInv
<1>5. Top' = t
  BY <1>1, <1>3 DEF Top
<1>6. OnDoc' => Shows(Top', Root(Top)')
  BY <1>5 DEF OnDoc, Root
<1>7. file' \in Files
  BY DEF CellInv
<1> QED BY <1>4, <1>6, <1>7 DEF CellInv

LEMMA StaySound ==
  ASSUME CellInv, DocInv', UNCHANGED <<file, docs, sheets>>
  PROVE  CellInv'
<1>1. Top' = Top
  BY DEF Top
<1>2. OnDoc' => Shows(Top', Root(Top)')
  BY <1>1 DEF OnDoc, Root, CellInv
<1> QED BY <1>2 DEF CellInv

LEMMA OpenSound ==
  ASSUME CellInv, DocInv', UNCHANGED file, \A d \in 1 .. Len(docs') : Tree(docs'[d].root),
         NEW t, Open(t), Kept(t), Follows(t), t.doc # 0 => Shows(t, docs'[t.doc].root)
  PROVE  CellInv'
<1>1. IsList(sheets) /\ Len(sheets) \in Nat
  BY ListFacts DEF CellInv, DocInv
<1>2. /\ Len(sheets') = Len(sheets) + 1
      /\ \A i \in 1 .. Len(sheets) : sheets'[i] = sheets[i]
      /\ sheets'[Len(sheets) + 1] = t
  BY <1>1, ListAppended DEF Open
<1>3. \A i \in 1 .. Len(sheets') : i \in 1 .. Len(sheets) \/ i = Len(sheets) + 1
  BY <1>1, <1>2
<1>4. \A i \in 1 .. Len(sheets') : Kept(sheets'[i]) /\ Follows(sheets'[i])
  BY <1>2, <1>3 DEF CellInv
<1>5. Top' = t
  BY <1>2 DEF Top
<1>6. OnDoc' => Shows(Top', Root(Top)')
  BY <1>5 DEF OnDoc, Root
<1>7. file' \in Files
  BY DEF CellInv
<1> QED BY <1>4, <1>6, <1>7 DEF CellInv

LEMMA TreesReplaced ==
  ASSUME CellInv, OnDoc, NEW tree, Tree(tree), Replace(Top.doc, tree)
  PROVE  docs'[Top.doc].root = tree /\ \A d \in 1 .. Len(docs') : Tree(docs'[d].root)
<1>1. DocInv /\ Top.doc \in 1 .. Len(docs)
  BY TopKept
<1>2. /\ Len(docs') = Len(docs) /\ docs'[Top.doc].root = tree
      /\ \A e \in 1 .. Len(docs) : e # Top.doc => docs'[e] = docs[e]
  BY <1>1, Replaced
<1> QED BY <1>2 DEF CellInv

LEMMA TreesAdded ==
  ASSUME CellInv, NEW tree, Tree(tree), docs' = Append(docs, [root |-> tree, revision |-> 0])
  PROVE  docs'[Len(docs) + 1].root = tree /\ \A d \in 1 .. Len(docs') : Tree(docs'[d].root)
<1>1. PICK added : added = [root |-> tree, revision |-> 0]
  OBVIOUS
<1>2. IsList(docs) /\ Len(docs) \in Nat /\ docs' = Append(docs, added)
  BY <1>1, ListFacts DEF CellInv, DocInv
<1>3. /\ Len(docs') = Len(docs) + 1 /\ docs'[Len(docs) + 1] = added
      /\ \A d \in 1 .. Len(docs) : docs'[d] = docs[d]
  BY <1>2, ListAppended
<1>4. \A d \in 1 .. Len(docs') : d \in 1 .. Len(docs) \/ d = Len(docs) + 1
  BY <1>2, <1>3
<1>5. added.root = tree
  BY <1>1
<1> QED BY <1>3, <1>4, <1>5 DEF CellInv

\* The tree written and the active sheet shown over it.
LEMMA EditSound ==
  ASSUME CellInv, DocInv', UNCHANGED file, OnDoc, NEW tree, Tree(tree), Replace(Top.doc, tree),
         NEW t, Show(t), t.doc = Top.doc, t.hits = Top.hits, Kept(t), Shows(t, tree)
  PROVE  CellInv'
<1>1. Follows(t)
  BY TopKept DEF Follows
<1>2. docs'[Top.doc].root = tree /\ \A d \in 1 .. Len(docs') : Tree(docs'[d].root)
  BY TreesReplaced
<1> QED BY <1>1, <1>2, ShowSound

\* The active sheet shown otherwise over the trees there are.
LEMMA LookSound ==
  ASSUME CellInv, DocInv', UNCHANGED <<file, docs>>,
         NEW t, Show(t), t.doc = Top.doc, t.hits = Top.hits, Kept(t), OnDoc => Shows(t, Root(Top))
  PROVE  CellInv'
<1>1. Follows(t)
  BY TopKept DEF Follows
<1>2. \A d \in 1 .. Len(docs') : Tree(docs'[d].root)
  BY DEF CellInv
<1>3. t.doc # 0 => Shows(t, docs'[t.doc].root)
  BY DEF OnDoc, Root
<1> QED BY <1>1, <1>2, <1>3, ShowSound

-----------------------------------------------------------------------------
(* The commands keep it.                                                   *)

LEMMA RefuseSound ==
  ASSUME CellInv, DocInv', Refuse
  PROVE  CellInv'
<1>1. PICK t : t = [Top EXCEPT !.redo = <<>>]
  OBVIOUS
<1>2. IsSheet(Top) /\ Kept(Top) /\ (OnDoc => Shows(Top, Root(Top)) /\ Viewed(Top))
  BY TopKept
<1>3. SameTable(Top, t) /\ t.undo = Top.undo /\ t.redo = <<>>
  BY <1>1, <1>2 DEF SameTable, IsSheet, Parts
<1>4. Kept(t) /\ (OnDoc => Shows(t, Root(Top)))
  BY <1>2, <1>3, SameTableKept, NoHistory DEF Viewed, SameTable, OnDoc
<1>5. Show(t) /\ UNCHANGED <<file, docs>>
  BY <1>1 DEF Refuse, Say
<1> QED BY <1>3, <1>4, <1>5, LookSound DEF SameTable

LEMMA RestoredHistory ==
  ASSUME NEW s, IsSheet(s), NEW snap
  PROVE  Restored(s, snap).undo = s.undo /\ Restored(s, snap).redo = s.redo
<1> DEFINE table == Project(snap.root, s.view)
           kept == [s EXCEPT !.cells = snap.cells, !.width = snap.width,
                             !.ordered = snap.ordered]
<1>1. Restored(s, snap) = IF table = Refused THEN kept ELSE Showing(s, table[2])
  BY DEF Restored, Refreshed
<1>2. kept.undo = s.undo /\ kept.redo = s.redo
  BY DEF IsSheet, Parts
<1>3. \A u : Showing(s, u).undo = s.undo /\ Showing(s, u).redo = s.redo
  BY DEF Showing, IsSheet, Parts
<1> HIDE DEF table, kept
<1> QED BY <1>1, <1>2, <1>3

\* A sheet restored, with another history.
WithHistory(s, back, forth) == [s EXCEPT !.undo = back, !.redo = forth]

LEMMA GoneBack ==
  ASSUME CellInv, OnDoc, NEW snap, Snap(snap), NEW back, History(back), NEW forth, History(forth),
         NEW t, t = WithHistory(Restored(Top, snap), back, forth)
  PROVE  t.doc = Top.doc /\ t.hits = Top.hits /\ Kept(t) /\ Shows(t, snap.root)
<1>1. PICK r : r = Restored(Top, snap)
  OBVIOUS
<1>2. IsSheet(Top) /\ Kept(Top) /\ Top.doc # 0
  BY TopKept
<1>3. IsSheet(r) /\ r.doc = Top.doc /\ r.hits = Top.hits /\ Kept(r) /\ Shows(r, snap.root)
  BY <1>1, <1>2, RestoredSame, RestoredLies DEF SameSheet
<1>4. SameTable(r, t) /\ t.undo = back /\ t.redo = forth
  BY <1>1, <1>3 DEF WithHistory, SameTable, IsSheet, Parts
<1>5. History(t.undo) /\ History(t.redo) /\ SameTable(r, t)
  BY <1>4
<1>6. Kept(t) /\ Shows(t, snap.root)
  BY <1>3, <1>5, SameTableKept
<1> QED BY <1>3, <1>5, <1>6 DEF SameTable

LEMMA TakeBackSound ==
  ASSUME CellInv, DocInv', OnDoc, NEW written, TakeBack(written)
  PROVE  CellInv'
<1>1. PICK snap : snap = Snapshot(Top)
  OBVIOUS
<1>2. IsSheet(Top) /\ Kept(Top) /\ Viewed(Top) /\ Top.doc # 0 /\ Tree(Root(Top))
  BY TopKept
<1>3. Snap(snap) /\ snap.root = Root(Top)
  BY <1>1, <1>2, SnapTaken DEF Snapshot
<1>4. PICK r : r = Restored(Top, snap)
  OBVIOUS
<1>5. PICK t : t = [r EXCEPT !.redo = <<>>]
  OBVIOUS
<1>6. IsSheet(r) /\ r.undo = Top.undo
  BY <1>2, <1>4, RestoredSame, RestoredHistory DEF SameSheet
<1>7. t = [r EXCEPT !.undo = Top.undo, !.redo = <<>>]
  BY <1>5, <1>6 DEF IsSheet, Parts
<1>8. t.doc = Top.doc /\ t.hits = Top.hits /\ Kept(t) /\ Shows(t, snap.root)
  <2>1. History(Top.undo) /\ History(<<>>)
    BY <1>2, NoHistory DEF Viewed
  <2>2. t = WithHistory(Restored(Top, snap), Top.undo, <<>>)
    BY <1>4, <1>7 DEF WithHistory
  <2>3. Snap(snap)
    BY <1>3
  <2> QED BY <2>1, <2>2, <2>3, GoneBack
<1>9. Show(t) /\ Replace(Top.doc, Root(Top)) /\ UNCHANGED file
  BY <1>1, <1>3, <1>4, <1>5 DEF TakeBack, Say
<1> QED BY <1>2, <1>3, <1>8, <1>9, EditSound

LEMMA UndoSound ==
  ASSUME CellInv, DocInv', Undo
  PROVE  CellInv'
<1>1. OnDoc /\ Top.undo # <<>>
  BY DEF Undo, MayGoBack
<1>2. IsSheet(Top) /\ Kept(Top) /\ Viewed(Top) /\ Top.doc # 0 /\ Tree(Root(Top))
  BY <1>1, TopKept
<1>3. PICK snap : snap = Last(Top.undo)
  OBVIOUS
<1>4. Snap(snap) /\ History(Front(Top.undo))
  BY <1>1, <1>2, <1>3, HistoryBack DEF Viewed
<1>5. PICK r : r = Restored(Top, snap)
  OBVIOUS
<1>6. r.undo = Top.undo /\ r.redo = Top.redo
  BY <1>2, <1>5, RestoredHistory
<1>7. History(Pushed(Top.redo, Snapshot(Top)))
  BY <1>2, SnapTaken, HistoryPushed DEF Viewed
<1>8. PICK t : t = [r EXCEPT !.undo = Front(Top.undo), !.redo = Pushed(Top.redo, Snapshot(Top))]
  OBVIOUS
<1>9. t.doc = Top.doc /\ t.hits = Top.hits /\ Kept(t) /\ Shows(t, snap.root)
  <2>1. t = WithHistory(Restored(Top, snap), Front(Top.undo), Pushed(Top.redo, Snapshot(Top)))
    BY <1>5, <1>8 DEF WithHistory
  <2>2. Snap(snap) /\ History(Front(Top.undo)) /\ History(Pushed(Top.redo, Snapshot(Top)))
    BY <1>4, <1>7
  <2> QED BY <1>1, <2>1, <2>2, GoneBack
<1>10. t = [r EXCEPT !.undo = Front(r.undo), !.redo = Pushed(r.redo, Snapshot(Top))]
  BY <1>6, <1>8
<1>11. Show(t) /\ Replace(Top.doc, snap.root) /\ UNCHANGED file
  <2>1. t = [Restored(Top, Last(Top.undo)) EXCEPT !.undo = Front(@), !.redo = Pushed(@, Snapshot(Top))]
    BY <1>3, <1>5, <1>10
  <2>2. Show(t)
    BY <2>1 DEF Undo
  <2> QED BY <1>3, <2>2 DEF Undo, Say
<1>12. Tree(snap.root)
  BY <1>4 DEF Snap
<1> QED BY <1>1, <1>9, <1>11, <1>12, EditSound

LEMMA RedoSound ==
  ASSUME CellInv, DocInv', Redo
  PROVE  CellInv'
<1>1. OnDoc /\ Top.redo # <<>>
  BY DEF Redo, MayGoBack
<1>2. IsSheet(Top) /\ Kept(Top) /\ Viewed(Top) /\ Top.doc # 0 /\ Tree(Root(Top))
  BY <1>1, TopKept
<1>3. PICK snap : snap = Last(Top.redo)
  OBVIOUS
<1>4. Snap(snap) /\ History(Front(Top.redo))
  BY <1>1, <1>2, <1>3, HistoryBack DEF Viewed
<1>5. PICK r : r = Restored(Top, snap)
  OBVIOUS
<1>6. IsSheet(r) /\ r.undo = Top.undo /\ r.redo = Top.redo
  BY <1>2, <1>5, RestoredHistory, RestoredSame DEF SameSheet
<1>7. History(Pushed(Top.undo, Snapshot(Top)))
  BY <1>2, SnapTaken, HistoryPushed DEF Viewed
<1>8. PICK t : t = [r EXCEPT !.undo = Pushed(Top.undo, Snapshot(Top)), !.redo = Front(Top.redo)]
  OBVIOUS
<1>9. t.doc = Top.doc /\ t.hits = Top.hits /\ Kept(t) /\ Shows(t, snap.root)
  <2>1. t = WithHistory(Restored(Top, snap), Pushed(Top.undo, Snapshot(Top)), Front(Top.redo))
    BY <1>5, <1>8 DEF WithHistory
  <2>2. Snap(snap) /\ History(Pushed(Top.undo, Snapshot(Top))) /\ History(Front(Top.redo))
    BY <1>4, <1>7
  <2> QED BY <1>1, <2>1, <2>2, GoneBack
<1>10. t = [r EXCEPT !.redo = Front(r.redo), !.undo = Pushed(r.undo, Snapshot(Top))]
  <2>1. PICK back : back = Pushed(Top.undo, Snapshot(Top))
    OBVIOUS
  <2>2. PICK forth : forth = Front(Top.redo)
    OBVIOUS
  <2>3. [r EXCEPT !.undo = back, !.redo = forth] = [r EXCEPT !.redo = forth, !.undo = back]
    BY <1>6 DEF IsSheet, Parts
  <2> QED BY <1>6, <1>8, <2>1, <2>2, <2>3
<1>11. Show(t) /\ Replace(Top.doc, snap.root) /\ UNCHANGED file
  <2>1. t = [Restored(Top, Last(Top.redo)) EXCEPT !.redo = Front(@), !.undo = Pushed(@, Snapshot(Top))]
    BY <1>3, <1>5, <1>10
  <2>2. Show(t)
    BY <2>1 DEF Redo
  <2> QED BY <1>3, <2>2 DEF Redo, Say
<1>12. Tree(snap.root)
  BY <1>4 DEF Snap
<1> QED BY <1>1, <1>9, <1>11, <1>12, EditSound

\* A sheet patched: cells of its own, and rows more whose key was edited.
LEMMA PatchedSheet ==
  ASSUME CellInv, OnDoc, NEW cells, IsGrid(cells, Top.width), Len(cells) = Len(Top.cells),
         NEW more, NEW tree,
         MappingOk(Top) /\ Get(tree, Top.view.anchor) # Absent =>
            \A q \in (Rows \ Top.renamed) \ more :
               ShowsRow(tree, Top.view.mode, Top.paths, Top.roles, cells, q),
         NEW t, t = [PushUndo(Top) EXCEPT !.cells = cells, !.renamed = @ \cup more]
  PROVE  t.doc = Top.doc /\ t.hits = Top.hits /\ Kept(t) /\ Shows(t, tree)
<1>1. IsSheet(Top) /\ Kept(Top) /\ Viewed(Top) /\ LaysOver(Top) /\ Top.doc # 0 /\ Tree(Root(Top))
  BY TopKept
<1>2. PICK u : u = PushUndo(Top)
  OBVIOUS
<1>3. SameTable(Top, u) /\ IsSheet(u) /\ Kept(u)
  BY <1>1, <1>2, PushedSame, PushedKept DEF SameTable
<1>4. /\ t.doc = u.doc /\ t.hits = u.hits /\ t.view = u.view /\ t.paths = u.paths /\ t.roles = u.roles
      /\ t.width = u.width /\ t.undo = u.undo /\ t.redo = u.redo
      /\ t.cells = cells /\ t.renamed = u.renamed \cup more
  BY <1>2, <1>3 DEF IsSheet, Parts
<1>5. /\ t.doc = Top.doc /\ t.hits = Top.hits /\ t.view = Top.view /\ t.paths = Top.paths
      /\ t.roles = Top.roles /\ t.width = Top.width /\ t.renamed = Top.renamed \cup more
  BY <1>3, <1>4 DEF SameTable
<1>6. Viewed(t)
  BY <1>1, <1>3, <1>4 DEF Kept, Viewed, SameTable
<1>7. Kept(t)
  BY <1>1, <1>4, <1>5, <1>6 DEF Kept, LaysOver
<1>8. Shows(t, tree)
  <2>1. MappingOk(t) => MappingOk(Top)
    BY <1>4, <1>5 DEF MappingOk
  <2>2. \A q \in DOMAIN t.paths \ t.renamed : q \in (Rows \ Top.renamed) \ more
    BY <1>5 DEF Rows
  <2> QED BY <1>4, <1>5, <2>1, <2>2 DEF Shows
<1> QED BY <1>5, <1>7, <1>8

LEMMA AnswerIs ==
  ASSUME NEW anchor, NEW mode, Layout(anchor, mode, Top.paths, Top.roles),
         NEW r \in Rows, NEW c \in Cols, NEW root, Tree(root), NEW text,
         Top.roles[c] # KeyRole => text \in Texts, NEW new, new = SetCell(root, r, c, text), new # Refused
  PROVE  Answer(new, r, c, text) = <<"text", text>>
<1>1. CASE Top.roles[c] = KeyRole
  BY <1>1 DEF Answer
<1>2. CASE Top.roles[c] # KeyRole
  <2>1. PICK path : path = Top.paths[r] \o Top.roles[c][2]
    OBVIOUS
  <2>2. PICK v : v = ParseScalar(text, Get(root, path))
    OBVIOUS
  <2>3. new = SetNode(root, path, v)
    BY <1>2, <2>1, <2>2, CellSetIs
  <2>4. IsPath(path)
    BY <2>1, ColumnPaths DEF Rel
  <2>5. Tree(v) /\ Shown(v) = <<"text", text>>
    BY <1>2, <2>2, ParsedText
  <2>6. Get(new, path) = v
    <3>1. SetNode(root, path, v) = Refused \/ Written(root, SetNode(root, path, v), path, v)
      BY <2>4, <2>5, SetNodeWrites
    <3> QED BY <2>3, <3>1 DEF Written
  <2> QED BY <1>2, <2>1, <2>5, <2>6 DEF Answer, CellPath
<1> QED BY <1>1, <1>2

\* A table with another cell at r, c.
CellPut(cells, r, c, e) == [cells EXCEPT ![r][c] = e]

LEMMA CellPatched ==
  ASSUME NEW cells, NEW width, IsGrid(cells, width), NEW r \in DOMAIN cells, NEW c \in 1 .. width, NEW e,
         NEW new, new = CellPut(cells, r, c, e)
  PROVE  /\ IsGrid(new, width) /\ Len(new) = Len(cells) /\ new[r][c] = e
         /\ \A b \in 1 .. width : b # c => new[r][b] = cells[r][b]
         /\ \A q \in DOMAIN cells : q # r => new[q] = cells[q]
<1>1. IsList(cells) /\ DOMAIN cells = 1 .. Len(cells) /\ Len(cells) \in Nat
  BY ListFacts DEF IsGrid
<1>2. PICK row : row = [cells[r] EXCEPT ![c] = e]
  OBVIOUS
<1>3. row = [b \in 1 .. width |-> row[b]] /\ row[c] = e /\ \A b \in 1 .. width : b # c => row[b] = cells[r][b]
  <2>1. cells[r] = [b \in 1 .. width |-> cells[r][b]]
    BY DEF IsGrid
  <2> QED BY <1>2, <2>1
<1>4. new = Put(cells, r, row)
  BY <1>2 DEF Put, CellPut
<1>5. /\ IsList(new) /\ Len(new) = Len(cells) /\ new[r] = row
      /\ \A q \in 1 .. Len(cells) : q # r => new[q] = cells[q]
  BY <1>1, <1>4, ListUpdated
<1>6. DOMAIN new = 1 .. Len(cells)
  BY <1>5, ListFacts
<1>7. \A q \in DOMAIN new : new[q] = [b \in 1 .. width |-> new[q][b]]
  BY <1>1, <1>3, <1>5, <1>6 DEF IsGrid
<1> QED BY <1>1, <1>3, <1>5, <1>7 DEF IsGrid

\* Where the table and its mapping are the same size.
LEMMA Sizes ==
  ASSUME CellInv, OnDoc, MappingOk(Top)
  PROVE  DOMAIN Top.cells = Rows /\ Cols = 1 .. Top.width /\ IsGrid(Top.cells, Top.width)
<1>1. LaysOver(Top)
  BY TopKept
<1>2. IsList(Top.paths) /\ IsList(Top.roles) /\ IsList(Top.cells) /\ IsGrid(Top.cells, Top.width)
  BY <1>1 DEF LaysOver, Layout, IsGrid
<1>3. DOMAIN Top.paths = 1 .. Len(Top.paths) /\ DOMAIN Top.roles = 1 .. Len(Top.roles)
      /\ DOMAIN Top.cells = 1 .. Len(Top.cells)
  BY <1>2, ListFacts
<1> QED BY <1>2, <1>3 DEF MappingOk, Rows, Cols

LEMMA ApplyEditSound ==
  ASSUME CellInv, DocInv', ApplyEdit
  PROVE  CellInv'
<1>1. OnDoc /\ MappingOk(Top)
  BY DEF ApplyEdit, MayEdit
<1>2. PICK r \in Rows, c \in Cols :
         \E text \in IF Top.roles[c] = KeyRole THEN Keys ELSE Texts :
           LET root == SetCell(Root(Top), r, c, text)
           IN  IF root = Refused THEN Refuse
               ELSE /\ Replace(Top.doc, root)
                    /\ Show([PushUndo(Top) EXCEPT !.cells[r][c] = Answer(root, r, c, text),
                                                  !.renamed = @ \cup Renaming({r}, c)])
                    /\ Say(FALSE)
  BY DEF ApplyEdit
<1>3. PICK text : /\ Top.roles[c] # KeyRole => text \in Texts
                  /\ LET root == SetCell(Root(Top), r, c, text)
                     IN  IF root = Refused THEN Refuse
                         ELSE /\ Replace(Top.doc, root)
                              /\ Show([PushUndo(Top) EXCEPT !.cells[r][c] = Answer(root, r, c, text),
                                                            !.renamed = @ \cup Renaming({r}, c)])
                              /\ Say(FALSE)
  BY <1>2
<1>4. PICK root : root = SetCell(Root(Top), r, c, text)
  OBVIOUS
<1>5. CASE root = Refused
  <2>1. Refuse
    BY <1>3, <1>4, <1>5
  <2> QED BY <2>1, RefuseSound
<1>6. CASE root # Refused
  <2>1. /\ Replace(Top.doc, root)
        /\ Show([PushUndo(Top) EXCEPT !.cells[r][c] = Answer(root, r, c, text),
                                      !.renamed = @ \cup Renaming({r}, c)])
        /\ Say(FALSE)
    BY <1>3, <1>4, <1>6
  <2>2. PICK anchor, mode : anchor = Top.view.anchor /\ mode = Top.view.mode
    OBVIOUS
  <2>3. Layout(anchor, mode, Top.paths, Top.roles) /\ Tree(Root(Top)) /\ Shows(Top, Root(Top)) /\ IsSheet(Top)
    BY <1>1, <2>2, TopKept DEF LaysOver
  <2>4. Tree(root)
    BY <1>4, <1>6, <2>3, CellSetGivesTree
  <2>5. Answer(root, r, c, text) = <<"text", text>>
    BY <1>3, <1>4, <1>6, <2>3, AnswerIs
  <2>6. PICK cells : cells = CellPut(Top.cells, r, c, <<"text", text>>)
    OBVIOUS
  <2>7. r \in DOMAIN Top.cells /\ c \in 1 .. Top.width /\ IsGrid(Top.cells, Top.width)
    BY <1>1, Sizes
  <2>8. /\ IsGrid(cells, Top.width) /\ Len(cells) = Len(Top.cells) /\ cells[r][c] = <<"text", text>>
        /\ \A b \in 1 .. Top.width : b # c => cells[r][b] = Top.cells[r][b]
        /\ \A q \in DOMAIN Top.cells : q # r => cells[q] = Top.cells[q]
    BY <2>6, <2>7, CellPatched
  <2>9. \A b \in Cols : b # c => cells[r][b] = Top.cells[r][b]
    BY <1>1, <2>8, Sizes
  <2>10. \A q \in Rows : q # r => cells[q] = Top.cells[q]
    BY <1>1, <2>8, Sizes
  <2>11. ASSUME NEW q \in (Rows \ Top.renamed) \ Renaming({r}, c)
         PROVE  ShowsRow(root, mode, Top.paths, Top.roles, cells, q)
    <3>1. Top.roles[c] = KeyRole => q # r
      BY <2>11 DEF Renaming
    <3>2. ShowsRow(Root(Top), mode, Top.paths, Top.roles, Top.cells, q) \/ (q = r /\ Top.roles = <<RowRole>>)
      <4>1. CASE Get(Root(Top), anchor) # Absent
        BY <1>1, <2>2, <2>3, <2>11, <4>1 DEF Shows, Rows
      <4>2. CASE Get(Root(Top), anchor) = Absent
        <5>1. SetCell(Root(Top), r, c, text) # Refused
          BY <1>4, <1>6
        <5>2. Get(Root(Top), anchor) # Absent \/ (Rows = {r} /\ Top.roles = <<RowRole>>)
          BY <2>3, <5>1, CellSetAnchored, ZenonT(20)
        <5>3. q \in Rows
          BY <2>11
        <5> QED BY <4>2, <5>2, <5>3
      <4> QED BY <4>1, <4>2
    <3>3. q \in Rows /\ (q # r => cells[q] = Top.cells[q])
      BY <2>10, <2>11
    <3>4. SetCell(Root(Top), r, c, text) # Refused /\ (Top.roles[c] # KeyRole => text \in Texts)
      BY <1>3, <1>4, <1>6
    <3>5. cells[r][c] = <<"text", text>>
      BY <2>8
    <3>6. ShowsRow(SetCell(Root(Top), r, c, text), mode, Top.paths, Top.roles, cells, q)
      BY <2>3, <2>9, <3>1, <3>2, <3>3, <3>4, <3>5, CellSet
    <3> QED BY <1>4, <3>6
  <2>12. PICK u : u = PushUndo(Top)
    OBVIOUS
  <2>13. PICK t : t = [u EXCEPT !.cells = cells, !.renamed = @ \cup Renaming({r}, c)]
    OBVIOUS
  <2>14. t = [u EXCEPT !.cells[r][c] = Answer(root, r, c, text), !.renamed = @ \cup Renaming({r}, c)]
    <3>1. SameTable(Top, u)
      BY <2>3, <2>12, PushedSame
    <3>2. u.cells = Top.cells
      BY <3>1 DEF SameTable
    <3>3. [u.cells EXCEPT ![r][c] = <<"text", text>>] = cells
      BY <2>6, <3>2 DEF CellPut
    <3> QED BY <2>5, <2>13, <3>3
  <2>15. Show(t)
    BY <2>1, <2>12, <2>14
  <2>16. t.doc = Top.doc /\ t.hits = Top.hits /\ Kept(t) /\ Shows(t, root)
    <3>1. t = [PushUndo(Top) EXCEPT !.cells = cells, !.renamed = @ \cup Renaming({r}, c)]
      BY <2>12, <2>13
    <3>2. \A q \in (Rows \ Top.renamed) \ Renaming({r}, c) :
             ShowsRow(root, Top.view.mode, Top.paths, Top.roles, cells, q)
      BY <2>2, <2>11
    <3>3. IsGrid(cells, Top.width) /\ Len(cells) = Len(Top.cells)
      BY <2>8
    <3> QED BY <1>1, <3>1, <3>2, <3>3, PatchedSheet
  <2>17. UNCHANGED file
    BY <2>1 DEF Say
  <2> QED BY <1>1, <2>1, <2>4, <2>15, <2>16, <2>17, EditSound
<1> QED BY <1>5, <1>6

LEMMA ApplyBulkEditSound ==
  ASSUME CellInv, DocInv', ApplyBulkEdit
  PROVE  CellInv'
<1>1. OnDoc /\ MappingOk(Top)
  BY DEF ApplyBulkEdit, MayEdit
<1>2. PICK marked \in {S \in SUBSET Rows : Cardinality(S) = 2}, c \in Cols :
         \E rows \in SetToSeqs(marked), text \in IF Top.roles[c] = KeyRole THEN Keys ELSE Texts :
           LET done == Bulk(rows, c, text)
           IN  IF done.failed THEN TakeBack(done.root)
               ELSE /\ Replace(Top.doc, done.root)
                    /\ Show([PushUndo(Top) EXCEPT !.cells = Patched(@, marked, c, text),
                                                  !.renamed = @ \cup Renaming(marked, c)])
                    /\ Say(FALSE)
  BY DEF ApplyBulkEdit
<1>3. PICK rows \in SetToSeqs(marked), text \in IF Top.roles[c] = KeyRole THEN Keys ELSE Texts :
           LET done == Bulk(rows, c, text)
           IN  IF done.failed THEN TakeBack(done.root)
               ELSE /\ Replace(Top.doc, done.root)
                    /\ Show([PushUndo(Top) EXCEPT !.cells = Patched(@, marked, c, text),
                                                  !.renamed = @ \cup Renaming(marked, c)])
                    /\ Say(FALSE)
  BY <1>2
<1>4. PICK done : done = Bulk(rows, c, text)
  OBVIOUS
<1>5. CASE done.failed
  <2>1. TakeBack(done.root)
    BY <1>3, <1>4, <1>5
  <2> QED BY <1>1, <2>1, TakeBackSound
<1>6. CASE ~done.failed
  <2>1. /\ Replace(Top.doc, done.root)
        /\ Show([PushUndo(Top) EXCEPT !.cells = Patched(@, marked, c, text),
                                      !.renamed = @ \cup Renaming(marked, c)])
        /\ Say(FALSE)
    BY <1>3, <1>4, <1>6
  <2>2. PICK anchor, mode : anchor = Top.view.anchor /\ mode = Top.view.mode
    OBVIOUS
  <2>3. /\ Layout(anchor, mode, Top.paths, Top.roles) /\ Tree(Root(Top)) /\ Shows(Top, Root(Top))
        /\ IsSheet(Top) /\ IsGrid(Top.cells, Top.width)
    BY <1>1, <2>2, TopKept DEF LaysOver
  <2>4. marked \in SUBSET Rows /\ Cardinality(marked) = 2 /\ (Top.roles[c] # KeyRole => text \in Texts)
        /\ ~Bulk(rows, c, text).failed
    BY <1>3, <1>4, <1>6
  <2>5. PICK cells : cells = Patched(Top.cells, marked, c, text)
    OBVIOUS
  <2>6. /\ Tree(Bulk(rows, c, text).root) /\ Get(Root(Top), anchor) # Absent
        /\ IsGrid(Patched(Top.cells, marked, c, text), Top.width)
        /\ Len(Patched(Top.cells, marked, c, text)) = Len(Top.cells)
        /\ \A q \in Rows \ Renaming(marked, c) :
              ShowsRow(Root(Top), mode, Top.paths, Top.roles, Top.cells, q) =>
              ShowsRow(Bulk(rows, c, text).root, mode, Top.paths, Top.roles,
                       Patched(Top.cells, marked, c, text), q)
    BY <1>1, <2>3, <2>4, BulkSet
  <2>7. /\ Tree(done.root) /\ Get(Root(Top), anchor) # Absent
        /\ IsGrid(cells, Top.width) /\ Len(cells) = Len(Top.cells)
        /\ \A q \in Rows \ Renaming(marked, c) :
              ShowsRow(Root(Top), mode, Top.paths, Top.roles, Top.cells, q) =>
              ShowsRow(done.root, mode, Top.paths, Top.roles, cells, q)
    BY <1>4, <2>5, <2>6
  <2>8. \A q \in (Rows \ Top.renamed) \ Renaming(marked, c) :
           ShowsRow(done.root, Top.view.mode, Top.paths, Top.roles, cells, q)
    BY <1>1, <2>2, <2>3, <2>7 DEF Shows, Rows
  <2>9. PICK t : t = [PushUndo(Top) EXCEPT !.cells = cells, !.renamed = @ \cup Renaming(marked, c)]
    OBVIOUS
  <2>10. t = [PushUndo(Top) EXCEPT !.cells = Patched(@, marked, c, text), !.renamed = @ \cup Renaming(marked, c)]
    <3>1. SameTable(Top, PushUndo(Top))
      BY <2>3, PushedSame
    <3>2. PushUndo(Top).cells = Top.cells
      BY <3>1 DEF SameTable
    <3>3. Patched(PushUndo(Top).cells, marked, c, text) = cells
      BY <2>5, <3>2
    <3> QED BY <2>9, <3>3
  <2>11. Show(t) /\ UNCHANGED file
    BY <2>1, <2>10 DEF Say
  <2>12. t.doc = Top.doc /\ t.hits = Top.hits /\ Kept(t) /\ Shows(t, done.root)
    <3>1. IsGrid(cells, Top.width) /\ Len(cells) = Len(Top.cells)
      BY <2>7
    <3> QED BY <1>1, <2>8, <2>9, <3>1, PatchedSheet
  <2> QED BY <1>1, <2>1, <2>7, <2>11, <2>12, EditSound
<1> QED BY <1>5, <1>6

\* An edit that rebuilds the table, over expansions of its own.
LEMMA RebuildSound ==
  ASSUME CellInv, DocInv', OnDoc, NEW tree, Tree(tree), Replace(Top.doc, tree), UNCHANGED file,
         NEW u, IsSheet(u), u.doc = Top.doc, u.hits = Top.hits, Kept(u),
         Show(Unsorted(Reprojected(u, tree)))
  PROVE  CellInv'
<1>1. PICK t : t = Unsorted(Reprojected(u, tree))
  OBVIOUS
<1>2. Viewed(u)
  BY DEF Kept, OnDoc
<1>3. Kept(t) /\ Shows(t, tree)
  BY <1>1, <1>2, RebuiltLies
<1>4. t.doc = Top.doc /\ t.hits = Top.hits
  <2>1. SameSheet(Top, u)
    BY DEF SameSheet
  <2>2. SameSheet(Top, t)
    BY <1>1, <2>1, Rebuilt
  <2> QED BY <2>2 DEF SameSheet
<1> QED BY <1>1, <1>3, <1>4, EditSound

LEMMA PushedTop ==
  ASSUME CellInv, OnDoc
  PROVE  /\ IsSheet(PushUndo(Top)) /\ PushUndo(Top).doc = Top.doc /\ PushUndo(Top).hits = Top.hits
         /\ PushUndo(Top).view = Top.view /\ Kept(PushUndo(Top)) /\ SameTable(Top, PushUndo(Top))
<1>1. IsSheet(Top) /\ Kept(Top) /\ Top.doc # 0 /\ Tree(Root(Top))
  BY TopKept
<1> QED BY <1>1, PushedSame, PushedKept DEF SameTable

\* A node that is there put in another's place.
LEMMA NodeReplaced ==
  ASSUME NEW root, Tree(root), NEW path, IsPath(path), Get(root, path) # Absent, NEW node, Tree(node)
  PROVE  Tree(SetNode(root, path, node))
<1>1. CASE path = <<>>
  BY <1>1 DEF SetNode
<1>2. CASE path # <<>>
  <2>1. PICK parent : parent = Get(root, Front(path))
    OBVIOUS
  <2>2. /\ IsPath(Front(path)) /\ IsSeg(Last(path))
        /\ Get(root, path) = Child(parent, Last(path))
    BY <1>2, <2>1, ParentOf
  <2>3. parent # Absent
    BY <2>2, NoneUnderNone
  <2>4. NodeOK(parent)
    BY <2>1, <2>2, <2>3 DEF Tree
  <2>5. Holds(parent, Last(path))
    BY <2>2, <2>4, ChildThere
  <2>6. SetNode(root, path, node) = Graft(root, path, node)
    <3>1. \/ Kind(parent) = "dict" /\ Last(path)[1] = "key"
          \/ Kind(parent) = "list" /\ Child(parent, Last(path)) # Absent
      BY <2>2, <2>5 DEF Holds
    <3> QED BY <1>2, <2>1, <3>1 DEF SetNode
  <2> QED BY <2>6, Replanted DEF Written
<1> QED BY <1>1, <1>2

LEMMA EditNodeSound ==
  ASSUME CellInv, DocInv', EditNode
  PROVE  CellInv'
<1>1. CASE Refuse
  BY <1>1, RefuseSound
<1>2. CASE ~Refuse
  <2>1. OnDoc
    BY DEF EditNode, MayEdit
  <2>2. PICK r \in Rows, c \in Cols, node \in Typed :
           LET path == CellPath(Top.paths, Top.roles, r, c)
               root == SetNode(Root(Top), path, node)
           IN  /\ IsContainer(Get(Root(Top), path))
               /\ Replace(Top.doc, root)
               /\ Show(Unsorted(Reprojected(PushUndo(Top), root)))
               /\ Say(FALSE)
    BY <1>2 DEF EditNode
  <2>3. PICK path : path = Top.paths[r] \o Rel(c)
    OBVIOUS
  <2>4. PICK root : root = SetNode(Root(Top), path, node)
    OBVIOUS
  <2>5. /\ IsContainer(Get(Root(Top), path)) /\ Replace(Top.doc, root)
        /\ Show(Unsorted(Reprojected(PushUndo(Top), root))) /\ UNCHANGED file
    BY <2>2, <2>3, <2>4 DEF CellPath, Rel, Say
  <2>6. Layout(Top.view.anchor, Top.view.mode, Top.paths, Top.roles) /\ Tree(Root(Top))
    BY <2>1, TopKept DEF LaysOver
  <2>7. IsPath(path)
    BY <2>3, <2>6, ColumnPaths
  <2>8. Tree(node)
    BY NodesAreTrees, NodesAssumption
  <2>9. Tree(root)
    BY <2>4, <2>5, <2>6, <2>7, <2>8, KindOfAbsent, NodeReplaced
  <2> QED BY <2>1, <2>5, <2>9, PushedTop, RebuildSound
<1> QED BY <1>1, <1>2

LEMMA DeleteRowsSound ==
  ASSUME CellInv, DocInv', DeleteRows
  PROVE  CellInv'
<1>1. OnDoc
  BY DEF DeleteRows, MayEdit
<1>2. PICK rows \in SUBSET Rows :
          LET done == Without(rows)
          IN  \/ TakeBack(done.root)
              \/ /\ Replace(Top.doc, done.root)
                 /\ Show(Unsorted(Reprojected(PushUndo(Top), done.root)))
                 /\ Say(FALSE)
  BY DEF DeleteRows
<1>3. Layout(Top.view.anchor, Top.view.mode, Top.paths, Top.roles) /\ Tree(Root(Top))
  BY <1>1, TopKept DEF LaysOver
<1>4. PICK root : root = Without(rows).root
  OBVIOUS
<1>5. Tree(root)
  BY <1>3, <1>4, WithoutGivesTree
<1>6. \/ TakeBack(root)
      \/ /\ Replace(Top.doc, root) /\ Show(Unsorted(Reprojected(PushUndo(Top), root))) /\ UNCHANGED file
  BY <1>2, <1>4 DEF Say
<1> QED BY <1>1, <1>5, <1>6, TakeBackSound, PushedTop, RebuildSound

\* The same view with other columns expanded.
LEMMA Reexpanded ==
  ASSUME NEW s, IsSheet(s), Kept(s), s.doc # 0, NEW e, IsFiniteSet(e),
         NEW u, u = [s EXCEPT !.view.expanded = e]
  PROVE  IsSheet(u) /\ u.doc = s.doc /\ u.hits = s.hits /\ Kept(u)
<1>1. PICK view : view = [s.view EXCEPT !.expanded = e]
  OBVIOUS
<1>2. IsView(s.view)
  BY DEF Kept, Viewed
<1>3. IsView(view) /\ view.anchor = s.view.anchor /\ view.mode = s.view.mode
  BY <1>1, <1>2 DEF IsView
<1>4. u = [s EXCEPT !.view = view]
  BY <1>1
<1>5. /\ IsSheet(u) /\ u.doc = s.doc /\ u.hits = s.hits /\ u.view = view
      /\ u.paths = s.paths /\ u.roles = s.roles /\ u.cells = s.cells /\ u.width = s.width
      /\ u.undo = s.undo /\ u.redo = s.redo
  BY <1>4 DEF IsSheet, Parts
<1> QED BY <1>3, <1>5 DEF Kept, Viewed, LaysOver

LEMMA ColumnOpSound ==
  ASSUME CellInv, DocInv', OnDoc, NEW kept, NEW outcome, Outcome(kept, outcome), ColumnOp(outcome)
  PROVE  CellInv'
<1>1. CASE outcome = Refused
  BY <1>1, RefuseSound DEF ColumnOp
<1>2. CASE outcome # Refused
  <2>1. PICK root, expanded : outcome = Done(root, expanded) /\ Tree(root) /\ IsFiniteSet(expanded)
    BY <1>2 DEF Outcome, Fits
  <2>2. outcome[2].root = root /\ outcome[2].expanded = expanded
    BY <2>1 DEF Done
  <2>3. PICK s : s = PushUndo(Top)
    OBVIOUS
  <2>4. PICK u : u = [s EXCEPT !.view.expanded = expanded]
    OBVIOUS
  <2>5. Replace(Top.doc, root) /\ Show(Unsorted(Reprojected(u, root))) /\ UNCHANGED file
    BY <1>2, <2>2, <2>3, <2>4 DEF ColumnOp, Say
  <2>6. IsSheet(s) /\ s.doc = Top.doc /\ s.hits = Top.hits /\ Kept(s) /\ s.doc # 0
    BY <2>3, PushedTop DEF OnDoc
  <2>7. IsSheet(u) /\ u.doc = Top.doc /\ u.hits = Top.hits /\ Kept(u)
    BY <2>1, <2>4, <2>6, Reexpanded
  <2> QED BY <2>1, <2>5, <2>7, RebuildSound
<1> QED BY <1>1, <1>2

LEMMA ColumnsSound ==
  ASSUME CellInv, DocInv', DeleteColumn \/ RenameColumn \/ InsertColumn \/ MoveColumn
  PROVE  CellInv'
<1>1. OnDoc
  BY DEF DeleteColumn, RenameColumn, InsertColumn, MoveColumn, MayEdit
<1>2. PICK anchor, mode : anchor = Top.view.anchor /\ mode = Top.view.mode
  OBVIOUS
<1>3. Layout(anchor, mode, Top.paths, Top.roles) /\ Tree(Root(Top)) /\ IsFiniteSet(Top.view.expanded)
  BY <1>1, <1>2, TopKept DEF LaysOver, Viewed, IsView
<1>4. CASE DeleteColumn
  <2>1. PICK c \in FieldColumns : ColumnOp(DeleteField(Rel(c)))
    BY <1>4 DEF DeleteColumn
  <2>2. Outcome(FALSE, DeleteField(Rel(c)))
    BY <1>3, DeleteFieldGives
  <2> QED BY <1>1, <2>1, <2>2, ColumnOpSound
<1>5. CASE RenameColumn
  <2>1. PICK c \in FieldColumns, k \in Keys : ColumnOp(RenameField(Rel(c), k))
    BY <1>5 DEF RenameColumn
  <2>2. Outcome(TRUE, RenameField(Rel(c), k))
    BY <1>3, RenameFieldGives
  <2> QED BY <1>1, <2>1, <2>2, ColumnOpSound
<1>6. CASE InsertColumn
  <2>1. PICK c \in Cols, k \in Keys : ColumnOp(InsertField(Rel(c), k))
    BY <1>6 DEF InsertColumn, FieldColumns
  <2>2. Outcome(TRUE, InsertField(Rel(c), k))
    BY <1>3, InsertFieldGives
  <2> QED BY <1>1, <2>1, <2>2, ColumnOpSound
<1>7. CASE MoveColumn
  <2>1. PICK c \in FieldColumns, d \in FieldColumns : ColumnOp(MoveField(c, Rel(c), Rel(d)))
    BY <1>7 DEF MoveColumn
  <2>2. PICK other : other = Rel(d)
    OBVIOUS
  <2>3. Outcome(TRUE, MoveField(c, Rel(c), other))
    BY <1>3, MoveFieldGives
  <2> QED BY <1>1, <2>1, <2>2, <2>3, ColumnOpSound
<1> QED BY <1>4, <1>5, <1>6, <1>7

LEMMA SortSound ==
  ASSUME CellInv, DocInv', Sort
  PROVE  CellInv'
<1>1. OnDoc /\ UNCHANGED <<file, docs>>
  BY DEF Sort, Say
<1>2. PICK u : u = PushUndo(Top)
  OBVIOUS
<1>3. PICK t : t = [u EXCEPT !.marked = TRUE, !.ordered = TRUE]
  OBVIOUS
<1>4. IsSheet(u) /\ Kept(u) /\ SameTable(Top, u) /\ u.doc # 0
  BY <1>1, <1>2, PushedTop DEF OnDoc
<1>5. SameTable(u, t) /\ t.undo = u.undo /\ t.redo = u.redo
  BY <1>3, <1>4 DEF SameTable, IsSheet, Parts
<1>6. Shows(Top, Root(Top))
  BY <1>1, TopKept
<1>7. Shows(u, Root(Top))
  BY <1>4, <1>6, SameTableKept
<1>8. Kept(t) /\ Shows(t, Root(Top))
  <2>1. History(t.undo) /\ History(t.redo)
    BY <1>4, <1>5 DEF Kept, Viewed
  <2> QED BY <1>4, <1>5, <1>7, <2>1, SameTableKept
<1>9. t.doc = Top.doc /\ t.hits = Top.hits
  BY <1>4, <1>5 DEF SameTable
<1>10. Show(t)
  BY <1>2, <1>3 DEF Sort
<1> QED BY <1>1, <1>8, <1>9, <1>10, LookSound

\* The active sheet rebuilt from the tree there is, after its view was changed.
LEMMA LookAgainSound ==
  ASSUME CellInv, DocInv', OnDoc, UNCHANGED <<file, docs>>,
         NEW u, IsSheet(u), u.doc = Top.doc, u.hits = Top.hits, Viewed(u),
         Get(Root(Top), u.view.anchor) # Absent \/ Kept(u),
         Show(Unsorted(Reprojected(u, Root(Top))))
  PROVE  CellInv'
<1>1. PICK root : root = Root(Top)
  OBVIOUS
<1>2. Tree(root)
  BY <1>1, TopKept
<1>3. PICK t : t = Unsorted(Reprojected(u, root))
  OBVIOUS
<1>4. Kept(t) /\ Shows(t, root)
  BY <1>1, <1>2, <1>3, RebuiltLies
<1>5. t.doc = Top.doc /\ t.hits = Top.hits
  <2>1. SameSheet(Top, u)
    BY DEF SameSheet
  <2>2. SameSheet(Top, t)
    BY <1>3, <2>1, Rebuilt
  <2> QED BY <2>2 DEF SameSheet
<1> QED BY <1>1, <1>3, <1>4, <1>5, LookSound

LEMMA ReshapeSound ==
  ASSUME CellInv, DocInv', OnDoc, NEW expanded, IsFiniteSet(expanded), Reshape(expanded)
  PROVE  CellInv'
<1>1. PICK u : u = [Top EXCEPT !.view.expanded = expanded]
  OBVIOUS
<1>2. IsSheet(Top) /\ Kept(Top) /\ Top.doc # 0
  BY TopKept
<1>3. IsSheet(u) /\ u.doc = Top.doc /\ u.hits = Top.hits /\ Kept(u)
  BY <1>1, <1>2, Reexpanded
<1>4. Viewed(u)
  BY <1>2, <1>3 DEF Kept
<1>5. Show(Unsorted(Reprojected(u, Root(Top)))) /\ UNCHANGED <<file, docs>>
  BY <1>1 DEF Reshape, Say
<1> QED BY <1>3, <1>4, <1>5, LookAgainSound

LEMMA LooksSound ==
  ASSUME CellInv, DocInv', ExpandColumn \/ ContractColumn \/ CycleViewMode
  PROVE  CellInv'
<1>1. OnDoc
  BY DEF ExpandColumn, ContractColumn, CycleViewMode
<1>2. IsFiniteSet(Top.view.expanded) /\ IsSheet(Top) /\ Viewed(Top)
  BY <1>1, TopKept DEF Viewed, IsView
<1>3. CASE ExpandColumn
  <2>1. PICK c \in FieldColumns : Reshape(Top.view.expanded \cup {Rel(c)})
    BY <1>3 DEF ExpandColumn
  <2>2. IsFiniteSet(Top.view.expanded \cup {Rel(c)})
    BY <1>2, FS_AddElement
  <2> QED BY <1>1, <2>1, <2>2, ReshapeSound
<1>4. CASE ContractColumn
  <2>1. PICK inner : Reshape({p \in Top.view.expanded : ~IsPrefix(inner, p)})
    BY <1>4 DEF ContractColumn
  <2>2. IsFiniteSet({p \in Top.view.expanded : ~IsPrefix(inner, p)})
    <3>1. {p \in Top.view.expanded : ~IsPrefix(inner, p)} \subseteq Top.view.expanded
      OBVIOUS
    <3> QED BY <1>2, <3>1, FS_Subset
  <2> QED BY <1>1, <2>1, <2>2, ReshapeSound
<1>5. CASE CycleViewMode
  <2>1. /\ UNCHANGED <<file, docs>> /\ Get(Root(Top), Top.view.anchor) # Absent
        /\ \E mode : Show(Unsorted(Reprojected(
              [Top EXCEPT !.view = [Top.view EXCEPT !.mode = mode, !.expanded = {}]], Root(Top))))
    BY <1>5 DEF CycleViewMode, Say
  <2>2. PICK mode : Show(Unsorted(Reprojected(
              [Top EXCEPT !.view = [Top.view EXCEPT !.mode = mode, !.expanded = {}]], Root(Top))))
    BY <2>1
  <2>3. PICK view : view = [Top.view EXCEPT !.mode = mode, !.expanded = {}]
    OBVIOUS
  <2>4. IsView(view) /\ view.anchor = Top.view.anchor
    BY <1>2, <2>3, FS_EmptySet DEF Viewed, IsView
  <2>5. PICK u : u = [Top EXCEPT !.view = view]
    OBVIOUS
  <2>6. /\ IsSheet(u) /\ u.doc = Top.doc /\ u.hits = Top.hits /\ u.view = view
        /\ u.undo = Top.undo /\ u.redo = Top.redo
    BY <1>2, <2>5 DEF IsSheet, Parts
  <2>7. Viewed(u) /\ Get(Root(Top), u.view.anchor) # Absent
    BY <1>2, <2>1, <2>4, <2>6 DEF Viewed
  <2>8. Show(Unsorted(Reprojected(u, Root(Top))))
    BY <2>2, <2>3, <2>5
  <2> QED BY <1>1, <2>1, <2>6, <2>7, <2>8, LookAgainSound
<1> QED BY <1>3, <1>4, <1>5

-----------------------------------------------------------------------------
(* Sheets that are opened.                                                 *)

LEMMA SheetOpened ==
  ASSUME CellInv, DocInv', UNCHANGED file, \A e \in 1 .. Len(docs') : Tree(docs'[e].root),
         NEW d, NEW root, docs'[d].root = root, Tree(root),
         NEW path, IsPath(path), Get(root, path) # Absent, NEW n, NEW sourced,
         Open(SheetOver(d, root, AutoView(n, path), sourced))
  PROVE  CellInv'
<1>1. PICK view : view = AutoView(n, path)
  OBVIOUS
<1>2. PICK s : s = SheetOver(d, root, view, sourced)
  OBVIOUS
<1>3. IsView(view) /\ view.anchor = path
  BY <1>1, AutoViewIs
<1>4. Kept(s) /\ Shows(s, root)
  BY <1>2, <1>3, OverLies
<1>5. s.doc = d /\ s.hits = NoHits
  BY <1>2, OverSheet
<1>6. Follows(s)
  BY <1>5 DEF Follows, NoHits
<1>7. Open(s)
  BY <1>1, <1>2
<1> QED BY <1>4, <1>5, <1>6, <1>7, OpenSound

LEMMA TreesStay ==
  ASSUME CellInv, UNCHANGED docs
  PROVE  \A d \in 1 .. Len(docs') : Tree(docs'[d].root)
BY DEF CellInv

LEMMA OpenAtSound ==
  ASSUME CellInv, DocInv', UNCHANGED <<file, docs>>, NEW d \in 1 .. Len(docs),
         NEW path, IsPath(path), Get(docs[d].root, path) # Absent, NEW sourced, OpenAt(d, path, sourced)
  PROVE  CellInv'
<1>1. PICK root : root = docs[d].root
  OBVIOUS
<1>2. Tree(root) /\ docs'[d].root = root
  BY <1>1 DEF CellInv
<1>3. Open(SheetOver(d, root, AutoView(Get(root, path), path), sourced))
  BY <1>1 DEF OpenAt
<1> QED BY <1>1, <1>2, <1>3, TreesStay, SheetOpened

LEMMA DiveSound ==
  ASSUME CellInv, DocInv', Dive
  PROVE  CellInv'
<1>1. OnDoc /\ UNCHANGED <<file, docs>>
  BY DEF Dive, Say
<1>2. Top.doc \in 1 .. Len(docs) /\ Layout(Top.view.anchor, Top.view.mode, Top.paths, Top.roles)
  BY <1>1, TopKept DEF LaysOver
<1>3. PICK path \in UnderCursor : IsContainer(Get(Root(Top), path)) /\ OpenAt(Top.doc, path, Top.sourced)
  BY DEF Dive
<1>4. IsPath(path)
  <2>1. CASE path \in {Top.paths[r] : r \in Rows}
    <3>1. PICK r \in Rows : path = Top.paths[r]
      BY <2>1
    <3> QED BY <1>2, <3>1, RowsPart DEF Rows
  <2>2. CASE path \in {CellPath(Top.paths, Top.roles, r, c) : r \in Rows, c \in FieldColumns}
    <3>1. PICK r \in Rows, c \in FieldColumns : path = CellPath(Top.paths, Top.roles, r, c)
      BY <2>2
    <3>2. c \in Cols
      BY DEF FieldColumns
    <3>3. path = Top.paths[r] \o Rel(c)
      BY <3>1 DEF CellPath, Rel
    <3> QED BY <1>2, <3>2, <3>3, ColumnPaths
  <2> QED BY <1>3, <2>1, <2>2 DEF UnderCursor
<1>5. Get(docs[Top.doc].root, path) # Absent
  BY <1>3, KindOfAbsent DEF Root
<1> QED BY <1>1, <1>2, <1>3, <1>4, <1>5, OpenAtSound

LEMMA OpenNodePathSound ==
  ASSUME CellInv, DocInv', UNCHANGED docs, NEW d \in 1 .. Len(docs),
         NEW path, IsPath(path), NEW sourced, OpenNodePath(d, path, sourced)
  PROVE  CellInv'
<1>1. PICK root : root = docs[d].root
  OBVIOUS
<1>2. UNCHANGED <<file, docs>>
  BY DEF OpenNodePath, Say
<1>3. CASE Get(root, path) = Absent
  BY <1>1, <1>2, <1>3, StaySound DEF OpenNodePath
<1>4. CASE Get(root, path) # Absent
  <2>1. PICK at : at = IF IsContainer(Get(root, path)) \/ path = <<>> THEN path ELSE Front(path)
    OBVIOUS
  <2>2. OpenAt(d, at, sourced)
    BY <1>1, <1>4, <2>1 DEF OpenNodePath
  <2>3. IsPath(at) /\ Get(root, at) # Absent
    <3>1. CASE at = path
      BY <1>4, <3>1
    <3>2. CASE at # path
      <4>1. path # <<>> /\ at = Front(path)
        BY <2>1, <3>2
      <4> QED BY <1>4, <4>1, ParentOf, NoneUnderNone
    <3> QED BY <3>1, <3>2
  <2> QED BY <1>1, <1>2, <2>2, <2>3, OpenAtSound
<1> QED BY <1>3, <1>4

LEMMA PathGotoSound ==
  ASSUME CellInv, DocInv', PathGoto
  PROVE  CellInv'
<1>1. OnDoc /\ UNCHANGED docs
  BY DEF PathGoto
<1>2. Top.doc \in 1 .. Len(docs)
  BY <1>1, TopKept
<1>3. PICK path \in Targets :
          (UNCHANGED sheets /\ Say(FALSE)) \/ OpenNodePath(Top.doc, path, Top.sourced)
  BY DEF PathGoto
<1>4. IsPath(path)
  BY TargetsAssumption
<1>5. CASE UNCHANGED sheets /\ Say(FALSE)
  BY <1>1, <1>5, StaySound DEF Say
<1>6. CASE OpenNodePath(Top.doc, path, Top.sourced)
  BY <1>1, <1>2, <1>4, <1>6, OpenNodePathSound
<1> QED BY <1>3, <1>5, <1>6

LEMMA OpenHitSound ==
  ASSUME CellInv, DocInv', OpenHit
  PROVE  CellInv'
<1>1. Top.hits.doc # 0 /\ UNCHANGED docs
  BY DEF OpenHit
<1>2. Top.hits.doc \in 1 .. Len(docs) /\ Follows(Top)
  BY <1>1, TopKept, TopOK DEF SheetOK, DocInv, IsList
<1>3. PICK path \in DOMAIN Top.hits.found :
          (UNCHANGED sheets /\ Say(TRUE)) \/ OpenNodePath(Top.hits.doc, path, Top.sourced)
  BY DEF OpenHit
<1>4. IsPath(path)
  BY <1>2 DEF Follows
<1>5. CASE UNCHANGED sheets /\ Say(TRUE)
  BY <1>1, <1>5, StaySound DEF Say
<1>6. CASE OpenNodePath(Top.hits.doc, path, Top.sourced)
  BY <1>1, <1>2, <1>4, <1>6, OpenNodePathSound
<1> QED BY <1>3, <1>5, <1>6

LEMMA DocSearchSound ==
  ASSUME CellInv, DocInv', DocSearch
  PROVE  CellInv'
<1>1. IsSheet(Top) /\ UNCHANGED <<file, docs>>
  BY TopKept DEF DocSearch, Say
<1>2. PICK pattern :
          LET hits == Hits(Root(Top), pattern)
              found == [p \in hits |-> Shown(Get(Root(Top), p))]
          IN  Open([Top EXCEPT
                !.doc = 0, !.hits = [doc |-> Top.doc, revision |-> docs[Top.doc].revision, found |-> found],
                !.paths = <<>>, !.roles = <<>>, !.cells = <<>>, !.width = 0, !.marked = FALSE,
                !.ordered = FALSE, !.undo = <<>>, !.redo = <<>>, !.renamed = {}])
  BY DEF DocSearch
<1> DEFINE places == Hits(Root(Top), pattern)
           found == [p \in places |-> Shown(Get(Root(Top), p))]
           list == [doc |-> Top.doc, revision |-> docs[Top.doc].revision, found |-> found]
           t == [Top EXCEPT
                !.doc = 0, !.hits = list,
                !.paths = <<>>, !.roles = <<>>, !.cells = <<>>, !.width = 0, !.marked = FALSE,
                !.ordered = FALSE, !.undo = <<>>, !.redo = <<>>, !.renamed = {}]
<1>3. Open(t)
  BY <1>2
<1>4. \A p \in places : IsPath(p)
  BY TopKept, PlacesAre DEF Hits, DocSearch
<1> HIDE DEF places
<1>5. DOMAIN list.found = places
  OBVIOUS
<1> HIDE DEF list
<1>6. t.doc = 0 /\ t.hits = list
  BY <1>1 DEF IsSheet, Parts
<1> HIDE DEF t
<1>7. Kept(t) /\ Follows(t)
  BY <1>4, <1>5, <1>6 DEF Kept, Follows
<1>8. \A d \in 1 .. Len(docs') : Tree(docs'[d].root)
  BY <1>1, TreesStay
<1> QED BY <1>1, <1>3, <1>6, <1>7, <1>8, OpenSound

LEMMA QuerySound ==
  ASSUME CellInv, DocInv', Query
  PROVE  CellInv'
<1>1. OnDoc /\ UNCHANGED file
  BY DEF Query, Say
<1>2. Tree(Root(Top))
  BY <1>1, TopKept
<1>3. PICK path \in Targets :
          LET root == Get(Root(Top), path)
          IN  /\ IsContainer(root)
              /\ docs' = Append(docs, [root |-> root, revision |-> 0])
              /\ Open(SheetOver(Len(docs) + 1, root, AutoView(root, <<>>), FALSE))
  BY DEF Query
<1>4. PICK root : root = Get(Root(Top), path)
  OBVIOUS
<1>5. /\ IsContainer(root)
      /\ docs' = Append(docs, [root |-> root, revision |-> 0])
      /\ Open(SheetOver(Len(docs) + 1, root, AutoView(root, <<>>), FALSE))
  BY <1>3, <1>4
<1>6. root # Absent /\ Tree(root)
  BY <1>2, <1>4, <1>5, TargetsAssumption, KindOfAbsent, PartIsTree
<1>7. docs'[Len(docs) + 1].root = root /\ \A d \in 1 .. Len(docs') : Tree(docs'[d].root)
  BY <1>5, <1>6, TreesAdded
<1>8. IsPath(<<>>) /\ Get(root, <<>>) # Absent
  BY <1>6, NoneIsPath, GetHere
<1> QED BY <1>1, <1>5, <1>6, <1>7, <1>8, SheetOpened

\* What is popped back to is laid out anew over the tree the popped sheet leaves.
LEMMA PopSound ==
  ASSUME CellInv, DocInv', Pop
  PROVE  CellInv'
<1> DEFINE n == Len(sheets) - 1
           rest == Front(sheets)
           below == sheets[n]
           shown == IF below.doc = 0 THEN below ELSE Reprojected(below, Root(below))
<1>0. Len(sheets) \in Nat /\ n \in 1 .. n /\ n \in 1 .. Len(sheets) /\ n < Len(sheets)
  BY DEF Pop, CellInv, DocInv, IsList
<1>1. /\ sheets' = Put(rest, n, shown) /\ UNCHANGED file
      /\ docs' = [d \in DOMAIN docs |-> IF d \in Held(rest) THEN docs[d] ELSE Freed(docs[d])]
  BY DEF Pop, Put, Say
<1>2. IsList(rest) /\ Len(rest) = n /\ \A i \in 1 .. n : rest[i] = sheets[i]
  BY <1>0, ListFront DEF CellInv, DocInv
<1>3. /\ DOMAIN docs = 1 .. Len(docs) /\ Len(docs) \in Nat /\ Len(docs') = Len(docs)
      /\ \A d \in 1 .. Len(docs) : IsDoc(docs[d]) /\ Tree(docs[d].root)
  BY <1>1 DEF CellInv, DocInv, IsList
<1>4. IsSheet(below) /\ Kept(below) /\ Follows(below) /\ below.doc \in 0 .. Len(docs)
  BY <1>0 DEF CellInv, DocInv, SheetOK
<1>5. \A d \in 1 .. Len(docs') : Tree(docs'[d].root)
  <2>1. SUFFICES ASSUME NEW d \in 1 .. Len(docs)
                 PROVE  Tree(docs'[d].root)
    BY <1>3
  <2>2. docs'[d] = docs[d] \/ docs'[d] = Freed(docs[d])
    BY <1>1, <1>3
  <2>3. Freed(docs[d]).root = Null
    BY <1>3 DEF Freed, IsDoc
  <2> QED BY <1>3, <2>2, <2>3, NullIsTree
<1>6. below.doc # 0 => below.doc \in 1 .. Len(docs) /\ docs'[below.doc] = docs[below.doc]
  <2>1. SUFFICES ASSUME below.doc # 0
                 PROVE  below.doc \in 1 .. Len(docs) /\ docs'[below.doc] = docs[below.doc]
    OBVIOUS
  <2>2. below.doc \in 1 .. Len(docs)
    BY <1>3, <1>4, <2>1
  <2>3. n \in DOMAIN rest /\ rest[n] = below
    BY <1>0, <1>2 DEF IsList
  <2>4. below.doc \in Held(rest)
    BY <2>3 DEF Held
  <2> QED BY <1>1, <1>3, <2>2, <2>4
<1> HIDE DEF rest
<1>7. Kept(shown) /\ Follows(shown) /\ (shown.doc # 0 => Shows(shown, docs'[shown.doc].root))
  <2>1. CASE below.doc = 0
    BY <1>4, <2>1
  <2>2. CASE below.doc # 0
    <3>1. PICK root : root = Root(below)
      OBVIOUS
    <3>2. Tree(root) /\ docs'[below.doc].root = root
      BY <1>3, <1>6, <2>2, <3>1 DEF Root
    <3>3. shown = Reprojected(below, root)
      BY <2>2, <3>1
    <3>4. Viewed(below)
      BY <1>4, <2>2 DEF Kept
    <3> HIDE DEF shown, below
    <3>5. Kept(shown) /\ Shows(shown, root)
      BY <1>4, <3>2, <3>3, <3>4, ReprojectedLies
    <3>6. shown.doc = below.doc /\ shown.hits = below.hits
      BY <1>4, <3>3, ReprojectedSame DEF SameSheet
    <3> QED BY <1>4, <3>2, <3>5, <3>6 DEF Follows
  <2> QED BY <2>1, <2>2
<1> HIDE DEF shown, below
<1>8. /\ Len(sheets') = n /\ sheets'[n] = shown
      /\ \A i \in 1 .. n : i # n => sheets'[i] = sheets[i]
  BY <1>0, <1>1, <1>2, ListUpdated
<1>9. \A i \in 1 .. n : i \in 1 .. Len(sheets)
  BY <1>0
<1>10. \A i \in 1 .. Len(sheets') : Kept(sheets'[i]) /\ Follows(sheets'[i])
  BY <1>7, <1>8, <1>9 DEF CellInv
<1>11. Top' = shown
  BY <1>8 DEF Top
<1>12. OnDoc' => Shows(Top', Root(Top)')
  BY <1>7, <1>11 DEF OnDoc, Root
<1>13. file' \in Files
  BY <1>1 DEF CellInv
<1> QED BY <1>5, <1>10, <1>12, <1>13 DEF CellInv

LEMMA FileIsTree == CellInv => Tree(file)
BY NodesAssumption, NodesAreTrees DEF CellInv

LEMMA ReloadSound ==
  ASSUME CellInv, DocInv', Reload
  PROVE  CellInv'
<1>1. CASE UNCHANGED <<docs, sheets>>
  BY <1>1, StaySound DEF Reload, Say
<1>2. CASE ~UNCHANGED <<docs, sheets>>
  <2>1. PICK view : view = AutoView(file, <<>>)
    OBVIOUS
  <2>2. PICK u : u = SheetOver(Len(docs) + 1, file, view, TRUE)
    OBVIOUS
  <2>3. PICK t : t = [u EXCEPT !.hits = Top.hits, !.marked = Top.marked, !.ordered = Top.marked]
    OBVIOUS
  <2>4. /\ docs' = Append(docs, [root |-> file, revision |-> 0])
        /\ Show(t) /\ UNCHANGED file
    BY <1>2, <2>1, <2>2, <2>3 DEF Reload, Say
  <2>5. Tree(file) /\ Get(file, <<>>) # Absent
    BY FileIsTree, GetHere, NodesAreThere, NoneIsPath DEF Tree
  <2>6. IsView(view) /\ view.anchor = <<>>
    BY <2>1, NoneIsPath, AutoViewIs
  <2>7. Kept(u) /\ Shows(u, file)
    BY <2>2, <2>5, <2>6, OverLies
  <2>8. IsSheet(u) /\ u.doc = Len(docs) + 1
    BY <2>2, OverSheet
  <2>9. /\ t.doc = u.doc /\ t.hits = Top.hits /\ t.view = u.view /\ t.paths = u.paths
        /\ t.roles = u.roles /\ t.cells = u.cells /\ t.width = u.width
        /\ t.renamed = u.renamed /\ t.undo = u.undo /\ t.redo = u.redo
    BY <2>3, <2>8 DEF IsSheet, Parts
  <2>10. Kept(t) /\ Shows(t, file)
    BY <2>7, <2>9 DEF Kept, Viewed, LaysOver, Shows, MappingOk
  <2>11. Follows(t)
    BY <2>9, TopKept DEF Follows
  <2>12. docs'[Len(docs) + 1].root = file /\ \A d \in 1 .. Len(docs') : Tree(docs'[d].root)
    BY <2>4, <2>5, TreesAdded
  <2> QED BY <2>4, <2>8, <2>9, <2>10, <2>11, <2>12, ShowSound
<1> QED BY <1>1, <1>2

-----------------------------------------------------------------------------
(* What the active sheet shows.                                            *)

LEMMA InitCellInv == Init => CellInv
<1> SUFFICES ASSUME Init PROVE CellInv
  OBVIOUS
<1>1. PICK view : view = AutoView(file, <<>>)
  OBVIOUS
<1>2. PICK s : s = SheetOver(1, file, view, TRUE)
  OBVIOUS
<1>3. PICK d : d = [root |-> file, revision |-> 0]
  OBVIOUS
<1>4. docs = <<d>> /\ sheets = <<s>> /\ file \in Files
  BY <1>1, <1>2, <1>3 DEF Init
<1>5. /\ Len(docs) = 1 /\ Len(sheets) = 1 /\ docs[1] = d /\ sheets[1] = s /\ Top = s
      /\ \A i \in 1 .. 1 : i = 1
  BY <1>4 DEF Top
<1>6. d.root = file /\ Tree(file)
  BY <1>3, <1>4, NodesAssumption, NodesAreTrees
<1>7. IsView(view) /\ view.anchor = <<>> /\ Get(file, <<>>) # Absent
  BY <1>1, <1>6, NoneIsPath, AutoViewIs, GetHere, NodesAreThere DEF Tree
<1>8. Kept(s) /\ Shows(s, file)
  BY <1>2, <1>6, <1>7, OverLies
<1>9. s.doc = 1 /\ s.hits = NoHits
  <2>1. PICK table : table = Project(file, view)[2]
    OBVIOUS
  <2>2. s = SheetOf(table, 1, view, TRUE)
    BY <1>2, <2>1 DEF SheetOver
  <2> QED BY <2>2 DEF SheetOf
<1>10. Follows(s)
  BY <1>9 DEF Follows, NoHits
<1>11. \A e \in 1 .. Len(docs) : Tree(docs[e].root)
  BY <1>5, <1>6
<1>12. \A i \in 1 .. Len(sheets) : Kept(sheets[i]) /\ Follows(sheets[i])
  BY <1>5, <1>8, <1>10
<1>13. Shows(Top, Root(Top))
  BY <1>5, <1>6, <1>8, <1>9 DEF Root
<1> QED BY <1>4, <1>11, <1>12, <1>13, InitDocInv DEF CellInv

LEMMA CellStep == CellInv /\ [Next]_vars => CellInv'
<1> SUFFICES ASSUME CellInv, [Next]_vars
             PROVE  CellInv'
  OBVIOUS
<1>1. CASE UNCHANGED vars
  <2>1. DocInv /\ UNCHANGED <<file, docs, sheets>>
    BY <1>1 DEF vars, CellInv
  <2>2. DocInv'
    BY <2>1, DocsStay, StackStays
  <2> QED BY <2>1, <2>2, StaySound
<1>2. CASE Next /\ ~UNCHANGED vars
  <2>1. DocInv'
    BY <1>2, NextGood DEF CellInv, Good
  <2>2. CASE ApplyEdit \/ ApplyBulkEdit \/ EditNode \/ DeleteRows
    BY <2>1, <2>2, ApplyEditSound, ApplyBulkEditSound, EditNodeSound, DeleteRowsSound
  <2>3. CASE DeleteColumn \/ RenameColumn \/ InsertColumn \/ MoveColumn
    BY <2>1, <2>3, ColumnsSound
  <2>4. CASE Undo \/ Redo \/ Sort
    BY <2>1, <2>4, UndoSound, RedoSound, SortSound
  <2>5. CASE ExpandColumn \/ ContractColumn \/ CycleViewMode
    BY <2>1, <2>5, LooksSound
  <2>6. CASE Dive \/ DocSearch \/ OpenHit \/ PathGoto
    BY <2>1, <2>6, DiveSound, DocSearchSound, OpenHitSound, PathGotoSound
  <2>7. CASE Query \/ Pop \/ Reload
    BY <2>1, <2>7, QuerySound, PopSound, ReloadSound
  <2> QED BY <1>2, <2>2, <2>3, <2>4, <2>5, <2>6, <2>7 DEF Next
<1> QED BY <1>1, <1>2

LEMMA CellInvShows == CellInv => CellsShowWhatTheyWrite
<1> SUFFICES ASSUME CellInv, OnDoc, MappingOk(Top), Project(Root(Top), Top.view) # Refused,
                    NEW r \in Rows \ Top.renamed, NEW c \in DOMAIN Top.roles
             PROVE  /\ Top.roles[c] = KeyRole => Get(Root(Top), Top.paths[r]) # Absent
                    /\ Top.roles[c] # TypeRole =>
                          Top.cells[r][c] = CellOf(Root(Top), Top.paths[r], Top.roles[c], Top.view.mode)
  BY DEF CellsShowWhatTheyWrite, ShowsWhatItWrites, OnDoc
<1>1. Shows(Top, Root(Top))
  BY TopKept
<1>2. Get(Root(Top), Top.view.anchor) # Absent
  BY NothingProjected
<1>3. ShowsRow(Root(Top), Top.view.mode, Top.paths, Top.roles, Top.cells, r)
  BY <1>1, <1>2 DEF Shows, Rows
<1> QED BY <1>3 DEF ShowsRow

\* Whatever was edited, deleted, reshaped, undone or edited in another sheet of the
\* chain, each cell of the active sheet shows the node an edit of it would write to
\* (doc_io.rs, set_cell and reproject; app/mod.rs, refresh_doc_projection).
THEOREM CellsAlwaysShowWhatTheyWrite == Spec => []CellsShowWhatTheyWrite
<1>1. CellInv /\ [Next]_vars => CellInv'
  BY CellStep
<1> QED BY <1>1, InitCellInv, CellInvShows, PTL DEF Spec

LEMMA ColumnOpKeeps ==
  ASSUME CellInv, OnDoc, NEW outcome, Outcome(TRUE, outcome), ColumnOp(outcome), ~refused'
  PROVE  Values(docs'[Top.doc].root) = Values(Root(Top))
<1>1. outcome # Refused
  BY DEF ColumnOp, Refuse, Say
<1>2. PICK root, expanded : outcome = Done(root, expanded) /\ Tree(root) /\ Values(root) = Values(Root(Top))
  BY <1>1 DEF Outcome, Fits, Keeps
<1>3. Replace(Top.doc, root)
  BY <1>1, <1>2 DEF ColumnOp, Done
<1>4. docs'[Top.doc].root = root
  BY <1>2, <1>3, TreesReplaced
<1> QED BY <1>2, <1>4

LEMMA ColumnsKeep ==
  ASSUME CellInv, RenameColumn \/ InsertColumn \/ MoveColumn, ~refused'
  PROVE  Values(docs'[Top.doc].root) = Values(Root(Top))
<1>1. OnDoc
  BY DEF RenameColumn, InsertColumn, MoveColumn, MayEdit
<1>2. PICK anchor, mode : anchor = Top.view.anchor /\ mode = Top.view.mode
  OBVIOUS
<1>3. Layout(anchor, mode, Top.paths, Top.roles) /\ Tree(Root(Top)) /\ IsFiniteSet(Top.view.expanded)
  BY <1>1, <1>2, TopKept DEF LaysOver, Viewed, IsView
<1>4. CASE RenameColumn
  <2>1. PICK c \in FieldColumns, k \in Keys : ColumnOp(RenameField(Rel(c), k))
    BY <1>4 DEF RenameColumn
  <2>2. Outcome(TRUE, RenameField(Rel(c), k))
    BY <1>3, RenameFieldGives
  <2> QED BY <1>1, <2>1, <2>2, ColumnOpKeeps
<1>5. CASE InsertColumn
  <2>1. PICK c \in Cols, k \in Keys : ColumnOp(InsertField(Rel(c), k))
    BY <1>5 DEF InsertColumn, FieldColumns
  <2>2. Outcome(TRUE, InsertField(Rel(c), k))
    BY <1>3, InsertFieldGives
  <2> QED BY <1>1, <2>1, <2>2, ColumnOpKeeps
<1>6. CASE MoveColumn
  <2>1. PICK c \in FieldColumns, d \in FieldColumns : ColumnOp(MoveField(c, Rel(c), Rel(d)))
    BY <1>6 DEF MoveColumn
  <2>2. PICK other : other = Rel(d)
    OBVIOUS
  <2>3. Outcome(TRUE, MoveField(c, Rel(c), other))
    BY <1>3, MoveFieldGives
  <2> QED BY <1>1, <2>1, <2>2, <2>3, ColumnOpKeeps
<1> QED BY <1>4, <1>5, <1>6

\* Renaming, adding and moving a column keep every value of the tree, as far down as
\* Values counts them and as often as they are there (doc_io.rs, rename_field,
\* insert_field, move_field).
THEOREM ColumnCommandsLoseNoValue == Spec => ColumnOpsLoseNoValue
<1>1. CellInv /\ [Next]_vars => CellInv'
  BY CellStep
<1>2. CellInv =>
        [(/\ OnDoc /\ ~refused' /\ Top.view.mode = "Records" /\ Len(sheets') = Len(sheets)
          /\ Len(docs') = Len(docs) /\ docs' # docs /\ Rows' = Rows
          /\ Values(docs'[Top.doc].root) # Values(Root(Top))) =>
            ~(RenameColumn \/ InsertColumn \/ MoveColumn)]_vars
  BY ColumnsKeep
<1> QED BY <1>1, <1>2, InitCellInv, PTL DEF Spec, ColumnOpsLoseNoValue

-----------------------------------------------------------------------------
(* What TypeOK says besides: a sheet is of a document or of its hits, its  *)
(* view is one the program has, and no history grows over its limit.       *)

Modes == {"Records", "KeyValue", "Scalars"}
Short(stack) == IsList(stack) /\ Len(stack) <= MaxUndo
Shape(s) ==
    /\ s.doc # 0 \/ s.hits.doc # 0
    /\ s.view.mode \in Modes /\ Short(s.undo) /\ Short(s.redo)
    /\ s.doc = 0 => s.cells = <<>> /\ s.paths = <<>>
Shaped ==
    /\ \A i \in 1 .. Len(sheets) : Shape(sheets[i])
    /\ Len(sheets) <= MaxDepth /\ refused \in BOOLEAN

\* A sheet that keeps document, mode and history of another.
SameCore(s, t) ==
    /\ IsSheet(t) /\ t.doc = s.doc /\ t.view.mode = s.view.mode
    /\ t.undo = s.undo /\ t.redo = s.redo

LEMMA NoneIsShort == Short(<<>>)
BY NoneIsPath, BoundsAssumption DEF Short, IsPath

LEMMA ShortPushed ==
  ASSUME NEW stack, Short(stack), NEW snap
  PROVE  Short(Pushed(stack, snap))
<1>1. IsList(stack) /\ Len(stack) \in Nat /\ Len(stack) <= MaxUndo /\ MaxUndo \in Nat /\ MaxUndo # 0
  BY ListFacts, BoundsAssumption DEF Short
<1>2. PICK rest : rest = IF Len(stack) = MaxUndo THEN Tail(stack) ELSE stack
  OBVIOUS
<1>3. IsList(rest) /\ Len(rest) \in Nat /\ Len(rest) < MaxUndo
  <2>1. CASE Len(stack) = MaxUndo
    <3> DEFINE T == {stack[i] : i \in 1 .. Len(stack)}
    <3>1. stack \in Seq(T)
      BY <1>1, ListedIsSeq
    <3> HIDE DEF T
    <3>2. stack # <<>>
      BY <1>1, <2>1, EmptyList
    <3>3. rest \in Seq(T) /\ Len(rest) = Len(stack) - 1
      BY <1>1, <1>2, <2>1, <3>1, <3>2, HeadTailProperties
    <3> QED BY <1>1, <2>1, <3>3, SeqIsListed
  <2>2. CASE Len(stack) # MaxUndo
    BY <1>1, <1>2, <2>2
  <2> QED BY <2>1, <2>2
<1>4. Pushed(stack, snap) = Append(rest, snap)
  BY <1>2 DEF Pushed
<1>5. IsList(Append(rest, snap)) /\ Len(Append(rest, snap)) = Len(rest) + 1
  BY <1>3, ListAppended
<1> QED BY <1>1, <1>3, <1>4, <1>5 DEF Short

LEMMA ShortBack ==
  ASSUME NEW stack, Short(stack), stack # <<>>
  PROVE  Short(Front(stack))
<1>1. IsList(stack) /\ Len(stack) \in Nat /\ Len(stack) > 0 /\ Len(stack) <= MaxUndo /\ MaxUndo \in Nat
  BY ListFacts, EmptyList, BoundsAssumption DEF Short
<1>2. IsList(Front(stack)) /\ Len(Front(stack)) = Len(stack) - 1
  BY <1>1, ListFront
<1> QED BY <1>1, <1>2 DEF Short

LEMMA CoreShaped ==
  ASSUME NEW s, Shape(s), s.doc # 0, NEW t, SameCore(s, t)
  PROVE  Shape(t)
BY DEF Shape, SameCore

LEMMA CoreFollows == ASSUME NEW s, NEW t, NEW u, SameCore(s, t), SameCore(t, u) PROVE SameCore(s, u)
BY DEF SameCore

LEMMA ReprojectedCore ==
  ASSUME NEW s, IsSheet(s), NEW root
  PROVE  SameCore(s, Reprojected(s, root))
<1> DEFINE table == Project(root, s.view)
<1>1. Reprojected(s, root) = IF table = Refused THEN s ELSE Showing(s, table[2])
  BY DEF Reprojected, Refreshed
<1>2. \A u : SameCore(s, Showing(s, u))
  BY DEF Showing, SameCore, IsSheet, Parts
<1> HIDE DEF table
<1> QED BY <1>1, <1>2 DEF SameCore

LEMMA RestoredCore ==
  ASSUME NEW s, IsSheet(s), NEW snap
  PROVE  SameCore(s, Restored(s, snap))
<1> DEFINE table == Project(snap.root, s.view)
           kept == [s EXCEPT !.cells = snap.cells, !.width = snap.width,
                             !.ordered = snap.ordered]
<1>1. Restored(s, snap) = IF table = Refused THEN kept ELSE Showing(s, table[2])
  BY DEF Restored, Refreshed
<1>2. SameCore(s, kept)
  BY DEF SameCore, IsSheet, Parts
<1>3. \A u : SameCore(s, Showing(s, u))
  BY DEF Showing, SameCore, IsSheet, Parts
<1> HIDE DEF table, kept
<1> QED BY <1>1, <1>2, <1>3

LEMMA RebuiltCore ==
  ASSUME NEW s, IsSheet(s), NEW root
  PROVE  SameCore(s, Unsorted(Reprojected(s, root)))
<1>1. PICK t : t = Reprojected(s, root)
  OBVIOUS
<1>2. SameCore(s, t)
  BY <1>1, ReprojectedCore
<1>3. SameCore(t, Unsorted(t))
  BY <1>2 DEF Unsorted, SameCore, IsSheet, Parts
<1> QED BY <1>1, <1>2, <1>3, CoreFollows

\* The same with a history of its own.
LEMMA HistoryShaped ==
  ASSUME NEW s, IsSheet(s), Shape(s), s.doc # 0, NEW back, Short(back), NEW forth, Short(forth)
  PROVE  Shape(WithHistory(s, back, forth))
<1>1. PICK t : t = WithHistory(s, back, forth)
  OBVIOUS
<1>2. t.doc = s.doc /\ t.view = s.view /\ t.undo = back /\ t.redo = forth
  BY <1>1 DEF WithHistory, IsSheet, Parts
<1> QED BY <1>1, <1>2 DEF Shape

LEMMA PushedShaped ==
  ASSUME NEW s, IsSheet(s), Shape(s), s.doc # 0
  PROVE  IsSheet(PushUndo(s)) /\ PushUndo(s).doc = s.doc /\ PushUndo(s).view = s.view /\ Shape(PushUndo(s))
<1>1. PICK back : back = Pushed(s.undo, Snapshot(s))
  OBVIOUS
<1>2. Short(back) /\ Short(<<>>)
  BY <1>1, ShortPushed, NoneIsShort DEF Shape
<1>3. PushUndo(s) = WithHistory(s, back, <<>>)
  BY <1>1 DEF PushUndo, WithHistory
<1>4. Shape(PushUndo(s))
  BY <1>2, <1>3, HistoryShaped
<1> QED BY <1>4, PushedSame DEF SameTable

-----------------------------------------------------------------------------
(* The commands keep it.                                                   *)

LEMMA TopShaped ==
  ASSUME CellInv, Shaped
  PROVE  Shape(Top) /\ IsSheet(Top) /\ (OnDoc => Top.doc # 0)
<1>1. Depth \in 1 .. Len(sheets) /\ Top = sheets[Depth]
  BY TopOK DEF CellInv, Depth
<1> QED BY <1>1, TopKept DEF Shaped

LEMMA ShowShaped ==
  ASSUME CellInv, Shaped, NEW t, Show(t), Shape(t), refused' \in BOOLEAN
  PROVE  Shaped'
<1>1. Depth \in 1 .. Len(sheets) /\ Depth = Len(sheets) /\ IsList(sheets)
  BY TopKept, TopOK DEF Depth, DocInv
<1>2. sheets' = Put(sheets, Depth, t)
  BY DEF Show, Depth, Put
<1>3. /\ Len(sheets') = Len(sheets) /\ sheets'[Depth] = t
      /\ \A i \in 1 .. Len(sheets) : i # Depth => sheets'[i] = sheets[i]
  BY <1>1, <1>2, ListUpdated
<1>4. \A i \in 1 .. Len(sheets') : Shape(sheets'[i])
  BY <1>3 DEF Shaped
<1> QED BY <1>3, <1>4 DEF Shaped

LEMMA StayShaped ==
  ASSUME Shaped, UNCHANGED sheets, refused' \in BOOLEAN
  PROVE  Shaped'
BY DEF Shaped

LEMMA OpenShaped ==
  ASSUME CellInv, Shaped, NEW t, Open(t), Shape(t), refused' \in BOOLEAN
  PROVE  Shaped'
<1>1. IsList(sheets) /\ Len(sheets) \in Nat
  BY ListFacts DEF CellInv, DocInv
<1>2. /\ Len(sheets') = Len(sheets) + 1
      /\ \A i \in 1 .. Len(sheets) : sheets'[i] = sheets[i]
      /\ sheets'[Len(sheets) + 1] = t
  BY <1>1, ListAppended DEF Open
<1>3. \A i \in 1 .. Len(sheets') : i \in 1 .. Len(sheets) \/ i = Len(sheets) + 1
  BY <1>1, <1>2
<1>4. \A i \in 1 .. Len(sheets') : Shape(sheets'[i])
  BY <1>2, <1>3 DEF Shaped
<1>5. Len(sheets') <= MaxDepth
  BY <1>1, <1>2, BoundsAssumption DEF Open
<1> QED BY <1>4, <1>5 DEF Shaped

LEMMA RefuseShaped ==
  ASSUME CellInv, Shaped, OnDoc, Refuse
  PROVE  Shaped'
<1>1. PICK t : t = WithHistory(Top, Top.undo, <<>>)
  OBVIOUS
<1>2. Shape(Top) /\ IsSheet(Top) /\ Top.doc # 0
  BY TopShaped
<1>3. Shape(t)
  BY <1>1, <1>2, HistoryShaped, NoneIsShort DEF Shape
<1>4. t = [Top EXCEPT !.redo = <<>>]
  BY <1>1, <1>2 DEF WithHistory, IsSheet, Parts
<1>5. Show(t) /\ refused' \in BOOLEAN
  BY <1>4 DEF Refuse, Say
<1> QED BY <1>3, <1>5, ShowShaped

\* What undo, redo and an edit taken back make of the active sheet.
LEMMA BackShaped ==
  ASSUME CellInv, Shaped, OnDoc, NEW snap, NEW back, Short(back), NEW forth, Short(forth)
  PROVE  Shape(WithHistory(Restored(Top, snap), back, forth))
<1>1. PICK r : r = Restored(Top, snap)
  OBVIOUS
<1>2. Shape(Top) /\ IsSheet(Top) /\ Top.doc # 0
  BY TopShaped
<1>3. IsSheet(r) /\ Shape(r) /\ r.doc # 0
  BY <1>1, <1>2, RestoredCore, CoreShaped DEF SameCore
<1>4. Shape(WithHistory(r, back, forth))
  BY <1>3, HistoryShaped
<1> QED BY <1>1, <1>4

LEMMA TakeBackShaped ==
  ASSUME CellInv, Shaped, OnDoc, NEW written, TakeBack(written)
  PROVE  Shaped'
<1>1. Shape(Top) /\ IsSheet(Top)
  BY TopShaped
<1>2. PICK r : r = Restored(Top, Snapshot(Top))
  OBVIOUS
<1>3. IsSheet(r) /\ r.undo = Top.undo
  BY <1>1, <1>2, RestoredCore DEF SameCore
<1>4. PICK t : t = WithHistory(r, Top.undo, <<>>)
  OBVIOUS
<1>5. Shape(t)
  BY <1>1, <1>2, <1>4, NoneIsShort, BackShaped DEF Shape
<1>6. t = [r EXCEPT !.redo = <<>>]
  BY <1>3, <1>4 DEF WithHistory, IsSheet, Parts
<1>7. Show(t) /\ refused' \in BOOLEAN
  BY <1>2, <1>6 DEF TakeBack, Say
<1> QED BY <1>5, <1>7, ShowShaped

LEMMA HistoryMovesShaped ==
  ASSUME CellInv, Shaped, Undo \/ Redo
  PROVE  Shaped'
<1>1. OnDoc /\ refused' \in BOOLEAN
  BY DEF Undo, Redo, MayGoBack, Say
<1>2. Shape(Top) /\ IsSheet(Top)
  BY TopShaped
<1>3. PICK now : now = Snapshot(Top)
  OBVIOUS
<1>4. CASE Undo
  <2>1. PICK r : r = Restored(Top, Last(Top.undo))
    OBVIOUS
  <2>2. r.undo = Top.undo /\ r.redo = Top.redo
    BY <1>2, <2>1, RestoredHistory
  <2>3. PICK t : t = [r EXCEPT !.undo = Front(r.undo), !.redo = Pushed(r.redo, now)]
    OBVIOUS
  <2>4. Show(t)
    BY <1>3, <1>4, <2>1, <2>3 DEF Undo
  <2>5. t = WithHistory(r, Front(Top.undo), Pushed(Top.redo, now))
    BY <2>2, <2>3 DEF WithHistory
  <2>6. Short(Front(Top.undo)) /\ Short(Pushed(Top.redo, now))
    BY <1>2, <1>4, ShortBack, ShortPushed DEF Shape, Undo
  <2>7. Shape(t)
    BY <1>1, <2>1, <2>5, <2>6, BackShaped
  <2> QED BY <1>1, <2>4, <2>7, ShowShaped
<1>5. CASE Redo
  <2>1. PICK r : r = Restored(Top, Last(Top.redo))
    OBVIOUS
  <2>2. r.undo = Top.undo /\ r.redo = Top.redo
    BY <1>2, <2>1, RestoredHistory
  <2>3. PICK t : t = [r EXCEPT !.redo = Front(r.redo), !.undo = Pushed(r.undo, now)]
    OBVIOUS
  <2>4. Show(t)
    BY <1>3, <1>5, <2>1, <2>3 DEF Redo
  <2>5. t = WithHistory(r, Pushed(Top.undo, now), Front(Top.redo))
    <3>1. IsSheet(r)
      BY <1>2, <2>1, RestoredCore DEF SameCore
    <3>2. PICK back, forth : back = Pushed(Top.undo, now) /\ forth = Front(Top.redo)
      OBVIOUS
    <3>3. t = [r EXCEPT !.redo = forth, !.undo = back]
      BY <2>2, <2>3, <3>2
    <3>4. t = [r EXCEPT !.undo = back, !.redo = forth]
      BY <3>1, <3>3 DEF IsSheet, Parts
    <3> QED BY <3>2, <3>4 DEF WithHistory
  <2>6. Short(Pushed(Top.undo, now)) /\ Short(Front(Top.redo))
    BY <1>2, <1>5, ShortBack, ShortPushed DEF Shape, Redo
  <2>7. Shape(t)
    BY <1>1, <2>1, <2>5, <2>6, BackShaped
  <2> QED BY <1>1, <2>4, <2>7, ShowShaped
<1> QED BY <1>4, <1>5

\* A sheet with its history pushed, and otherwise another's document and mode.
LEMMA ChangedShaped ==
  ASSUME CellInv, Shaped, OnDoc, NEW t, SameCore(PushUndo(Top), t), Show(t), refused' \in BOOLEAN
  PROVE  Shaped'
<1>1. Shape(Top) /\ IsSheet(Top) /\ Top.doc # 0
  BY TopShaped
<1>2. Shape(PushUndo(Top)) /\ PushUndo(Top).doc # 0
  BY <1>1, PushedShaped
<1>3. Shape(t)
  BY <1>2, CoreShaped
<1> QED BY <1>3, ShowShaped

LEMMA PatchedCore ==
  ASSUME NEW s, IsSheet(s), NEW cells, NEW renamed, NEW t, t = [s EXCEPT !.cells = cells, !.renamed = renamed]
  PROVE  SameCore(s, t)
BY DEF SameCore, IsSheet, Parts

LEMMA CellsShaped ==
  ASSUME CellInv, Shaped, ApplyEdit \/ ApplyBulkEdit
  PROVE  Shaped'
<1>1. OnDoc
  BY DEF ApplyEdit, ApplyBulkEdit, MayEdit
<1>2. PICK u : u = PushUndo(Top)
  OBVIOUS
<1>3. IsSheet(u)
  BY <1>1, <1>2, TopShaped, PushedShaped
<1>4. CASE Refuse
  BY <1>1, <1>4, RefuseShaped
<1>5. CASE ApplyEdit /\ ~Refuse
  <2>1. PICK r, c, text, tree :
            /\ Show([PushUndo(Top) EXCEPT !.cells[r][c] = Answer(tree, r, c, text),
                                          !.renamed = @ \cup Renaming({r}, c)])
            /\ Say(FALSE)
    BY <1>5 DEF ApplyEdit
  <2>2. PICK cells : cells = [u.cells EXCEPT ![r][c] = Answer(tree, r, c, text)]
    OBVIOUS
  <2>3. PICK renamed : renamed = u.renamed \cup Renaming({r}, c)
    OBVIOUS
  <2>4. PICK t : t = [u EXCEPT !.cells = cells, !.renamed = renamed]
    OBVIOUS
  <2>5. Show(t) /\ refused' \in BOOLEAN
    BY <1>2, <2>1, <2>2, <2>3, <2>4 DEF Say
  <2>6. SameCore(u, t)
    BY <1>3, <2>4, PatchedCore
  <2> QED BY <1>1, <1>2, <2>5, <2>6, ChangedShaped
<1>6. CASE ApplyBulkEdit
  <2>1. PICK marked, c, text, done :
           IF done.failed THEN TakeBack(done.root)
           ELSE /\ Show([PushUndo(Top) EXCEPT !.cells = Patched(@, marked, c, text),
                                              !.renamed = @ \cup Renaming(marked, c)])
                /\ Say(FALSE)
    BY <1>6 DEF ApplyBulkEdit
  <2>2. CASE done.failed
    BY <1>1, <2>1, <2>2, TakeBackShaped
  <2>3. CASE ~done.failed
    <3>1. PICK cells : cells = Patched(u.cells, marked, c, text)
      OBVIOUS
    <3>2. PICK renamed : renamed = u.renamed \cup Renaming(marked, c)
      OBVIOUS
    <3>3. PICK t : t = [u EXCEPT !.cells = cells, !.renamed = renamed]
      OBVIOUS
    <3>4. Show(t) /\ refused' \in BOOLEAN
      BY <1>2, <2>1, <2>3, <3>1, <3>2, <3>3 DEF Say
    <3>5. SameCore(u, t)
      BY <1>3, <3>3, PatchedCore
    <3> QED BY <1>1, <1>2, <3>4, <3>5, ChangedShaped
  <2> QED BY <2>2, <2>3
<1> QED BY <1>4, <1>5, <1>6

LEMMA NodesShaped ==
  ASSUME CellInv, Shaped, EditNode \/ DeleteRows
  PROVE  Shaped'
<1>1. OnDoc
  BY DEF EditNode, DeleteRows, MayEdit
<1>2. \/ Refuse
      \/ \E root : TakeBack(root)
      \/ \E root : Show(Unsorted(Reprojected(PushUndo(Top), root))) /\ Say(FALSE)
  <2>1. CASE EditNode
    BY <2>1 DEF EditNode
  <2>2. CASE DeleteRows
    <3>1. PICK done : \/ TakeBack(done.root)
                      \/ Show(Unsorted(Reprojected(PushUndo(Top), done.root))) /\ Say(FALSE)
      BY <2>2 DEF DeleteRows
    <3> QED BY <3>1
  <2> QED BY <2>1, <2>2
<1>3. CASE \E root : Show(Unsorted(Reprojected(PushUndo(Top), root))) /\ Say(FALSE)
  <2>1. PICK root : Show(Unsorted(Reprojected(PushUndo(Top), root))) /\ refused' \in BOOLEAN
    BY <1>3 DEF Say
  <2>2. IsSheet(PushUndo(Top))
    BY <1>1, TopShaped, PushedShaped
  <2> QED BY <1>1, <2>1, <2>2, RebuiltCore, ChangedShaped
<1> QED BY <1>1, <1>2, <1>3, RefuseShaped, TakeBackShaped

LEMMA ExpandedCore ==
  ASSUME NEW s, IsSheet(s), s.doc # 0, Kept(s), NEW e
  PROVE  SameCore(s, [s EXCEPT !.view.expanded = e])
<1>1. PICK view : view = [s.view EXCEPT !.expanded = e]
  OBVIOUS
<1>2. view.mode = s.view.mode
  BY <1>1 DEF Kept, Viewed, IsView
<1>3. SameCore(s, [s EXCEPT !.view = view])
  BY <1>2 DEF SameCore, IsSheet, Parts
<1> QED BY <1>1, <1>3

LEMMA ColumnOpShaped ==
  ASSUME CellInv, Shaped, OnDoc, NEW outcome, ColumnOp(outcome)
  PROVE  Shaped'
<1>1. CASE outcome = Refused
  BY <1>1, RefuseShaped DEF ColumnOp
<1>2. CASE outcome # Refused
  <2>1. PICK root, e : root = outcome[2].root /\ e = outcome[2].expanded
    OBVIOUS
  <2>2. PICK u : u = [PushUndo(Top) EXCEPT !.view.expanded = e]
    OBVIOUS
  <2>3. Show(Unsorted(Reprojected(u, root))) /\ refused' \in BOOLEAN
    BY <1>2, <2>1, <2>2 DEF ColumnOp, Say
  <2>4. SameCore(PushUndo(Top), u)
    BY <2>2, PushedTop, ExpandedCore DEF OnDoc
  <2>5. SameCore(PushUndo(Top), Unsorted(Reprojected(u, root)))
    BY <2>4, RebuiltCore, CoreFollows DEF SameCore
  <2> QED BY <2>3, <2>5, ChangedShaped
<1> QED BY <1>1, <1>2

LEMMA ColumnsShaped ==
  ASSUME CellInv, Shaped, DeleteColumn \/ RenameColumn \/ InsertColumn \/ MoveColumn
  PROVE  Shaped'
<1>1. OnDoc
  BY DEF DeleteColumn, RenameColumn, InsertColumn, MoveColumn, MayEdit
<1>2. \E outcome : ColumnOp(outcome)
  BY DEF DeleteColumn, RenameColumn, InsertColumn, MoveColumn
<1> QED BY <1>1, <1>2, ColumnOpShaped

LEMMA SortShaped ==
  ASSUME CellInv, Shaped, Sort
  PROVE  Shaped'
<1>1. OnDoc /\ refused' \in BOOLEAN
  BY DEF Sort, Say
<1>2. PICK u : u = PushUndo(Top)
  OBVIOUS
<1>3. PICK t : t = [u EXCEPT !.marked = TRUE, !.ordered = TRUE]
  OBVIOUS
<1>4. IsSheet(u)
  BY <1>1, <1>2, TopShaped, PushedShaped
<1>5. SameCore(u, t)
  BY <1>3, <1>4 DEF SameCore, IsSheet, Parts
<1>6. Show(t)
  BY <1>2, <1>3 DEF Sort
<1> QED BY <1>1, <1>2, <1>5, <1>6, ChangedShaped

\* The active sheet rebuilt over another view of the same document.
LEMMA LookShaped ==
  ASSUME CellInv, Shaped, OnDoc, NEW view, view.mode \in Modes, NEW u, u = [Top EXCEPT !.view = view],
         NEW root, Show(Unsorted(Reprojected(u, root))), refused' \in BOOLEAN
  PROVE  Shaped'
<1>1. Shape(Top) /\ IsSheet(Top) /\ Top.doc # 0
  BY TopShaped
<1>2. IsSheet(u) /\ u.doc = Top.doc /\ u.view = view /\ u.undo = Top.undo /\ u.redo = Top.redo
  BY <1>1 DEF IsSheet, Parts
<1>3. Shape(u)
  BY <1>1, <1>2 DEF Shape
<1>4. Shape(Unsorted(Reprojected(u, root)))
  BY <1>1, <1>2, <1>3, RebuiltCore, CoreShaped
<1> QED BY <1>4, ShowShaped

LEMMA ReshapeShaped ==
  ASSUME CellInv, Shaped, OnDoc, NEW expanded, Reshape(expanded)
  PROVE  Shaped'
<1>1. PICK view : view = [Top.view EXCEPT !.expanded = expanded]
  OBVIOUS
<1>2. IsView(Top.view) /\ Shape(Top)
  BY TopKept, TopShaped DEF Viewed
<1>3. view.mode \in Modes
  BY <1>1, <1>2 DEF IsView, Shape
<1>4. PICK u : u = [Top EXCEPT !.view = view]
  OBVIOUS
<1>5. u = [Top EXCEPT !.view.expanded = expanded]
  BY <1>1, <1>4
<1>6. Show(Unsorted(Reprojected(u, Root(Top)))) /\ refused' \in BOOLEAN
  BY <1>5 DEF Reshape, Say
<1> QED BY <1>3, <1>4, <1>6, LookShaped

LEMMA NextMode ==
  ASSUME NEW modes, \/ modes = <<"Records", "Scalars", "KeyValue">>
                    \/ modes = <<"KeyValue", "Records">> \/ modes = <<"Scalars">>,
         NEW cur \in DOMAIN modes
  PROVE  modes[(cur % Len(modes)) + 1] \in Modes
<1>1. CASE modes = <<"Records", "Scalars", "KeyValue">>
  <2>1. Len(modes) = 3 /\ cur \in 1 .. 3
    BY <1>1
  <2>2. cur % 3 \in 0 .. 2
    BY <2>1
  <2>3. (cur % Len(modes)) + 1 \in {1, 2, 3}
    BY <2>1, <2>2
  <2> QED BY <1>1, <2>3 DEF Modes
<1>2. CASE modes = <<"KeyValue", "Records">>
  <2>1. Len(modes) = 2 /\ cur \in 1 .. 2
    BY <1>2
  <2>2. cur % 2 \in 0 .. 1
    BY <2>1
  <2>3. (cur % Len(modes)) + 1 \in {1, 2}
    BY <2>1, <2>2
  <2> QED BY <1>2, <2>3 DEF Modes
<1>3. CASE modes = <<"Scalars">>
  <2>1. Len(modes) = 1 /\ cur = 1
    BY <1>3
  <2>2. (cur % Len(modes)) + 1 = 1
    BY <2>1
  <2> QED BY <1>3, <2>2 DEF Modes
<1> QED BY <1>1, <1>2, <1>3

LEMMA LooksShaped ==
  ASSUME CellInv, Shaped, ExpandColumn \/ ContractColumn \/ CycleViewMode
  PROVE  Shaped'
<1>1. OnDoc
  BY DEF ExpandColumn, ContractColumn, CycleViewMode
<1>2. CASE ExpandColumn \/ ContractColumn
  <2>1. \E expanded : Reshape(expanded)
    BY <1>2 DEF ExpandColumn, ContractColumn
  <2> QED BY <1>1, <2>1, ReshapeShaped
<1>3. CASE CycleViewMode
  <2>1. PICK modes : modes = ModesFor(Get(Root(Top), Top.view.anchor))
    OBVIOUS
  <2>2. \/ modes = <<"Records", "Scalars", "KeyValue">>
        \/ modes = <<"KeyValue", "Records">> \/ modes = <<"Scalars">>
    BY <2>1 DEF ModesFor
  <2>3. PICK cur : cur = IF Top.view.mode \in ToSet(modes)
                         THEN CHOOSE i \in DOMAIN modes : modes[i] = Top.view.mode ELSE 1
    OBVIOUS
  <2>4. cur \in DOMAIN modes
    <3>1. 1 \in DOMAIN modes
      BY <2>2
    <3>2. Top.view.mode \in ToSet(modes) => \E i \in DOMAIN modes : modes[i] = Top.view.mode
      BY DEF ToSet
    <3> QED BY <2>3, <3>1, <3>2
  <2>5. PICK mode : mode = modes[(cur % Len(modes)) + 1]
    OBVIOUS
  <2>6. mode \in Modes
    BY <2>2, <2>4, <2>5, NextMode
  <2>7. PICK view : view = [Top.view EXCEPT !.mode = mode, !.expanded = {}]
    OBVIOUS
  <2>8. IsView(Top.view)
    BY <1>1, TopKept DEF Viewed
  <2>9. view.mode \in Modes
    BY <2>6, <2>7, <2>8 DEF IsView
  <2>10. PICK u : u = [Top EXCEPT !.view = view]
    OBVIOUS
  <2>11. Show(Unsorted(Reprojected(u, Root(Top)))) /\ refused' \in BOOLEAN
    BY <1>3, <2>1, <2>3, <2>5, <2>7, <2>10 DEF CycleViewMode, Say
  <2> QED BY <1>1, <2>9, <2>10, <2>11, LookShaped
<1> QED BY <1>2, <1>3

-----------------------------------------------------------------------------
(* Sheets that are opened, and what is left of the stack.                  *)

LEMMA FreshShaped ==
  ASSUME NEW d, d # 0, NEW root, NEW n, NEW path, NEW sourced,
         NEW t, t = SheetOver(d, root, AutoView(n, path), sourced)
  PROVE  Shape(t) /\ IsSheet(t)
<1>1. PICK view : view = AutoView(n, path)
  OBVIOUS
<1>2. view.mode \in Modes
  BY <1>1 DEF AutoView, AutoMode, Modes
<1>3. PICK table : table = Project(root, view)[2]
  OBVIOUS
<1>4. t = SheetOf(table, d, view, sourced)
  BY <1>1, <1>3 DEF SheetOver
<1>5. t.doc = d /\ t.view = view /\ t.undo = <<>> /\ t.redo = <<>>
  BY <1>4 DEF SheetOf
<1>6. IsSheet(t)
  BY OverSheet
<1> QED BY <1>2, <1>5, <1>6, NoneIsShort DEF Shape

LEMMA OpenAtShaped ==
  ASSUME CellInv, Shaped, NEW d \in 1 .. Len(docs), NEW path, NEW sourced,
         OpenAt(d, path, sourced), refused' \in BOOLEAN
  PROVE  Shaped'
<1>1. PICK t : t = SheetOver(d, docs[d].root, AutoView(Get(docs[d].root, path), path), sourced)
  OBVIOUS
<1>2. Open(t) /\ d # 0
  BY <1>1 DEF OpenAt
<1> QED BY <1>1, <1>2, FreshShaped, OpenShaped

LEMMA OpenNodePathShaped ==
  ASSUME CellInv, Shaped, NEW d \in 1 .. Len(docs), NEW path, NEW sourced, OpenNodePath(d, path, sourced)
  PROVE  Shaped'
<1>1. \/ UNCHANGED sheets /\ Say(TRUE)
      \/ \E at : OpenAt(d, at, sourced) /\ Say(FALSE)
  BY DEF OpenNodePath
<1> QED BY <1>1, StayShaped, OpenAtShaped DEF Say

LEMMA GoneToShaped ==
  ASSUME CellInv, Shaped, Dive \/ OpenHit \/ PathGoto
  PROVE  Shaped'
<1>1. CASE Dive
  <2>1. OnDoc /\ refused' \in BOOLEAN /\ \E path : OpenAt(Top.doc, path, Top.sourced)
    BY <1>1 DEF Dive, Say
  <2> QED BY <2>1, TopKept, OpenAtShaped
<1>2. CASE OpenHit
  <2>1. Top.hits.doc \in 1 .. Len(docs)
    BY <1>2, TopKept, TopOK DEF SheetOK, DocInv, IsList, OpenHit
  <2>2. \/ UNCHANGED sheets /\ refused' \in BOOLEAN
        \/ \E path : OpenNodePath(Top.hits.doc, path, Top.sourced)
    BY <1>2 DEF OpenHit, Say
  <2> QED BY <2>1, <2>2, StayShaped, OpenNodePathShaped
<1>3. CASE PathGoto
  <2>1. OnDoc
    BY <1>3 DEF PathGoto
  <2>2. \/ UNCHANGED sheets /\ refused' \in BOOLEAN
        \/ \E path : OpenNodePath(Top.doc, path, Top.sourced)
    BY <1>3 DEF PathGoto, Say
  <2> QED BY <2>1, <2>2, TopKept, StayShaped, OpenNodePathShaped
<1> QED BY <1>1, <1>2, <1>3

LEMMA DocSearchShaped ==
  ASSUME CellInv, Shaped, DocSearch
  PROVE  Shaped'
<1>1. OnDoc /\ refused' \in BOOLEAN
  BY DEF DocSearch, Say
<1>2. IsSheet(Top) /\ Shape(Top) /\ Top.doc # 0
  BY <1>1, TopShaped
<1>3. PICK found :
          Open([Top EXCEPT
                !.doc = 0, !.hits = [doc |-> Top.doc, revision |-> docs[Top.doc].revision, found |-> found],
                !.paths = <<>>, !.roles = <<>>, !.cells = <<>>, !.width = 0, !.marked = FALSE,
                !.ordered = FALSE, !.undo = <<>>, !.redo = <<>>, !.renamed = {}])
  BY DEF DocSearch
<1>4. PICK list : list = [doc |-> Top.doc, revision |-> docs[Top.doc].revision, found |-> found]
  OBVIOUS
<1>5. PICK t : t = [Top EXCEPT
                !.doc = 0, !.hits = list,
                !.paths = <<>>, !.roles = <<>>, !.cells = <<>>, !.width = 0, !.marked = FALSE,
                !.ordered = FALSE, !.undo = <<>>, !.redo = <<>>, !.renamed = {}]
  OBVIOUS
<1>6. Open(t) /\ list.doc = Top.doc
  BY <1>3, <1>4, <1>5
<1>7. /\ t.doc = 0 /\ t.hits = list /\ t.view = Top.view /\ t.paths = <<>> /\ t.cells = <<>>
      /\ t.undo = <<>> /\ t.redo = <<>>
  BY <1>2, <1>5 DEF IsSheet, Parts
<1>8. Shape(t)
  BY <1>2, <1>6, <1>7, NoneIsShort DEF Shape
<1> QED BY <1>1, <1>6, <1>8, OpenShaped

LEMMA QueryShaped ==
  ASSUME CellInv, Shaped, Query
  PROVE  Shaped'
<1>1. PICK d : d = Len(docs) + 1
  OBVIOUS
<1>2. d # 0
  BY <1>1, ListFacts DEF CellInv, DocInv
<1>3. PICK root : Open(SheetOver(d, root, AutoView(root, <<>>), FALSE)) /\ refused' \in BOOLEAN
  BY <1>1 DEF Query, Say
<1>4. PICK t : t = SheetOver(d, root, AutoView(root, <<>>), FALSE)
  OBVIOUS
<1>5. Shape(t)
  BY <1>2, <1>4, FreshShaped
<1> QED BY <1>3, <1>4, <1>5, OpenShaped

LEMMA PopShaped ==
  ASSUME CellInv, Shaped, Pop
  PROVE  Shaped'
<1> DEFINE n == Len(sheets) - 1
           rest == Front(sheets)
           below == sheets[n]
           shown == IF below.doc = 0 THEN below ELSE Reprojected(below, Root(below))
<1>0. Len(sheets) \in Nat /\ n \in 1 .. n /\ n \in 1 .. Len(sheets) /\ n < Len(sheets)
  BY DEF Pop, CellInv, DocInv, IsList
<1>1. sheets' = Put(rest, n, shown) /\ refused' \in BOOLEAN
  BY DEF Pop, Put, Say
<1>2. IsList(rest) /\ Len(rest) = n /\ \A i \in 1 .. n : rest[i] = sheets[i]
  BY <1>0, ListFront DEF CellInv, DocInv
<1>3. IsSheet(below) /\ Shape(below)
  BY <1>0 DEF CellInv, DocInv, SheetOK, Shaped
<1> HIDE DEF rest, below
<1>4. Shape(shown)
  <2>1. CASE below.doc = 0
    BY <1>3, <2>1
  <2>2. CASE below.doc # 0
    BY <1>3, <2>2, ReprojectedCore, CoreShaped
  <2> QED BY <2>1, <2>2
<1> HIDE DEF shown
<1>5. /\ Len(sheets') = n /\ sheets'[n] = shown
      /\ \A i \in 1 .. n : i # n => sheets'[i] = rest[i]
  BY <1>0, <1>1, <1>2, ListUpdated
<1>6. \A i \in 1 .. n : i \in 1 .. Len(sheets)
  BY <1>0
<1>7. \A i \in 1 .. Len(sheets') : Shape(sheets'[i])
  BY <1>2, <1>4, <1>5, <1>6 DEF Shaped
<1>8. Len(sheets') <= MaxDepth
  BY <1>0, <1>5, BoundsAssumption DEF Shaped
<1> QED BY <1>1, <1>7, <1>8 DEF Shaped

LEMMA ReloadShaped ==
  ASSUME CellInv, Shaped, Reload
  PROVE  Shaped'
<1>1. refused' \in BOOLEAN
  BY DEF Reload, Say
<1>2. CASE UNCHANGED sheets
  BY <1>1, <1>2, StayShaped
<1>3. CASE ~UNCHANGED sheets
  <2>1. PICK d : d = Len(docs) + 1
    OBVIOUS
  <2>0. PICK u : u = SheetOver(d, file, AutoView(file, <<>>), TRUE)
    OBVIOUS
  <2>2. PICK t : t = [u EXCEPT !.hits = Top.hits, !.marked = Top.marked, !.ordered = Top.marked]
    OBVIOUS
  <2>3. Show(t)
    BY <1>3, <2>0, <2>1, <2>2 DEF Reload
  <2>4. d # 0
    BY <2>1, ListFacts DEF CellInv, DocInv
  <2>5. Shape(u) /\ IsSheet(u) /\ u.doc # 0
    BY <2>0, <2>4, FreshShaped, OverSheet
  <2>6. SameCore(u, t)
    BY <2>2, <2>5 DEF SameCore, IsSheet, Parts
  <2> QED BY <1>1, <2>3, <2>5, <2>6, CoreShaped, ShowShaped
<1> QED BY <1>2, <1>3

LEMMA InitShaped == Init => Shaped
<1> SUFFICES ASSUME Init PROVE Shaped
  OBVIOUS
<1>0. PICK d : d = 1
  OBVIOUS
<1>1. PICK s : s = SheetOver(d, file, AutoView(file, <<>>), TRUE)
  OBVIOUS
<1>2. sheets = <<s>> /\ refused = FALSE
  BY <1>0, <1>1 DEF Init
<1>3. Shape(s)
  <2>1. d # 0
    BY <1>0
  <2> QED BY <1>1, <2>1, FreshShaped
<1>4. Len(sheets) = 1 /\ sheets[1] = s /\ \A i \in 1 .. 1 : i = 1
  BY <1>2
<1>5. \A i \in 1 .. Len(sheets) : Shape(sheets[i])
  BY <1>3, <1>4
<1>6. Len(sheets) <= MaxDepth
  BY <1>4, BoundsAssumption
<1> QED BY <1>2, <1>5, <1>6 DEF Shaped

LEMMA ShapedStep == CellInv /\ Shaped /\ [Next]_vars => Shaped'
<1> SUFFICES ASSUME CellInv, Shaped, [Next]_vars
             PROVE  Shaped'
  OBVIOUS
<1>1. CASE UNCHANGED vars
  BY <1>1 DEF vars, Shaped
<1>2. CASE ApplyEdit \/ ApplyBulkEdit \/ EditNode \/ DeleteRows
  BY <1>2, CellsShaped, NodesShaped
<1>3. CASE DeleteColumn \/ RenameColumn \/ InsertColumn \/ MoveColumn
  BY <1>3, ColumnsShaped
<1>4. CASE Undo \/ Redo \/ Sort
  BY <1>4, HistoryMovesShaped, SortShaped
<1>5. CASE ExpandColumn \/ ContractColumn \/ CycleViewMode
  BY <1>5, LooksShaped
<1>6. CASE Dive \/ DocSearch \/ OpenHit \/ PathGoto
  BY <1>6, GoneToShaped, DocSearchShaped
<1>7. CASE Query \/ Pop \/ Reload
  BY <1>7, QueryShaped, PopShaped, ReloadShaped
<1> QED BY <1>1, <1>2, <1>3, <1>4, <1>5, <1>6, <1>7 DEF Next

\* The rows of a sheet are under the node of its view.
LEMMA RowsUnder ==
  ASSUME NEW anchor, NEW mode, NEW paths, NEW roles, Layout(anchor, mode, paths, roles),
         NEW r \in DOMAIN paths
  PROVE  IsPrefix(anchor, paths[r])
<1>1. IsPath(anchor) /\ IsList(anchor) /\ Len(anchor) \in Nat
  BY ListFacts DEF Layout, IsPath
<1>2. CASE paths[r] = anchor
  BY <1>1, <1>2 DEF IsPrefix
<1>3. CASE paths[r] # anchor
  <2>1. PICK e : paths[r] = Append(anchor, e)
    BY <1>3 DEF Layout, RowsOK
  <2>2. /\ Len(Append(anchor, e)) = Len(anchor) + 1
        /\ \A i \in 1 .. Len(anchor) : Append(anchor, e)[i] = anchor[i]
    BY <1>1, ListAppended
  <2> QED BY <1>1, <2>1, <2>2 DEF IsPrefix
<1> QED BY <1>2, <1>3

LEMMA RowsAsWide ==
  ASSUME NEW cells, NEW width, IsGrid(cells, width), NEW r \in DOMAIN cells
  PROVE  Len(cells[r]) = width
BY MadeList DEF IsGrid

LEMMA ShapesAreTypes == CellInv /\ Shaped => TypeOK
<1> SUFFICES ASSUME CellInv, Shaped PROVE TypeOK
  OBVIOUS
<1>1. /\ DOMAIN docs = 1 .. Len(docs) /\ Len(docs) \in Nat
      /\ DOMAIN sheets = 1 .. Len(sheets) /\ Len(sheets) \in Nat /\ Len(sheets) >= 1
  BY ListFacts DEF CellInv, DocInv, IsList
<1>2. ASSUME NEW d \in DOMAIN docs
      PROVE  docs[d].revision \in Nat /\ Kind(docs[d].root) # "absent"
  <2>1. IsDoc(docs[d]) /\ Tree(docs[d].root)
    BY <1>1 DEF CellInv, DocInv
  <2>2. NodeOK(docs[d].root)
    BY <2>1, NoneIsPath, GetHere DEF Tree
  <2> QED BY <2>1, <2>2 DEF IsDoc, NodeOK
<1>3. Len(sheets) \in 1 .. MaxDepth /\ refused \in BOOLEAN
  BY <1>1, BoundsAssumption DEF Shaped
<1>4. ASSUME NEW i \in DOMAIN sheets, NEW s, s = sheets[i]
      PROVE  /\ s.doc \in 0 .. Len(docs) /\ s.hits.doc \in 0 .. Len(docs)
             /\ s.doc # 0 \/ s.hits.doc # 0
             /\ s.view.mode \in {"Records", "KeyValue", "Scalars"}
             /\ Len(s.undo) <= MaxUndo /\ Len(s.redo) <= MaxUndo
             /\ \A r \in DOMAIN s.cells : Len(s.cells[r]) = s.width
             /\ \A p \in DOMAIN s.paths : IsPrefix(s.view.anchor, s.paths[p])
  <2>1. SheetOK(s, docs) /\ Kept(s) /\ Shape(s)
    BY <1>1, <1>4 DEF CellInv, DocInv, Shaped
  <2>2. \A r \in DOMAIN s.cells : Len(s.cells[r]) = s.width
    <3>1. CASE s.doc = 0
      BY <2>1, <3>1 DEF Shape
    <3>2. CASE s.doc # 0
      <4>1. IsGrid(s.cells, s.width)
        BY <2>1, <3>2 DEF Kept, LaysOver
      <4> QED BY <4>1, RowsAsWide
    <3> QED BY <3>1, <3>2
  <2>3. \A p \in DOMAIN s.paths : IsPrefix(s.view.anchor, s.paths[p])
    <3>1. CASE s.doc = 0
      BY <2>1, <3>1 DEF Shape
    <3>2. CASE s.doc # 0
      <4>1. PICK anchor, mode : anchor = s.view.anchor /\ mode = s.view.mode
        OBVIOUS
      <4>2. Layout(anchor, mode, s.paths, s.roles)
        BY <2>1, <3>2, <4>1 DEF Kept, LaysOver
      <4> QED BY <4>1, <4>2, RowsUnder
    <3> QED BY <3>1, <3>2
  <2> QED BY <2>1, <2>2, <2>3 DEF SheetOK, Shape, Short, Modes
<1> QED BY <1>2, <1>3, <1>4 DEF TypeOK

\* The sheets, their mappings and their histories keep the shapes the code gives them,
\* over any documents and to any depth (doc_io.rs, build and reproject; sheet.rs).
THEOREM DocTypeCorrect == Spec => []TypeOK
<1>1. CellInv /\ [Next]_vars => CellInv'
  BY CellStep
<1>2. CellInv /\ Shaped /\ [Next]_vars => Shaped'
  BY ShapedStep
<1> QED BY <1>1, <1>2, InitCellInv, InitShaped, ShapesAreTypes, PTL DEF Spec

=============================================================================
