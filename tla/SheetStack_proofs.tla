-------------------------- MODULE SheetStack_proofs --------------------------
(***************************************************************************)
(* The sheet stack with its swap files, proved for any set of tables and   *)
(* any depth: the swap discipline is an invariant, and through it the      *)
(* stack implements FrameStack.                                            *)
(***************************************************************************)
EXTENDS SheetStack, SequenceTheorems, TLAPS

IInv == TypeOK /\ SwapDiscipline

LEMMA InitIInv == Init => IInv
BY PlaceholderIsNoFrame, MaxDepthAssumption
   DEF Init, IInv, TypeOK, SwapDiscipline

(* Swapping in a position below the top and out again changes nothing.     *)
LEMMA PeekUnchanged ==
  ASSUME IInv, NEW idx \in 1 .. Len(sheets), CloneAt(idx)
  PROVE  /\ UNCHANGED <<sheets, swapped, files>>
         /\ taken' = Contents[idx]
         /\ taken' \in Frames
<1>1. CASE idx \in swapped
  <2> DEFINE here == SwapIn(Store, idx)
  <2>1. /\ here.sheets = [sheets EXCEPT ![idx] = files[idx]]
        /\ here.swapped = swapped \ {idx}
        /\ here.files = [i \in DOMAIN files \ {idx} |-> files[i]]
    BY <1>1 DEF SwapIn, Store, StoreWith
  <2>2. /\ sheets' = [here.sheets EXCEPT ![idx] = Placeholder]
        /\ swapped' = here.swapped \cup {idx}
        /\ files' = [i \in DOMAIN here.files \cup {idx} |->
                        IF i = idx THEN here.sheets[idx] ELSE here.files[i]]
        /\ taken' = here.sheets[idx]
    BY <1>1, <2>1 DEF CloneAt, Update, SwapOut
  <2>3. sheets[idx] = Placeholder /\ files[idx] \in Frames /\ DOMAIN files = swapped
    BY <1>1 DEF IInv, TypeOK, SwapDiscipline
  <2>4. sheets' = sheets
    BY <2>1, <2>2, <2>3 DEF IInv, TypeOK
  <2>5. swapped' = swapped
    BY <1>1, <2>1, <2>2
  <2>6. here.sheets[idx] = files[idx]
    BY <2>1 DEF IInv, TypeOK
  <2>7. files' = files
    <3>1. DOMAIN here.files \cup {idx} = swapped
      BY <1>1, <2>1, <2>3
    <3>2. \A i \in swapped : files'[i] = files[i]
      BY <2>1, <2>2, <2>3, <2>6, <3>1
    <3> QED BY <2>2, <3>1, <3>2 DEF IInv, TypeOK
  <2> QED BY <1>1, <2>2, <2>3, <2>4, <2>5, <2>6, <2>7 DEF Contents, IInv, TypeOK
<1>2. CASE idx \notin swapped
  <2>1. SwapIn(Store, idx) = Store
    BY <1>2 DEF SwapIn, Store, StoreWith
  <2>2. UNCHANGED <<sheets, swapped, files>> /\ taken' = sheets[idx]
    BY <1>2, <2>1 DEF CloneAt, Update, Store, StoreWith
  <2>3. sheets[idx] \in Frames
    BY <1>2 DEF IInv, TypeOK, SwapDiscipline
  <2> QED BY <1>2, <2>2, <2>3 DEF Contents, IInv, TypeOK
<1> QED BY <1>1, <1>2

(* The active sheet is a table in memory.                                  *)
LEMMA TopIsFrame == IInv => /\ Depth \in 1 .. MaxDepth /\ Depth \in Nat \ {0}
                            /\ Depth = Len(sheets) /\ Top \in Frames
BY MaxDepthAssumption DEF IInv, TypeOK, SwapDiscipline, Depth, Top

(* A step that leaves the sheets alone is a peek at a position where there *)
(* is no sheet.                                                            *)
LEMMA AsIsIsPeek == IInv /\ StackAsIs => CloneSheet(MaxDepth + 1)
BY TopIsFrame, MaxDepthAssumption DEF StackAsIs, CloneSheet

(* What a push does to each part of the stack.                             *)
LEMMA PushEffect ==
  ASSUME IInv, NEW f \in Frames, Push(f)
  PROVE  /\ sheets' = Append([sheets EXCEPT ![Len(sheets)] = Placeholder], f)
         /\ swapped' = swapped \cup {Len(sheets)}
         /\ files' = [i \in DOMAIN files \cup {Len(sheets)} |->
                         IF i = Len(sheets) THEN sheets[Len(sheets)] ELSE files[i]]
         /\ taken' = Nothing
<1>1. Len(sheets) \notin swapped
  BY DEF IInv, TypeOK, SwapDiscipline
<1> QED BY <1>1 DEF Push, SwapOut, Store, StoreWith

(* What a pop does to each part of the stack.                              *)
LEMMA PopEffect ==
  ASSUME IInv, Pop
  PROVE  LET top == Len(sheets) - 1 IN
         /\ top \in Nat \ {0} /\ top \in swapped
         /\ sheets' = [SubSeq(sheets, 1, top) EXCEPT ![top] = files[top]]
         /\ swapped' = swapped \ {top}
         /\ files' = [i \in DOMAIN files \ {top} |-> files[i]]
         /\ taken' = sheets[Len(sheets)]
<1>1. Len(sheets) - 1 \in Nat \ {0} /\ Len(sheets) - 1 \in swapped
  BY DEF Pop, IInv, TypeOK, SwapDiscipline
<1> QED BY <1>1 DEF Pop, SwapIn, Update, Store, StoreWith

LEMMA NextIInv == IInv /\ [Next]_vars => IInv'
<1> SUFFICES ASSUME IInv, [Next]_vars PROVE IInv'
  OBVIOUS
<1> USE PlaceholderIsNoFrame, NothingIsNoFrame, MaxDepthAssumption DEF IInv
<1>1. ASSUME NEW f \in Frames, Push(f) PROVE IInv'
  <2> DEFINE n == Len(sheets)
  <2>1. n \in 1 .. MaxDepth - 1 /\ n \in Nat /\ swapped = 1 .. n - 1
    BY <1>1 DEF Push, TypeOK, SwapDiscipline
  <2>2. /\ Len(sheets') = n + 1
        /\ \A i \in 1 .. n + 1 : sheets'[i] = IF i = n + 1 THEN f
                                              ELSE IF i = n THEN Placeholder
                                              ELSE sheets[i]
        /\ sheets' \in Seq(Frames \cup {Placeholder})
    <3> DEFINE below == [sheets EXCEPT ![n] = Placeholder]
    <3>1. sheets' = Append(below, f)
      BY <1>1, PushEffect
    <3>2. sheets \in Seq(Frames \cup {Placeholder}) /\ n \in DOMAIN sheets
      BY <2>1 DEF TypeOK
    <3>3. /\ below \in Seq(Frames \cup {Placeholder}) /\ Len(below) = n
          /\ \A i \in 1 .. n : below[i] = IF i = n THEN Placeholder ELSE sheets[i]
      BY <3>2
    <3> HIDE DEF below, n
    <3> QED BY <2>1, <3>1, <3>3
  <2>3. swapped' = 1 .. n
    <3>1. swapped' = swapped \cup {n}
      BY <1>1, PushEffect
    <3> HIDE DEF n
    <3> QED BY <2>1, <3>1
  <2>4. sheets[n] \in Frames
    BY <2>1 DEF TypeOK, SwapDiscipline
  <2>5. files' \in [swapped' -> Frames]
    BY <1>1, <2>1, <2>3, <2>4, PushEffect DEF TypeOK
  <2>6. taken' = Nothing
    BY <1>1, PushEffect
  <2>7. TypeOK'
    BY <2>1, <2>2, <2>3, <2>5, <2>6 DEF TypeOK
  <2>8. \A i \in DOMAIN sheets' : sheets'[i] = Placeholder <=> i \in swapped'
    <3> SUFFICES ASSUME NEW i \in 1 .. n + 1
                 PROVE  sheets'[i] = Placeholder <=> i \in 1 .. n
      BY <2>2, <2>3
    <3>1. CASE i = n + 1
      BY <2>1, <2>2, <3>1
    <3>2. CASE i = n
      BY <2>1, <2>2, <3>2
    <3>3. CASE i \in 1 .. n - 1
      BY <2>1, <2>2, <3>3 DEF TypeOK, SwapDiscipline
    <3> QED BY <2>1, <3>1, <3>2, <3>3
  <2> QED BY <2>1, <2>2, <2>3, <2>5, <2>7, <2>8 DEF SwapDiscipline
<1>2. ASSUME NEW f \in Frames, Write(f) PROVE IInv'
  <2>1. /\ Len(sheets') = Len(sheets) /\ DOMAIN sheets' = DOMAIN sheets
        /\ \A i \in DOMAIN sheets :
              sheets'[i] = IF i = Len(sheets) THEN f ELSE sheets[i]
        /\ sheets' \in Seq(Frames \cup {Placeholder})
    BY <1>2 DEF Write, TypeOK, SwapDiscipline
  <2> QED BY <1>2, <2>1 DEF Write, TypeOK, SwapDiscipline
<1>3. ASSUME Pop PROVE IInv'
  <2> DEFINE top == Len(sheets) - 1
  <2>1. top \in Nat \ {0} /\ swapped = 1 .. top /\ files[top] \in Frames
    BY <1>3, PopEffect DEF TypeOK, SwapDiscipline
  <2>2. /\ Len(sheets') = top
        /\ \A i \in 1 .. top : sheets'[i] = IF i = top THEN files[top] ELSE sheets[i]
        /\ sheets' \in Seq(Frames \cup {Placeholder})
    <3> DEFINE lower == SubSeq(sheets, 1, top)
    <3>1. sheets' = [lower EXCEPT ![top] = files[top]]
      BY <1>3, PopEffect
    <3>2. /\ lower \in Seq(Frames \cup {Placeholder}) /\ Len(lower) = top
          /\ \A i \in 1 .. top : lower[i] = sheets[i]
      <4>1. top \in Nat \ {0} /\ \A i \in 1 .. top : sheets[i] \in Frames \cup {Placeholder}
        BY <2>1 DEF TypeOK
      <4> HIDE DEF top
      <4> QED BY <4>1, SubSeqProperties
    <3> HIDE DEF lower, top
    <3> QED BY <2>1, <3>1, <3>2
  <2>3. swapped' = 1 .. top - 1
    <3>1. swapped' = swapped \ {top}
      BY <1>3, PopEffect
    <3> HIDE DEF top
    <3> QED BY <2>1, <3>1
  <2>4. files' \in [swapped' -> Frames]
    BY <1>3, <2>1, <2>3, PopEffect DEF TypeOK
  <2>5. taken' \in Frames
    BY <1>3, PopEffect DEF TypeOK, SwapDiscipline
  <2>6. TypeOK'
    BY <2>1, <2>2, <2>3, <2>4, <2>5 DEF TypeOK
  <2>7. Len(sheets') \in 1 .. MaxDepth /\ DOMAIN sheets' = 1 .. top
    BY <2>1, <2>2 DEF TypeOK, SwapDiscipline
  <2>8. \A i \in 1 .. top : sheets'[i] = Placeholder <=> i \in 1 .. top - 1
    <3>1. \A i \in 1 .. top - 1 : sheets[i] = Placeholder /\ i # top /\ i \in 1 .. top
      BY <2>1 DEF TypeOK, SwapDiscipline
    <3> HIDE DEF top
    <3> QED BY <2>1, <2>2, <3>1
  <2> QED BY <2>2, <2>3, <2>4, <2>6, <2>7, <2>8 DEF SwapDiscipline
<1>4. ASSUME NEW idx \in 1 .. MaxDepth + 1, CloneSheet(idx) PROVE IInv'
  <2>1. UNCHANGED <<sheets, swapped, files>> /\ taken' \in Frames \cup {Nothing}
    BY <1>4, PeekUnchanged DEF CloneSheet, TypeOK
  <2> QED BY <2>1 DEF TypeOK, SwapDiscipline
<1>5. ASSUME CloneParent PROVE IInv'
  <2>1. UNCHANGED <<sheets, swapped, files>> /\ taken' \in Frames \cup {Nothing}
    BY <1>5, PeekUnchanged DEF CloneParent, TypeOK
  <2> QED BY <2>1 DEF TypeOK, SwapDiscipline
<1>6. CASE UNCHANGED vars
  BY <1>6 DEF vars, TypeOK, SwapDiscipline
<1> QED BY <1>1, <1>2, <1>3, <1>4, <1>5, <1>6 DEF Next

(* Every reachable stack is well formed: one table per position, a swap    *)
(* file for each swapped position, and nothing of another type.            *)
THEOREM TypeCorrect == Spec => []TypeOK
BY InitIInv, NextIInv, PTL DEF Spec, IInv

(* In every reachable state exactly the sheets below the top are on disk,  *)
(* the swap directory holds their files and no other, and the active sheet *)
(* is never the empty placeholder.                                         *)
THEOREM SwapDisciplineHolds == Spec => []SwapDiscipline
BY InitIInv, NextIInv, PTL DEF Spec, IInv

-----------------------------------------------------------------------------
(* The refinement.                                                         *)

(* Where each table is: the top one in memory, the others in their files.  *)
ContentsShape ==
    /\ Contents \in Seq(Frames)
    /\ Len(Contents) = Len(sheets)
    /\ \A i \in 1 .. Len(sheets) : Contents[i] =
           IF i = Len(sheets) THEN sheets[i] ELSE files[i]

LEMMA ContentsType == IInv => ContentsShape
BY DEF IInv, TypeOK, SwapDiscipline, Contents, ContentsShape

LEMMA ContentsTypeNext == IInv' => ContentsShape'
BY ContentsType, PTL

LEMMA InitRefines == Init => Abstract!Init
BY DEF Init, Abstract!Init, Contents

LEMMA StepRefines == IInv /\ IInv' /\ [Next]_vars => [Abstract!Next]_(Abstract!vars)
<1> SUFFICES ASSUME IInv, IInv', [Next]_vars PROVE [Abstract!Next]_(Abstract!vars)
  OBVIOUS
<1> DEFINE n == Len(sheets)
<1> USE PlaceholderIsNoFrame, NothingIsNoFrame, MaxDepthAssumption
<1>n. n \in Nat \ {0} /\ swapped = 1 .. n - 1 /\ files \in [1 .. n - 1 -> Frames]
  BY DEF IInv, TypeOK, SwapDiscipline
<1>c. /\ Contents \in Seq(Frames)
      /\ Len(Contents) = n
      /\ \A i \in 1 .. n : Contents[i] = IF i = n THEN sheets[i] ELSE files[i]
  BY ContentsType DEF ContentsShape
<1>d. DOMAIN Contents = 1 .. n
  BY <1>n DEF Contents, IInv, TypeOK
<1>p. /\ Contents' \in Seq(Frames)
      /\ Len(Contents') = Len(sheets')
      /\ \A i \in 1 .. Len(sheets') : Contents'[i] =
             IF i = Len(sheets') THEN sheets'[i] ELSE files'[i]
  BY ContentsTypeNext DEF ContentsShape
<1>u. UNCHANGED <<sheets, swapped, files>> => UNCHANGED Contents
  BY DEF Contents
<1>1. ASSUME NEW f \in Frames, Push(f) PROVE Abstract!Push(f)
  <2>1. Len(sheets') = n + 1 /\ sheets'[n + 1] = f
    BY <1>1, <1>n, PushEffect DEF IInv, TypeOK
  <2>2. \A i \in 1 .. n : files'[i] = Contents[i]
    BY <1>1, <1>n, <1>c, PushEffect
  <2>3. Contents' = Append(Contents, f)
    <3> DEFINE appended == Append(Contents, f)
    <3>1. appended \in Seq(Frames) /\ Len(appended) = n + 1
      BY <1>c, <1>n
    <3>2. \A i \in 1 .. n + 1 : appended[i] = IF i = n + 1 THEN f ELSE Contents[i]
      BY <1>c, <1>n
    <3>3. \A i \in 1 .. n + 1 : Contents'[i] = appended[i]
      <4> TAKE i \in 1 .. n + 1
      <4>1. CASE i = n + 1
        BY <1>p, <1>n, <2>1, <3>2, <4>1
      <4>2. CASE i \in 1 .. n
        BY <1>p, <1>n, <2>1, <2>2, <3>2, <4>2
      <4>3. i = n + 1 \/ i \in 1 .. n
        <5>1. n \in Nat
          BY <1>n
        <5> HIDE DEF n
        <5> QED BY <5>1
      <4> QED BY <4>1, <4>2, <4>3
    <3> QED BY <1>p, <2>1, <3>1, <3>3
  <2> QED BY <1>1, <1>c, <2>3, PushEffect DEF Abstract!Push, Push
<1>2. ASSUME NEW f \in Frames, Write(f) PROVE Abstract!Write(f)
  <2>1. /\ Len(sheets') = n /\ sheets'[n] = f /\ files' = files /\ taken' = Nothing
    BY <1>2, <1>n DEF Write, IInv, TypeOK
  <2>2. Contents' = [Contents EXCEPT ![n] = f]
    <3> DEFINE written == [Contents EXCEPT ![n] = f]
    <3>1. /\ written \in Seq(Frames) /\ Len(written) = n
          /\ \A i \in 1 .. n : written[i] = IF i = n THEN f ELSE Contents[i]
      BY <1>c, <1>n
    <3>2. \A i \in 1 .. n : Contents'[i] = written[i]
      BY <1>p, <1>c, <1>n, <2>1, <3>1
    <3> QED BY <1>p, <2>1, <3>1, <3>2
  <2> QED BY <1>c, <2>1, <2>2 DEF Abstract!Write
<1>3. ASSUME Pop PROVE Abstract!Pop
  <2> DEFINE top == n - 1
  <2>1. /\ top \in Nat \ {0} /\ top \in swapped
        /\ sheets' = [SubSeq(sheets, 1, top) EXCEPT ![top] = files[top]]
        /\ files' = [i \in DOMAIN files \ {top} |-> files[i]]
        /\ taken' = sheets[n]
    BY <1>3, PopEffect
  <2>2. Len(sheets') = top /\ sheets'[top] = files[top]
    BY <2>1, <1>n DEF IInv, TypeOK
  <2>3. Contents' = SubSeq(Contents, 1, n - 1)
    <3> DEFINE shorter == SubSeq(Contents, 1, n - 1)
    <3>1. /\ shorter \in Seq(Frames) /\ Len(shorter) = top
          /\ \A i \in 1 .. top : shorter[i] = Contents[i]
      <4>1. /\ Contents \in Seq(Frames) /\ Len(Contents) = n /\ n \in Nat
            /\ n - 1 \in Nat /\ \A i \in 1 .. n - 1 : i \in 1 .. n
        BY <1>c, <1>n, <2>1
      <4>2. \A i \in 1 .. n - 1 : Contents[i] \in Frames
        <5> HIDE DEF n
        <5> QED BY <4>1
      <4> HIDE DEF n
      <4> QED BY <4>1, <4>2, SubSeqProperties
    <3>2. ASSUME NEW i \in 1 .. top PROVE Contents'[i] = shorter[i]
      <4>1. i \in 1 .. n - 1 /\ i \in 1 .. n /\ i # n
        BY <1>n, <2>1
      <4>2. Contents'[i] = files[i]
        <5>1. CASE i = top
          BY <1>p, <2>2, <5>1
        <5>2. CASE i # top
          <6>1. i \in DOMAIN files \ {top}
            BY <1>n, <4>1, <5>2
          <6>2. files'[i] = files[i]
            BY <2>1, <6>1
          <6> QED BY <1>p, <2>2, <5>2, <6>2
        <5> QED BY <5>1, <5>2
      <4>3. Contents[i] = files[i]
        BY <1>c, <4>1
      <4> QED BY <3>1, <4>2, <4>3
    <3> QED BY <1>p, <2>2, <3>1, <3>2
  <2> QED BY <1>c, <1>n, <2>1, <2>3 DEF Abstract!Pop
<1>4. ASSUME NEW idx \in 1 .. MaxDepth + 1, CloneSheet(idx) PROVE Abstract!Read(idx)
  <2>1. CASE idx \in 1 .. n
    <3>1. CloneAt(idx)
      BY <1>4, <2>1, <1>n DEF CloneSheet
    <3>2. UNCHANGED <<sheets, swapped, files>> /\ taken' = Contents[idx]
      BY <2>1, <3>1, PeekUnchanged
    <3> QED BY <1>c, <1>d, <1>u, <2>1, <3>2 DEF Abstract!Read
  <2>2. CASE idx > n
    <3>1. UNCHANGED <<sheets, swapped, files>> /\ taken' = Nothing
      BY <1>4, <1>n, <2>2 DEF CloneSheet, IInv, TypeOK
    <3>2. idx \notin DOMAIN Contents /\ UNCHANGED Contents
      BY <1>d, <1>n, <1>u, <2>2, <3>1
    <3> QED BY <3>1, <3>2 DEF Abstract!Read
  <2> QED BY <2>1, <2>2, <1>n
<1>5. ASSUME CloneParent PROVE \E i \in 0 .. MaxDepth + 1 : Abstract!Read(i)
  <2>0. n \in 1 .. MaxDepth
    BY DEF IInv, SwapDiscipline
  <2>1. CASE n >= 2
    <3>1. UNCHANGED <<sheets, swapped, files>> /\ taken' = Contents[n - 1]
      BY <1>5, <1>n, <2>1, PeekUnchanged DEF CloneParent
    <3>2. n - 1 \in DOMAIN Contents /\ UNCHANGED Contents
      BY <1>d, <1>n, <1>u, <2>1, <3>1
    <3>3. Abstract!Read(n - 1)
      BY <3>1, <3>2 DEF Abstract!Read
    <3> QED BY <2>0, <2>1, <3>3
  <2>2. CASE n < 2
    <3>1. UNCHANGED <<sheets, swapped, files>> /\ taken' = Nothing
      BY <1>5, <1>n, <2>2 DEF CloneParent
    <3>2. 0 \notin DOMAIN Contents /\ UNCHANGED Contents
      BY <1>d, <1>n, <1>u, <3>1
    <3>3. Abstract!Read(0)
      BY <3>1, <3>2 DEF Abstract!Read
    <3> QED BY <3>3
  <2> QED BY <2>1, <2>2, <1>n
<1>6. CASE UNCHANGED vars
  BY <1>6 DEF vars, Abstract!vars, Contents
<1> QED BY <1>1, <1>2, <1>3, <1>4, <1>5, <1>6 DEF Next, Abstract!Next

(* The swap files are invisible: every behaviour of the stack, whatever    *)
(* the tables and however deep, is one of a plain stack of tables.         *)
THEOREM RefinesFrameStack == Spec => ImplementsFrameStack
<1>1. Spec => []IInv
  BY InitIInv, NextIInv, PTL DEF Spec
<1> QED BY <1>1, InitRefines, StepRefines, PTL DEF Spec, ImplementsFrameStack, Abstract!Spec
=============================================================================
