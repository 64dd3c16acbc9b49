--------------------------- MODULE McpServer_proofs ---------------------------
(***************************************************************************)
(* The MCP server, proved for any tables, values and size of the cache and *)
(* any number of requests and outside writes: a plan runs at most once and *)
(* never after a newer call, statements touch only what was shown with     *)
(* them in the columns they keep, what was there when write_result looked  *)
(* is destroyed by a plan alone, and no cached frame that would be         *)
(* answered with is out of date.                                           *)
(***************************************************************************)
EXTENDS McpServer, Orders_proofs

Paths == {Db, File, Dir}

LEMMA Names ==
  /\ Db # File /\ Db # Dir /\ File # Dir
  /\ \A t \in Tables : t # File /\ t # Dir /\ t # Db
  /\ Tables \subseteq Objects /\ File \in Objects
  /\ \A o \in Objects : o \in Tables \/ o = File
  /\ \A src \in Sources : src \in Objects \/ src = Dir
  /\ \A src \in Sources : PathOf(src) \in Paths
BY NamesAssumption DEF Db, File, Dir, Objects, Sources, PathOf, Paths

LEMMA Contents ==
  /\ Absent \in Content
  /\ \A c \in Content : /\ c.there \in BOOLEAN /\ c.cols \in SUBSET Columns
                        /\ Held(c) \in SUBSET Keys
                        /\ \A k \in Held(c) : c.rows[k] \in [c.cols -> Cells]
<1>1. Absent \in Content
  <2>1. [k \in {} |-> <<>>] \in [{} -> Row]
    OBVIOUS
  <2> QED BY <2>1 DEF Absent, Content
<1>2. ASSUME NEW c \in Content
      PROVE  /\ c.there \in BOOLEAN /\ c.cols \in SUBSET Columns
             /\ Held(c) \in SUBSET Keys
             /\ \A k \in Held(c) : c.rows[k] \in [c.cols -> Cells]
  <2>1. PICK K \in SUBSET Keys : c.rows \in [K -> Row]
    BY DEF Content
  <2>2. ASSUME NEW k \in K
        PROVE  c.rows[k] \in [c.cols -> Cells]
    <3>1. c.rows[k] \in Row /\ DOMAIN c.rows[k] = c.cols
      BY <2>1 DEF Content
    <3>2. PICK C \in SUBSET Columns : c.rows[k] \in [C -> Cells]
      BY <3>1 DEF Row
    <3> QED BY <3>1, <3>2
  <2> QED BY <2>1, <2>2 DEF Content, Held
<1> QED BY <1>1, <1>2

(* A content from its parts.                                               *)
LEMMA ContentFrom ==
  ASSUME NEW there \in BOOLEAN, NEW cols \in SUBSET Columns, NEW K \in SUBSET Keys,
         NEW rows, rows = [k \in K |-> rows[k]],
         \A k \in K : rows[k] \in [cols -> Cells]
  PROVE  [there |-> there, cols |-> cols, rows |-> rows] \in Content
<1>1. \A k \in K : rows[k] \in Row /\ DOMAIN rows[k] = cols
  BY DEF Row
<1>2. rows \in [K -> Row] /\ DOMAIN rows = K
  <2> HIDE DEF Row
  <2>1. [k \in K |-> rows[k]] \in [K -> Row]
    BY <1>1
  <2> QED BY <2>1
<1> QED BY <1>1, <1>2 DEF Content

LEMMA ReadType ==
  ASSUME TypeOK, NEW src \in Sources
  PROVE  Read(src) \in Content
<1>1. disk[File] \in Content /\ disk \in [Objects -> Content]
  BY Names DEF TypeOK
<1>2. [disk[File] EXCEPT !.there = TRUE] \in Content
  BY <1>1 DEF Content
<1> QED BY <1>1, <1>2, Names DEF Read

-----------------------------------------------------------------------------
(* A cached frame is what its source holds unless its stamp is out of date. *)
Current(e) ==
    e.src # Dir /\ e.stamp = stamp[PathOf(e.src)] /\ e.stamp # 0 => e.df = disk[e.src]

(* The pending plan is the newest one, and has not been applied.           *)
PendingIsNewest ==
    pending # NoPlan => /\ pending.id = planSeq /\ planSeq \in 1 .. planSeq
                        /\ planSeq \notin retired
                        /\ applied[planSeq] = 0

GoodEntry == {e \in Entry : Current(e)}

PlansOK ==
    /\ pending \in {NoPlan} \cup Replacement \cup Statements
    /\ planSeq \in Nat
    /\ applied \in Seq(Nat) /\ Len(applied) = planSeq
    /\ retired \subseteq 1 .. planSeq
    /\ \A id \in DOMAIN applied : applied[id] <= 1
    /\ PendingIsNewest

IInv ==
    /\ TypeOK
    /\ PlansOK
    /\ cache \in Seq(GoodEntry)

(* What is about to be created was not there when write_result looked.     *)
CreatesWhatWasNotFound ==
    call.step \in {"Creating", "Running"} => call.out \notin found

-----------------------------------------------------------------------------

LEMMA InitIInv == Init => IInv
<1> SUFFICES ASSUME Init PROVE IInv
  OBVIOUS
<1>1. <<>> \in Seq(GoodEntry) /\ <<>> \in Seq(Entry) /\ <<>> \in Seq(Nat)
      /\ Len(<<>>) = 0 /\ DOMAIN <<>> = {}
  BY EmptySeq
<1>2. Idle.step = "Idle" /\ NoPlan.id = 0
  BY DEF Idle, NoPlan
<1>3. disk \in [Objects -> Content]
  BY DisksAssumption DEF Init
<1>4. stamp \in [Paths -> 0 .. clock]
  BY DEF Init, Paths
<1> QED BY <1>1, <1>2, <1>3, <1>4, BoundsAssumption
        DEF Init, IInv, TypeOK, PlansOK, PendingIsNewest, Paths

-----------------------------------------------------------------------------
(* Changes of the disk give the file a stamp no frame was ever cached under. *)

LEMMA PutEffect ==
  ASSUME TypeOK, NEW o \in Objects, NEW content \in Content, Put(o, content)
  PROVE  /\ disk' = [disk EXCEPT ![o] = content] /\ disk' \in [Objects -> Content]
         /\ clock' = clock + 1 /\ clock' \in Nat
         /\ stamp' \in [Paths -> 0 .. clock']
         /\ Entry \subseteq Entry'
         /\ \A e \in Entry : Current(e) => Current(e)'
<1>1. /\ disk \in [Objects -> Content] /\ clock \in Nat
      /\ stamp \in [Paths -> 0 .. clock]
  BY DEF TypeOK, Paths
<1>2. disk' = [disk EXCEPT ![o] = content] /\ disk' \in [Objects -> Content]
  BY <1>1 DEF Put
<1>3. clock' = clock + 1 /\ clock' \in Nat
  BY <1>1 DEF Put
<1>4. /\ stamp' \in [Paths -> 0 .. clock']
      /\ \A p \in Paths : stamp'[p] \in {stamp[p], 0, clock + 1}
      /\ stamp'[PathOf(o)] \in {0, clock + 1}
  BY <1>1, <1>3, Names DEF Put, Sources
<1>5. Entry \subseteq Entry'
  BY <1>1, <1>3 DEF Entry
<1>6. ASSUME NEW e \in Entry, Current(e),
             e.src # Dir, e.stamp = stamp'[PathOf(e.src)], e.stamp # 0
      PROVE  e.df = disk'[e.src]
  <2>1. e.src \in Objects /\ e.src \in Sources /\ e.stamp \in 0 .. clock
    BY <1>6, Names DEF Entry
  <2>2. e.stamp # clock + 1
    BY <1>1, <2>1
  <2>3. PathOf(e.src) # PathOf(o) /\ e.src # o
    BY <1>4, <1>6, <2>2
  <2>4. e.stamp = stamp[PathOf(e.src)]
    BY <1>4, <1>6, <2>1, <2>2, Names
  <2> QED BY <1>1, <1>2, <1>6, <2>1, <2>3, <2>4 DEF Current
<1> QED BY <1>2, <1>3, <1>4, <1>5, <1>6 DEF Current

LEMMA LargerSeq ==
  ASSUME NEW S, NEW T, S \subseteq T, NEW s \in Seq(S)
  PROVE  s \in Seq(T)
<1>1. Len(s) \in Nat /\ DOMAIN s = 1 .. Len(s) /\ \A i \in 1 .. Len(s) : s[i] \in T
  OBVIOUS
<1> QED BY <1>1

(* Whatever happens to the disk, the frames cached stay good, and so does  *)
(* what the request and the plan at hand are.                              *)
DiskFacts ==
    /\ disk' \in [Objects -> Content] /\ stamp' \in [Paths -> 0 .. clock'] /\ clock' \in Nat
    /\ GoodEntry \subseteq GoodEntry' /\ Entry \subseteq Entry' /\ Task \subseteq Task'

LEMMA DiskKeeps ==
  ASSUME TypeOK,
         DiskStays \/ \E o \in Objects, content \in Content : Put(o, content)
  PROVE  DiskFacts
<1>1. CASE DiskStays
  BY <1>1 DEF DiskStays, DiskFacts, TypeOK, Paths, GoodEntry, Entry, Task, Current
<1>2. CASE \E o \in Objects, content \in Content : Put(o, content)
  <2>1. PICK o \in Objects, content \in Content : Put(o, content)
    BY <1>2
  <2>2. 0 .. clock \subseteq 0 .. clock'
    BY <2>1, PutEffect DEF TypeOK
  <2>3. Task \subseteq Task'
    BY <2>2 DEF Task
  <2>4. GoodEntry \subseteq GoodEntry'
    BY <2>1, PutEffect DEF GoodEntry
  <2> QED BY <2>1, <2>3, <2>4, PutEffect DEF DiskFacts
<1> QED BY <1>1, <1>2

-----------------------------------------------------------------------------
(* The plan and its history.                                               *)

PlanVars == <<pending, planSeq, applied, retired>>

LEMMA PlansStay ==
  ASSUME PlansOK, UNCHANGED PlanVars
  PROVE  PlansOK'
BY DEF PlansOK, PlanVars, PendingIsNewest, Replacement, Statements

LEMMA PlanDropped ==
  ASSUME PlansOK, pending' = NoPlan, UNCHANGED <<planSeq, applied>>,
         retired' \subseteq 1 .. planSeq
  PROVE  PlansOK'
BY DEF PlansOK, PendingIsNewest

LEMMA OfferKeeps ==
  ASSUME PlansOK, NEW plan, Offer(plan), plan.id = planSeq + 1,
         plan \in Replacement' \/ plan \in Statements'
  PROVE  PlansOK'
<1>1. planSeq \in Nat /\ planSeq' = planSeq + 1 /\ pending' = plan
      /\ applied' = Append(applied, 0) /\ retired' = 1 .. planSeq
  BY DEF PlansOK, Offer
<1>2. /\ applied' \in Seq(Nat) /\ Len(applied') = planSeq + 1
      /\ \A i \in 1 .. planSeq : applied'[i] = applied[i]
      /\ applied'[planSeq + 1] = 0
  BY <1>1, AppendProperties DEF PlansOK
<1>3. \A id \in DOMAIN applied' : applied'[id] <= 1
  <2>1. \A id \in 1 .. planSeq + 1 : id = planSeq + 1 \/ id \in 1 .. planSeq
    BY <1>1
  <2>2. \A id \in 1 .. planSeq : applied[id] <= 1
    BY DEF PlansOK
  <2> QED BY <1>1, <1>2, <2>1, <2>2
<1>4. PendingIsNewest'
  BY <1>1, <1>2 DEF PendingIsNewest
<1> QED BY <1>1, <1>2, <1>3, <1>4 DEF PlansOK

LEMMA ApplyCounts ==
  ASSUME PlansOK, pending # NoPlan, pending' = NoPlan,
         applied' = [applied EXCEPT ![pending.id] = @ + 1], UNCHANGED <<planSeq, retired>>
  PROVE  PlansOK'
<1>1. planSeq \in DOMAIN applied /\ applied[planSeq] = 0 /\ pending.id = planSeq
  BY DEF PlansOK, PendingIsNewest
<1>2. /\ applied' \in Seq(Nat) /\ Len(applied') = planSeq /\ DOMAIN applied' = DOMAIN applied
      /\ \A i \in DOMAIN applied : applied'[i] = IF i = planSeq THEN 1 ELSE applied[i]
  BY <1>1 DEF PlansOK
<1> QED BY <1>1, <1>2 DEF PlansOK, PendingIsNewest

(* What remains to be shown of a step.                                     *)
LEMMA Assemble ==
  ASSUME IInv, DiskFacts, PlansOK',
         cache' \in Seq(GoodEntry), Len(cache') <= CacheEntries,
         call' \in {Idle} \cup Task,
         call'.step \notin {"Idle", "Stamped"} => call'.out \in Objects,
         found' \in {found, {}, {o \in Objects : Exists(o)}},
         calls' \in 0 .. MaxCalls, writes' \in 0 .. MaxWrites
  PROVE  IInv'
<1>2. found' \subseteq Objects
  BY DEF IInv, TypeOK
<1>1. cache' \in Seq(GoodEntry') /\ cache' \in Seq(Entry')
  <2>1. GoodEntry \subseteq Entry
    BY DEF GoodEntry
  <2> QED BY <2>1, LargerSeq DEF DiskFacts
<1> QED BY <1>1, <1>2 DEF IInv, TypeOK, PlansOK, DiskFacts, Paths

LEMMA EmptyCache == <<>> \in Seq(GoodEntry) /\ Len(<<>>) <= CacheEntries
BY EmptySeq, BoundsAssumption

LEMMA IdleFacts == Idle.step = "Idle" /\ Idle \in {Idle} \cup Task
BY DEF Idle

-----------------------------------------------------------------------------
(* Reading.                                                                *)

LEMMA RequestFacts ==
  ASSUME IInv, Request
  PROVE  calls' \in 0 .. MaxCalls /\ call = Idle /\ call.step = "Idle"
BY BoundsAssumption, IdleFacts DEF IInv, TypeOK, Request

LEMMA QueryCallKeeps ==
  ASSUME IInv, NEW src \in Sources, NEW out \in Objects \cup {"none"},
         NEW overwrite \in BOOLEAN, QueryCall(src, out, overwrite)
  PROVE  IInv'
<1> DEFINE i == Hit(src)
           task(step, df, at) == [step |-> step, src |-> src, out |-> out,
                                  overwrite |-> overwrite, df |-> df, stamp |-> at,
                                  drops |-> FALSE]
<1>1. DiskFacts
  BY DiskKeeps DEF QueryCall, IInv
<1>2. PlansOK'
  BY PlansStay DEF QueryCall, IInv, PlanVars, history
<1>3. writes' \in 0 .. MaxWrites
  BY DEF QueryCall, IInv, TypeOK
<1>4. CASE i = 0
  <2>1. cache' = cache /\ call' = task("Stamped", Absent, stamp[PathOf(src)])
    BY <1>4 DEF QueryCall
  <2>2. stamp[PathOf(src)] \in 0 .. clock
    BY Names DEF IInv, TypeOK, Paths
  <2>3. call' \in Task /\ call'.step = "Stamped"
    BY <2>1, <2>2, Contents DEF Task
  <2> QED BY <1>1, <1>2, <1>3, <2>1, <2>3, RequestFacts, Assemble
         DEF QueryCall, history, IInv, TypeOK
<1>5. CASE i # 0
  <2>1. i \in DOMAIN cache
    BY <1>5 DEF Hit
  <2>2. /\ cache' = <<cache[i]>> \o RemoveAt(cache, i)
        /\ call' = IF out = "none" THEN Idle ELSE task("Loaded", cache[i].df, 0)
    BY <1>5 DEF QueryCall
  <2> DEFINE n == Len(cache)
  <2>3. cache \in Seq(GoodEntry) /\ n \in Nat /\ n <= CacheEntries
    BY DEF IInv, TypeOK
  <2> HIDE DEF i
  <2>4. cache[i] \in GoodEntry /\ cache[i].df \in Content /\ i \in 1 .. n
    <3>1. i \in 1 .. n /\ cache[i] \in GoodEntry
      BY <2>1, <2>3
    <3> QED BY <3>1 DEF GoodEntry, Entry
  <2>5. cache' \in Seq(GoodEntry) /\ Len(cache') = n
    <3> DEFINE before == SubSeq(cache, 1, i - 1)
               after  == SubSeq(cache, i + 1, n)
    <3>1. before \in Seq(GoodEntry) /\ Len(before) = i - 1
      BY <2>3, <2>4, SubSeqProperties
    <3>2. after \in Seq(GoodEntry) /\ Len(after) = n - i
      BY <2>3, <2>4, SubSeqProperties
    <3>3. RemoveAt(cache, i) = before \o after
      BY DEF RemoveAt
    <3> HIDE DEF before, after, n
    <3>4. before \o after \in Seq(GoodEntry) /\ Len(before \o after) = n - 1
      BY <2>3, <2>4, <3>1, <3>2
    <3>5. <<cache[i]>> \in Seq(GoodEntry) /\ Len(<<cache[i]>>) = 1
      BY <2>4
    <3> QED BY <2>2, <2>3, <3>3, <3>4, <3>5, ConcatProperties
  <2>6. call' \in {Idle} \cup Task
        /\ (call'.step \notin {"Idle", "Stamped"} => call'.out \in Objects)
    <3>1. CASE out = "none"
      BY <2>2, <3>1, IdleFacts
    <3>2. CASE out # "none"
      <4>1. call' = task("Loaded", cache[i].df, 0) /\ out \in Objects
        BY <2>2, <3>2
      <4>2. 0 \in 0 .. clock
        BY DEF IInv, TypeOK
      <4> QED BY <2>4, <4>1, <4>2 DEF Task
    <3> QED BY <3>1, <3>2
  <2> QED BY <1>1, <1>2, <1>3, <2>3, <2>5, <2>6, RequestFacts, Assemble
         DEF QueryCall, history
<1> QED BY <1>4, <1>5

LEMMA LoadKeeps ==
  ASSUME IInv, Load
  PROVE  IInv'
<1> DEFINE df    == Read(call.src)
           entry == [src |-> call.src, stamp |-> call.stamp, df |-> df]
           rest  == Retain(cache, {c \in Range(cache) : c.src # call.src})
           all   == <<entry>> \o rest
           n     == IF Len(all) < CacheEntries THEN Len(all) ELSE CacheEntries
<1>0. call \in Task /\ call.step = "Stamped" /\ DiskStays
  BY IdleFacts DEF IInv, TypeOK, Load
<1>1. DiskFacts
  BY <1>0, DiskKeeps DEF IInv
<1>2. PlansOK'
  BY PlansStay DEF Load, IInv, PlanVars, history
<1>3. writes' \in 0 .. MaxWrites /\ calls' \in 0 .. MaxCalls
  BY DEF Load, IInv, TypeOK
<1>4. CASE Answered /\ UNCHANGED cache
  BY <1>1, <1>2, <1>3, <1>4, IdleFacts, Assemble DEF Load, history, Answered, IInv, TypeOK
<1>5. CASE /\ cache' = SubSeq(all, 1, n)
           /\ call' = IF call.out = "none" THEN Idle
                      ELSE [call EXCEPT !.step = "Loaded", !.df = df]
  <2>1. call.src \in Sources /\ call.stamp \in 0 .. clock /\ df \in Content
        /\ call.out \in Objects \cup {"none"}
    BY <1>0, ReadType DEF IInv, Task
  <2>2. entry \in GoodEntry
    <3>1. entry \in Entry
      BY <2>1 DEF Entry
    <3>2. Current(entry)
      BY DEF Current, Read
    <3> QED BY <3>1, <3>2 DEF GoodEntry
  <2>3. rest \in Seq(GoodEntry)
    BY RetainProperties DEF IInv
  <2>4. all \in Seq(GoodEntry) /\ Len(all) \in Nat
    <3> HIDE DEF rest, entry
    <3> QED BY <2>2, <2>3
  <2>5. cache' \in Seq(GoodEntry) /\ Len(cache') <= CacheEntries
    <3> HIDE DEF all
    <3>1. n \in 0 .. Len(all) /\ n <= CacheEntries
      BY <2>4, BoundsAssumption
    <3>2. \A k \in 1 .. n : all[k] \in GoodEntry
      BY <2>4, <3>1
    <3> HIDE DEF n
    <3>3. SubSeq(all, 1, n) \in Seq(GoodEntry) /\ Len(SubSeq(all, 1, n)) = n
      BY <3>1, <3>2, <2>4, SubSeqProperties
    <3> QED BY <1>5, <3>1, <3>3
  <2>6. call' \in {Idle} \cup Task
        /\ (call'.step \notin {"Idle", "Stamped"} => call'.out \in Objects)
    <3>1. CASE call.out = "none"
      BY <1>5, <3>1, IdleFacts
    <3>2. CASE call.out # "none"
      <4>1. call' = [call EXCEPT !.step = "Loaded", !.df = df] /\ call.out \in Objects
        BY <1>5, <2>1, <3>2
      <4> QED BY <1>0, <2>1, <4>1 DEF Task
    <3> QED BY <3>1, <3>2
  <2> QED BY <1>1, <1>2, <1>3, <2>5, <2>6, Assemble DEF Load, history
<1> QED BY <1>4, <1>5 DEF Load

-----------------------------------------------------------------------------
(* Writing a result.                                                       *)

\* A request in hand that has been read is a task with somewhere to write to.
LEMMA TaskFacts ==
  ASSUME IInv, call.step \notin {"Idle", "Stamped"}
  PROVE  /\ call \in Task /\ call.out \in Objects /\ call.df \in Content
         /\ calls \in 0 .. MaxCalls /\ writes \in 0 .. MaxWrites
         /\ cache \in Seq(GoodEntry) /\ Len(cache) <= CacheEntries
BY IdleFacts DEF IInv, TypeOK, Task

LEMMA CheckOutputKeeps ==
  ASSUME IInv, CheckOutput
  PROVE  IInv'
<1>0. /\ call.step = "Loaded" /\ DiskStays /\ UNCHANGED <<calls, writes>>
      /\ found' \in {found, {}, {o \in Objects : Exists(o)}}
  BY DEF CheckOutput
<1>1. DiskFacts
  BY <1>0, DiskKeeps DEF IInv
<1>2. PlansOK'
  BY PlansStay DEF CheckOutput, IInv, PlanVars
<1>3. cache' = cache \/ cache' = <<>>
  BY DEF CheckOutput
<1>4. call' = Idle \/ \E step \in {"Creating", "Planning"} : call' = [call EXCEPT !.step = step]
  BY DEF CheckOutput, Answered
<1>5. call' \in {Idle} \cup Task
      /\ (call'.step \notin {"Idle", "Stamped"} => call'.out \in Objects)
  BY <1>0, <1>4, IdleFacts, TaskFacts DEF Task
<1> QED BY <1>0, <1>1, <1>2, <1>3, <1>5, TaskFacts, EmptyCache, Assemble

LEMMA PlanOverwriteKeeps ==
  ASSUME IInv, PlanOverwrite
  PROVE  IInv'
<1>0. call.step = "Planning" /\ DiskStays /\ call' = Idle /\ UNCHANGED <<cache, calls, writes>>
      /\ found' = {}
  BY DEF PlanOverwrite, Answered
<1>1. DiskFacts
  BY <1>0, DiskKeeps DEF IInv
<1>2. PlansOK'
  <2> DEFINE plan == [id |-> planSeq + 1, kind |-> "overwrite", target |-> call.out,
                      df |-> call.df, drops |-> Exists(call.out), shown |-> disk[call.out]]
  <2>1. CASE Offer(plan)
    <3>1. planSeq' = planSeq + 1 /\ planSeq \in Nat
      BY <2>1 DEF Offer, IInv, PlansOK
    <3>2. call.out \in Objects /\ call.df \in Content /\ disk[call.out] \in Content
          /\ Exists(call.out) \in BOOLEAN
      BY <1>0, TaskFacts, Contents DEF IInv, TypeOK, Exists
    <3>3. plan \in Replacement'
      BY <3>1, <3>2 DEF Replacement
    <3> QED BY <2>1, <3>3, OfferKeeps DEF IInv
  <2>2. CASE pending' = NoPlan /\ retired' = 1 .. planSeq /\ UNCHANGED <<planSeq, applied>>
    BY <2>2, PlanDropped DEF IInv
  <2> QED BY <2>1, <2>2 DEF PlanOverwrite
<1> QED BY <1>0, <1>1, <1>2, IdleFacts, TaskFacts, Assemble

LEMMA PlanCreateKeeps ==
  ASSUME IInv, PlanCreate
  PROVE  IInv'
<1>0. call.step = "Creating" /\ DiskStays /\ UNCHANGED <<cache, calls, writes, found>>
  BY DEF PlanCreate, history
<1>1. DiskFacts
  BY <1>0, DiskKeeps DEF IInv
<1>2. PlansOK'
  BY PlansStay DEF PlanCreate, IInv, PlanVars, history
<1>3. \E drops \in BOOLEAN : call' = [call EXCEPT !.step = "Running", !.drops = drops]
  <2>1. \A o \in Objects : Exists(o) \in BOOLEAN
    BY Contents DEF Exists, IInv, TypeOK
  <2> QED BY <2>1, <1>0, TaskFacts DEF PlanCreate
<1>4. call' \in {Idle} \cup Task
      /\ (call'.step \notin {"Idle", "Stamped"} => call'.out \in Objects)
  BY <1>0, <1>3, TaskFacts DEF Task
<1> QED BY <1>0, <1>1, <1>2, <1>4, TaskFacts, Assemble

LEMMA RunCreateKeeps ==
  ASSUME IInv, RunCreate
  PROVE  IInv'
<1>0. /\ call.step = "Running" /\ call' = Idle /\ UNCHANGED <<cache, calls, writes>>
      /\ found' = {}
      /\ Put(call.out, call.df) \/ DiskStays
  BY DEF RunCreate, Answered
<1>1. DiskFacts
  BY <1>0, TaskFacts, DiskKeeps DEF IInv
<1>2. PlansOK'
  BY PlansStay DEF RunCreate, IInv, PlanVars
<1> QED BY <1>0, <1>1, <1>2, IdleFacts, TaskFacts, Assemble

-----------------------------------------------------------------------------
(* Planning and applying changes.                                          *)

\* Between requests nothing is in hand; the rest is as the invariant says.
LEMMA StepBetween ==
  ASSUME IInv, UNCHANGED call \/ call' = Idle, DiskFacts, PlansOK',
         cache' = cache \/ cache' = <<>>, found' = found,
         calls' \in 0 .. MaxCalls, writes' \in 0 .. MaxWrites
  PROVE  IInv'
<1>1. cache' \in Seq(GoodEntry) /\ Len(cache') <= CacheEntries
  BY EmptyCache DEF IInv, TypeOK
<1>2. call' \in {Idle} \cup Task
      /\ (call'.step \notin {"Idle", "Stamped"} => call'.out \in Objects)
  BY IdleFacts DEF IInv, TypeOK
<1> QED BY <1>1, <1>2, Assemble

(* A plan from its parts.                                                  *)
LEMMA StatementsFrom ==
  ASSUME IInv, NEW t \in Tables, planSeq' = planSeq + 1,
         NEW C \in SUBSET Columns, NEW from \in [C -> disk[t].cols],
         NEW adds \in SUBSET Columns,
         NEW M \in SUBSET Keys, NEW sets \in [M -> Row], NEW deletes \in SUBSET Keys,
         NEW inserts \in Seq(Row),
         \A i \in DOMAIN inserts : DOMAIN inserts[i] = C \cup adds
  PROVE  [id |-> planSeq + 1, kind |-> "statements", target |-> t, from |-> from, adds |-> adds,
          sets |-> sets, deletes |-> deletes, inserts |-> inserts, shown |-> disk[t]]
              \in Statements'
<1>1. planSeq + 1 \in 1 .. planSeq' /\ disk[t] \in Content /\ disk[t].cols \in SUBSET Columns
  BY Names, Contents DEF IInv, PlansOK, TypeOK
<1>2. from \in UNION {[D -> Columns] : D \in SUBSET Columns} /\ DOMAIN from = C
      /\ \A c \in DOMAIN from : from[c] \in disk[t].cols
  BY <1>1
<1>3. sets \in UNION {[N -> Row] : N \in SUBSET Keys}
  OBVIOUS
<1> QED BY <1>1, <1>2, <1>3 DEF Statements

LEMMA PlansType ==
  ASSUME IInv, NEW t \in Tables, NEW p \in Plans(t), planSeq' = planSeq + 1
  PROVE  p \in Statements' /\ p.id = planSeq + 1
<1> DEFINE cols == disk[t].cols
           held == SUBSET Held(disk[t])
           id   == [c \in cols |-> c]
<1>1. /\ cols \in SUBSET Columns /\ Held(disk[t]) \in SUBSET Keys
      /\ \A k \in Held(disk[t]) : disk[t].rows[k] \in [cols -> Cells]
  BY Names, Contents DEF IInv, TypeOK
<1>2. /\ id \in [cols -> cols] /\ {} \in SUBSET Columns /\ {} \in SUBSET Keys
      /\ NoSets \in [{} -> Row] /\ <<>> \in Seq(Row) /\ DOMAIN <<>> = {}
  BY EmptySeq DEF NoSets
<1>3. ASSUME NEW M \in held, NEW assign \in UNION {[C -> Cells] : C \in SUBSET cols},
             p = SetPlan(t, M, assign)
      PROVE  p \in Statements' /\ p.id = planSeq + 1
  <2> DEFINE Differs(k) == {c \in DOMAIN assign : disk[t].rows[k][c] # assign[c]}
             N    == {k \in M : Differs(k) # {}}
             sets == [k \in N |-> [c \in Differs(k) |-> assign[c]]]
  <2>1. PICK C \in SUBSET cols : assign \in [C -> Cells]
    BY <1>3
  <2>2. \A k \in N : [c \in Differs(k) |-> assign[c]] \in Row
    <3> SUFFICES ASSUME NEW k \in N PROVE [c \in Differs(k) |-> assign[c]] \in Row
      OBVIOUS
    <3>1. Differs(k) \in SUBSET Columns
      BY <1>1, <2>1
    <3>2. \A c \in Differs(k) : assign[c] \in Cells
      BY <2>1
    <3> HIDE DEF Differs
    <3>3. [c \in Differs(k) |-> assign[c]] \in [Differs(k) -> Cells]
      BY <3>2
    <3> QED BY <3>1, <3>3 DEF Row
  <2>3. N \in SUBSET Keys
    BY <1>1
  <2> HIDE DEF N
  <2>4. sets \in [N -> Row]
    BY <2>2
  <2>5. p = [id |-> planSeq + 1, kind |-> "statements", target |-> t, from |-> id, adds |-> {},
             sets |-> sets, deletes |-> {}, inserts |-> <<>>, shown |-> disk[t]]
    BY <1>3 DEF SetPlan, Plan, N
  <2> HIDE DEF sets, id, cols
  <2>6. p \in Statements'
    BY <1>1, <1>2, <2>3, <2>4, <2>5, StatementsFrom DEF cols
  <2> QED BY <2>5, <2>6
<1>4. ASSUME NEW M \in held, p = DeletePlan(t, M)
      PROVE  p \in Statements' /\ p.id = planSeq + 1
  <2>1. p = [id |-> planSeq + 1, kind |-> "statements", target |-> t, from |-> id, adds |-> {},
             sets |-> NoSets, deletes |-> M, inserts |-> <<>>, shown |-> disk[t]]
    BY <1>4 DEF DeletePlan, Plan
  <2>2. M \in SUBSET Keys
    BY <1>1
  <2> HIDE DEF id
  <2>3. p \in Statements'
    BY <1>1, <1>2, <2>1, <2>2, StatementsFrom
  <2> QED BY <2>1, <2>3
<1>5. ASSUME NEW row \in [cols -> Cells], p = InsertPlan(t, row)
      PROVE  p \in Statements' /\ p.id = planSeq + 1
  <2>1. p = [id |-> planSeq + 1, kind |-> "statements", target |-> t, from |-> id, adds |-> {},
             sets |-> NoSets, deletes |-> {}, inserts |-> <<row>>, shown |-> disk[t]]
    BY <1>5 DEF InsertPlan, Plan
  <2>2. row \in Row /\ DOMAIN row = cols \cup {}
    BY <1>1 DEF Row
  <2>3. <<row>> \in Seq(Row) /\ \A i \in DOMAIN <<row>> : <<row>>[i] = row
    BY <2>2
  <2> HIDE DEF id
  <2>4. p \in Statements'
    BY <1>1, <1>2, <2>1, <2>2, <2>3, StatementsFrom
  <2> QED BY <2>1, <2>4
<1>6. ASSUME NEW from \in Keepings(cols), NEW adds \in SUBSET (Columns \ DOMAIN from),
             NEW texts \in SUBSET adds, p = AlterPlan(t, from, adds, texts)
      PROVE  p \in Statements' /\ p.id = planSeq + 1
  <2> DEFINE M    == IF texts = {} THEN {} ELSE Held(disk[t])
             sets == IF texts = {} THEN NoSets
                     ELSE [k \in Held(disk[t]) |-> [c \in texts |-> EmptyText]]
  <2>1. PICK C \in SUBSET Columns : from \in [C -> cols]
    BY DEF Keepings, Injection, IsInjective
  <2>2. M \in SUBSET Keys /\ sets \in [M -> Row]
    <3>1. [c \in texts |-> EmptyText] \in Row
      <4>1. [c \in texts |-> EmptyText] \in [texts -> Cells] /\ texts \in SUBSET Columns
        BY NamesAssumption DEF Cells
      <4> QED BY <4>1 DEF Row
    <3> QED BY <1>1, <1>2, <3>1
  <2>3. p = [id |-> planSeq + 1, kind |-> "statements", target |-> t, from |-> from,
             adds |-> adds, sets |-> sets, deletes |-> {}, inserts |-> <<>>,
             shown |-> disk[t]]
    BY <1>6 DEF AlterPlan, Plan
  <2>4. adds \in SUBSET Columns
    OBVIOUS
  <2> HIDE DEF sets, M
  <2>5. p \in Statements'
    BY <1>1, <1>2, <2>1, <2>2, <2>3, <2>4, StatementsFrom
  <2> QED BY <2>3, <2>5
<1> QED BY <1>3, <1>4, <1>5, <1>6 DEF Plans

LEMMA WriteCallKeeps ==
  ASSUME IInv, NEW t \in Tables, WriteCall(t)
  PROVE  IInv'
<1>0. PICK p \in Plans(t) : Offer(p)
  BY DEF WriteCall
<1>1. planSeq' = planSeq + 1
  BY <1>0 DEF Offer
<1>2. PlansOK'
  BY <1>0, <1>1, PlansType, OfferKeeps DEF IInv
<1>3. DiskFacts
  BY DiskKeeps DEF WriteCall, IInv
<1> QED BY <1>2, <1>3, RequestFacts, StepBetween DEF WriteCall, IInv, TypeOK

LEMMA RefusalsKeep ==
  ASSUME IInv, WriteCallFails \/ ApplyPlanFails \/ \E id \in Nat : ApplyRefused(id)
  PROVE  IInv'
<1>0. Request /\ DiskStays /\ UNCHANGED <<cache, call, planSeq, applied, found, writes>>
  BY DEF WriteCallFails, ApplyPlanFails, ApplyRefused, history
<1>1. \/ pending' = NoPlan /\ retired' \in {retired, 1 .. planSeq}
      \/ UNCHANGED <<pending, retired>>
  BY DEF WriteCallFails, ApplyPlanFails, ApplyRefused, history
<1>2. PlansOK'
  BY <1>0, <1>1, PlanDropped, PlansStay DEF PlanVars, IInv, PlansOK
<1>3. DiskFacts
  BY <1>0, DiskKeeps DEF IInv
<1> QED BY <1>0, <1>2, <1>3, RequestFacts, StepBetween DEF IInv, TypeOK

(* Running statements leaves a table that may be put on the disk.          *)
LEMMA RunType ==
  ASSUME IInv, NEW p \in Statements, NEW fresh \in Keys, NoDrift(p)
  PROVE  Run(p, fresh) \in Content
<1> DEFINE cols == DOMAIN p.from \cup p.adds
           K    == KeysAfter(p, fresh)
<1>1. /\ p.target \in Objects /\ disk[p.target] \in Content /\ p.inserts \in Seq(Row)
      /\ p.shown.cols = disk[p.target].cols
      /\ \A c \in DOMAIN p.from : p.from[c] \in disk[p.target].cols
      /\ \A i \in DOMAIN p.inserts : DOMAIN p.inserts[i] = cols
      /\ p.sets \in UNION {[M -> Row] : M \in SUBSET Keys}
      /\ p.from \in UNION {[C -> Columns] : C \in SUBSET Columns} /\ p.adds \in SUBSET Columns
  BY Names DEF Statements, NoDrift, IInv, TypeOK
<1>2. cols \in SUBSET Columns
  BY <1>1
<1>3. /\ Held(disk[p.target]) \in SUBSET Keys
      /\ \A k \in Held(disk[p.target]) :
            disk[p.target].rows[k] \in [disk[p.target].cols -> Cells]
  BY <1>1, Contents
<1>4. K \in SUBSET Keys
  BY <1>3 DEF KeysAfter
<1> DEFINE row(k) == Recast(p, disk[p.target].rows[k])
           set(k) == IF k \in DOMAIN p.sets THEN p.sets[k] ELSE <<>>
<1>5. ASSUME NEW k \in K
      PROVE  RowAfter(p, fresh, k) \in [cols -> Cells]
  <2>1. CASE p.inserts # <<>> /\ k = fresh
    <3>1. 1 \in DOMAIN p.inserts /\ p.inserts[1] \in Row
      BY <1>1, <2>1
    <3>2. PICK C \in SUBSET Columns : p.inserts[1] \in [C -> Cells]
      BY <3>1 DEF Row
    <3> QED BY <1>1, <2>1, <3>1, <3>2 DEF RowAfter
  <2>2. CASE ~(p.inserts # <<>> /\ k = fresh)
    <3>1. k \in Held(disk[p.target])
      BY <2>2 DEF KeysAfter
    <3>2. row(k) \in [cols -> Cells]
      <4>1. disk[p.target].rows[k] \in [disk[p.target].cols -> Cells]
        BY <1>3, <3>1
      <4> QED BY <1>1, <4>1 DEF Recast, Cells
    <3>3. \A c \in DOMAIN set(k) : set(k)[c] \in Cells
      <4>1. CASE k \in DOMAIN p.sets
        <5>1. p.sets[k] \in Row
          BY <1>1, <4>1
        <5>2. PICK C \in SUBSET Columns : p.sets[k] \in [C -> Cells]
          BY <5>1 DEF Row
        <5> QED BY <4>1, <5>2
      <4>2. CASE k \notin DOMAIN p.sets
        BY <4>2
      <4> QED BY <4>1, <4>2
    <3>4. RowAfter(p, fresh, k)
            = [c \in DOMAIN row(k) |-> IF c \in DOMAIN set(k) THEN set(k)[c] ELSE row(k)[c]]
      BY <2>2 DEF RowAfter
    <3> HIDE DEF row, set
    <3> QED BY <3>2, <3>3, <3>4
  <2> QED BY <2>1, <2>2
<1> DEFINE rows == [k \in K |-> RowAfter(p, fresh, k)]
<1>6. Run(p, fresh) = [there |-> TRUE, cols |-> cols, rows |-> rows]
  BY DEF Run
<1>7. rows = [k \in K |-> rows[k]] /\ \A k \in K : rows[k] \in [cols -> Cells]
  <2> HIDE DEF K, cols
  <2> QED BY <1>5
<1> HIDE DEF rows, K, cols
<1> QED BY <1>2, <1>4, <1>6, <1>7, ContentFrom

LEMMA ApplyPlanKeeps ==
  ASSUME IInv, ApplyPlan
  PROVE  IInv'
<1>0. /\ Request /\ pending # NoPlan /\ pending' = NoPlan /\ cache' = <<>>
      /\ applied' = [applied EXCEPT ![pending.id] = @ + 1]
      /\ UNCHANGED <<planSeq, call, retired, found, writes>>
  BY DEF ApplyPlan
<1>1. PlansOK'
  BY <1>0, ApplyCounts DEF IInv
<1>2. \E o \in Objects, content \in Content : Put(o, content)
  <2>1. CASE pending.kind = "overwrite"
    <3>1. pending \in Replacement
      BY <1>0, <2>1 DEF IInv, PlansOK, Statements
    <3> QED BY <2>1, <3>1 DEF ApplyPlan, Replacement
  <2>2. CASE pending.kind = "statements"
    <3>1. pending \in Statements
      BY <1>0, <2>2 DEF IInv, PlansOK, Replacement
    <3>2. PICK fresh \in Keys : Put(pending.target, Run(pending, fresh)) /\ NoDrift(pending)
      BY <2>2 DEF ApplyPlan, Fresh
    <3>3. pending.target \in Objects
      BY <3>1, Names DEF Statements
    <3> QED BY <3>1, <3>2, <3>3, RunType
  <2> QED BY <2>1, <2>2 DEF ApplyPlan
<1>3. DiskFacts
  BY <1>2, DiskKeeps DEF IInv
<1> QED BY <1>0, <1>1, <1>3, RequestFacts, StepBetween DEF IInv, TypeOK

LEMMA OneChangeType ==
  ASSUME IInv, NEW o \in Objects, NEW content \in OneChangeAway(o)
  PROVE  content \in Content
<1> DEFINE now == disk[o]
<1>1. /\ now \in Content /\ now.there \in BOOLEAN /\ now.cols \in SUBSET Columns
      /\ Held(now) \in SUBSET Keys
      /\ \A k \in Held(now) : now.rows[k] \in [now.cols -> Cells]
      /\ now = [there |-> now.there, cols |-> now.cols, rows |-> now.rows]
      /\ now.rows = [k \in Held(now) |-> now.rows[k]]
  <2>1. now \in Content
    BY DEF IInv, TypeOK
  <2>2. now = [there |-> now.there, cols |-> now.cols, rows |-> now.rows]
    BY <2>1 DEF Content
  <2>3. now.rows = [k \in DOMAIN now.rows |-> now.rows[k]]
    BY <2>1 DEF Content
  <2> QED BY <2>1, <2>2, <2>3, Contents DEF Held
<1>2. CASE content = Absent \/ content \in Made
  BY <1>2, Contents, MadeAssumption
<1>3. ASSUME NEW k \in Held(now), NEW row \in [now.cols -> Cells],
             content = [now EXCEPT !.rows[k] = row]
      PROVE  content \in Content
  <2> DEFINE rows == [now.rows EXCEPT ![k] = row]
  <2>1. content = [there |-> now.there, cols |-> now.cols, rows |-> rows]
    BY <1>1, <1>3
  <2>2. rows = [j \in Held(now) |-> rows[j]]
        /\ \A j \in Held(now) : rows[j] \in [now.cols -> Cells]
    BY <1>1
  <2> HIDE DEF rows, now
  <2> QED BY <1>1, <2>1, <2>2, ContentFrom
<1>4. ASSUME NEW k \in Held(now),
             content = [now EXCEPT !.rows = [j \in Held(now) \ {k} |-> now.rows[j]]]
      PROVE  content \in Content
  <2> DEFINE K    == Held(now) \ {k}
             rows == [j \in K |-> now.rows[j]]
  <2>1. content = [there |-> now.there, cols |-> now.cols, rows |-> rows]
    BY <1>1, <1>4
  <2>2. rows = [j \in K |-> rows[j]] /\ K \in SUBSET Keys
        /\ \A j \in K : rows[j] \in [now.cols -> Cells]
    BY <1>1
  <2> HIDE DEF rows, now, K
  <2> QED BY <1>1, <2>1, <2>2, ContentFrom
<1>5. ASSUME NEW k \in Keys \ Held(now), NEW row \in [now.cols -> Cells],
             content = [now EXCEPT !.rows = [j \in Held(now) \cup {k} |->
                                               IF j = k THEN row ELSE now.rows[j]]]
      PROVE  content \in Content
  <2> DEFINE K    == Held(now) \cup {k}
             rows == [j \in K |-> IF j = k THEN row ELSE now.rows[j]]
  <2>1. content = [there |-> now.there, cols |-> now.cols, rows |-> rows]
    BY <1>1, <1>5
  <2>2. rows = [j \in K |-> rows[j]] /\ K \in SUBSET Keys
        /\ \A j \in K : rows[j] \in [now.cols -> Cells]
    BY <1>1
  <2> HIDE DEF rows, now, K
  <2> QED BY <1>1, <2>1, <2>2, ContentFrom
<1>6. ASSUME NEW C \in SUBSET now.cols,
             content = [now EXCEPT !.cols = C,
                          !.rows = [j \in Held(now) |-> [c \in C |-> now.rows[j][c]]]]
      PROVE  content \in Content
  <2> DEFINE rows == [j \in Held(now) |-> [c \in C |-> now.rows[j][c]]]
  <2>1. content = [there |-> now.there, cols |-> C, rows |-> rows]
    BY <1>1, <1>6
  <2>2. rows = [j \in Held(now) |-> rows[j]] /\ C \in SUBSET Columns
        /\ \A j \in Held(now) : rows[j] \in [C -> Cells]
    BY <1>1
  <2> HIDE DEF rows, now
  <2> QED BY <1>1, <2>1, <2>2, ContentFrom
<1>7. CASE content \in RowsChanged(now)
  BY <1>3, <1>7 DEF RowsChanged
<1>8. CASE content \in RowsRemoved(now)
  BY <1>4, <1>8 DEF RowsRemoved
<1>9. CASE content \in RowsAdded(now)
  <2>1. PICK k \in Keys \ Held(now), row \in [now.cols -> Cells] :
           content = WithRow(now, k, row)
    BY <1>9 DEF RowsAdded
  <2>2. content = [now EXCEPT !.rows = [j \in Held(now) \cup {k} |->
                                          IF j = k THEN row ELSE now.rows[j]]]
    BY <2>1 DEF WithRow
  <2> QED BY <2>1, <2>2, <1>5
<1>10. CASE content \in ColumnsDropped(now)
  BY <1>6, <1>10 DEF ColumnsDropped
<1> QED BY <1>2, <1>7, <1>8, <1>9, <1>10 DEF OneChangeAway

LEMMA OtherWritesKeeps ==
  ASSUME IInv, NEW o \in Objects, NEW content \in OneChangeAway(o), OtherWrites(o, content)
  PROVE  IInv'
<1>1. DiskFacts
  BY OneChangeType, DiskKeeps DEF OtherWrites, IInv
<1>2. PlansOK'
  BY PlansStay DEF OtherWrites, IInv, PlanVars, history
<1>3. writes' \in 0 .. MaxWrites /\ calls' \in 0 .. MaxCalls
  BY BoundsAssumption DEF OtherWrites, IInv, TypeOK
<1> QED BY <1>1, <1>2, <1>3, StepBetween DEF OtherWrites, history

LEMMA NextIInv == IInv /\ [Next]_vars => IInv'
<1> SUFFICES ASSUME IInv, [Next]_vars PROVE IInv'
  OBVIOUS
<1>1. CASE \E src \in Sources, out \in Objects \cup {"none"}, overwrite \in BOOLEAN :
             QueryCall(src, out, overwrite)
  BY <1>1, QueryCallKeeps
<1>2. CASE ServerStep
  BY <1>2, LoadKeeps, CheckOutputKeeps, PlanOverwriteKeeps, PlanCreateKeeps,
     RunCreateKeeps DEF ServerStep
<1>3. CASE WriteCallFails \/ ApplyPlanFails \/ \E id \in 1 .. planSeq + 1 : ApplyRefused(id)
  BY <1>3, RefusalsKeep DEF IInv, TypeOK
<1>4. CASE \E t \in Tables : WriteCall(t)
  BY <1>4, WriteCallKeeps
<1>5. CASE ApplyPlan
  BY <1>5, ApplyPlanKeeps
<1>6. CASE \E o \in Objects : \E content \in OneChangeAway(o) : OtherWrites(o, content)
  BY <1>6, OtherWritesKeeps
<1>7. CASE UNCHANGED vars
  <2>1. DiskFacts
    BY <1>7, DiskKeeps DEF vars, DiskStays, IInv
  <2>2. PlansOK'
    BY <1>7, PlansStay DEF vars, PlanVars, IInv
  <2> QED BY <1>7, <2>1, <2>2, StepBetween DEF vars, IInv, TypeOK
<1> QED BY <1>1, <1>2, <1>3, <1>4, <1>5, <1>6, <1>7 DEF Next

(* Everything below holds in every state the server and the other programs *)
(* reach.                                                                  *)
THEOREM Soundness == Spec => []IInv
<1>1. Init => IInv
  BY InitIInv
<1>2. IInv /\ [Next]_vars => IInv'
  BY NextIInv
<1> QED BY <1>1, <1>2, PTL DEF Spec

(* Requests, plans and cached frames keep their form: a plan names a table *)
(* or file there may be, the cache never outgrows CACHE_ENTRIES.           *)
THEOREM TypeCorrect == Spec => []TypeOK
<1>1. IInv => TypeOK
  BY DEF IInv
<1> QED BY <1>1, Soundness, PTL

(* tuitab_write_apply performs a plan once, and only while it is the last  *)
(* one that was made: a call that plans drops it even if that call fails.  *)
THEOREM NewestPlanOnce == Spec => []OnlyTheNewestPlanOnce
<1>1. IInv => OnlyTheNewestPlanOnce
  BY DEF IInv, PlansOK, PendingIsNewest, OnlyTheNewestPlanOnce
<1> QED BY <1>1, Soundness, PTL

(* A hit of the cache answers with what the file or the table holds now,   *)
(* though other programs write at any moment between stamp_of and load.    *)
THEOREM CacheCurrent == Spec => []CachedFramesAreCurrent
<1>1. IInv => CachedFramesAreCurrent
  <2> SUFFICES ASSUME IInv, NEW i \in DOMAIN cache,
                      cache[i].src # Dir, Hit(cache[i].src) = i
               PROVE  cache[i].df = Read(cache[i].src)
    BY DEF CachedFramesAreCurrent
  <2>1. cache[i] \in GoodEntry /\ i \in Nat /\ i # 0
    BY DEF IInv
  <2> DEFINE src == cache[i].src
             fresh == {j \in DOMAIN cache : cache[j].src = src
                                            /\ cache[j].stamp = stamp[PathOf(src)]}
  <2>2. stamp[PathOf(src)] # 0 /\ fresh # {}
    BY <2>1 DEF Hit
  <2>3. i = CHOOSE k \in fresh : \A j \in fresh : k <= j
    BY <2>1, <2>2 DEF Hit
  <2>4. \E k \in fresh : \A j \in fresh : k <= j
    <3>1. PICK k \in fresh : k \in Nat
      BY <2>2 DEF IInv
    <3>2. fresh \in SUBSET Nat
      BY DEF IInv
    <3> HIDE DEF fresh
    <3> QED BY <3>1, <3>2, LeastNatural
  <2>5. i \in fresh
    <3> HIDE DEF fresh
    <3> QED BY <2>3, <2>4
  <2> QED BY <2>1, <2>2, <2>5 DEF GoodEntry, Current, Read
<1> QED BY <1>1, Soundness, PTL

(* A row that applying a plan of statements deletes or changes is the row  *)
(* that was shown with the plan, whoever wrote to the table since; every   *)
(* other row keeps, in the columns that are kept, what it holds now.  The  *)
(* cells of a dropped column are outside what the code checks.             *)
THEOREM RunsAsShown == Spec => StatementsRunAsShown
<1> DEFINE Kept == LET p    == pending
                       now  == disk[p.target]
                       then == disk'[p.target]
                   IN  /\ now.cols = p.shown.cols
                       /\ \A k \in Held(now) :
                             \/ SameRow(p, k)
                             \/ /\ k \in Held(then)
                                /\ \A c \in DOMAIN p.from :
                                      then.rows[k][c] = now.rows[k][p.from[c]]
<1>1. ASSUME IInv, ApplyPlan, pending.kind = "statements"
      PROVE  Kept
  <2> USE <1>1
  <2> DEFINE p == pending
             now == disk[p.target]
  <2>1. p \in Statements /\ p.target \in Objects /\ disk \in [Objects -> Content]
    BY Names DEF ApplyPlan, IInv, TypeOK, Replacement, Statements
  <2>2. NoDrift(p)
    BY DEF ApplyPlan
  <2>3. PICK fresh \in Fresh(p) : Put(p.target, Run(p, fresh))
    BY DEF ApplyPlan
  <2>4. disk'[p.target] = Run(p, fresh)
    BY <2>1, <2>3 DEF Put
  <2>5. Held(Run(p, fresh)) = KeysAfter(p, fresh)
        /\ \A k \in KeysAfter(p, fresh) : Run(p, fresh).rows[k] = RowAfter(p, fresh, k)
    BY DEF Held, Run
  <2>6. ASSUME NEW k \in Held(now), ~SameRow(p, k)
        PROVE  /\ k \in Held(Run(p, fresh))
               /\ \A c \in DOMAIN p.from : Run(p, fresh).rows[k][c] = now.rows[k][p.from[c]]
    <3>1. k \notin p.deletes /\ k \notin DOMAIN p.sets
      BY <2>2, <2>6 DEF NoDrift
    <3>2. ~(p.inserts # <<>> /\ k = fresh)
      BY <2>3 DEF Fresh
    <3>3. k \in KeysAfter(p, fresh)
      BY <3>1 DEF KeysAfter
    <3>4. \A c \in DOMAIN p.from :
             RowAfter(p, fresh, k)[c] = now.rows[k][p.from[c]]
      BY <3>1, <3>2 DEF RowAfter, Recast
    <3> QED BY <2>5, <3>3, <3>4
  <2> QED BY <2>2, <2>4, <2>6 DEF NoDrift
<1>2. ASSUME IInv, [Next]_vars
      PROVE  [(ApplyPlan /\ pending.kind = "statements") => Kept]_vars
  <2> HIDE DEF Kept
  <2> QED BY <1>1, <1>2
<1> QED BY <1>2, Soundness, PTL DEF Spec, StatementsRunAsShown

-----------------------------------------------------------------------------
(* What write_result did not find is all that a request writes on its own. *)

LEMMA CreatesStep ==
  ASSUME IInv, CreatesWhatWasNotFound, [Next]_vars
  PROVE  CreatesWhatWasNotFound'
<1>1. Idle.step = "Idle"
  BY DEF Idle
<1>2. CASE call' = Idle
  BY <1>1, <1>2 DEF CreatesWhatWasNotFound
<1>3. CASE UNCHANGED <<call, found>>
  BY <1>3 DEF CreatesWhatWasNotFound
<1>4. CASE \E src \in Sources, out \in Objects \cup {"none"}, overwrite \in BOOLEAN :
             QueryCall(src, out, overwrite)
  BY <1>1, <1>4 DEF QueryCall, CreatesWhatWasNotFound
<1>5. CASE Load
  <2>1. call \in Task
    BY <1>1, <1>5 DEF Load, IInv, TypeOK
  <2> QED BY <1>2, <1>5, <2>1 DEF Load, Answered, Task, CreatesWhatWasNotFound
<1>6. CASE CheckOutput
  <2>1. call \in Task
    BY <1>1, <1>6 DEF CheckOutput, IInv, TypeOK
  <2>2. CASE call' = [call EXCEPT !.step = "Creating"] /\ ~Exists(call.out)
    <3>1. call'.out = call.out /\ call' # Idle
      BY <2>1, <2>2 DEF Task, Idle
    <3>2. found' = {o \in Objects : Exists(o)}
      BY <1>6, <3>1 DEF CheckOutput
    <3> QED BY <2>2, <3>1, <3>2 DEF CreatesWhatWasNotFound
  <2>3. CASE call' = [call EXCEPT !.step = "Planning"]
    BY <2>1, <2>3 DEF Task, CreatesWhatWasNotFound
  <2> QED BY <1>2, <1>6, <2>2, <2>3 DEF CheckOutput, Answered
<1>7. CASE PlanCreate
  <2>1. call \in Task /\ call.step = "Creating"
    BY <1>1, <1>7 DEF PlanCreate, IInv, TypeOK
  <2>2. call'.out = call.out /\ found' = found
    BY <1>7, <2>1 DEF PlanCreate, history, Task
  <2> QED BY <2>1, <2>2 DEF CreatesWhatWasNotFound
<1>8. CASE PlanOverwrite \/ RunCreate
  BY <1>2, <1>8 DEF PlanOverwrite, RunCreate, Answered
<1>9. CASE WriteCallFails \/ ApplyPlanFails \/ \E id \in 1 .. planSeq + 1 : ApplyRefused(id)
  BY <1>3, <1>9 DEF WriteCallFails, ApplyPlanFails, ApplyRefused, history
<1>10. CASE \E t \in Tables : WriteCall(t)
  BY <1>3, <1>10 DEF WriteCall
<1>11. CASE ApplyPlan
  BY <1>3, <1>11 DEF ApplyPlan
<1>12. CASE \E o \in Objects : \E content \in OneChangeAway(o) : OtherWrites(o, content)
  BY <1>3, <1>12 DEF OtherWrites, history
<1>13. CASE UNCHANGED vars
  BY <1>3, <1>13 DEF vars
<1> QED BY <1>4, <1>5, <1>6, <1>7, <1>8, <1>9, <1>10, <1>11, <1>12, <1>13
        DEF Next, ServerStep

LEMMA UnplannedStep ==
  ASSUME IInv, CreatesWhatWasNotFound, [Next]_vars,
         NEW o \in Objects, disk'[o] # disk[o], Exists(o), writes' = writes, ~ApplyPlan
  PROVE  o \notin found /\ (o \in Tables => call.drops)
<1>1. ~ UNCHANGED disk
  OBVIOUS
<1>2. CASE RunCreate
  <2>1. Put(call.out, call.df) /\ EngineAgrees(call.out, call.drops) /\ call.step = "Running"
    BY <1>1, <1>2 DEF RunCreate, DiskStays
  <2>2. call.out = o
    BY <2>1 DEF Put, IInv, TypeOK
  <2>3. o \notin found
    BY <2>1, <2>2 DEF CreatesWhatWasNotFound
  <2>4. o \in Tables => call.drops
    BY <2>1, <2>2, Names DEF EngineAgrees
  <2> QED BY <2>3, <2>4
<1>3. CASE \E x \in Objects : \E content \in OneChangeAway(x) : OtherWrites(x, content)
  BY <1>3 DEF OtherWrites, IInv, TypeOK
<1> QED BY <1>1, <1>2, <1>3
        DEF Next, vars, ServerStep, QueryCall, Load, CheckOutput, PlanOverwrite, PlanCreate,
            WriteCallFails, WriteCall, ApplyRefused, ApplyPlanFails, DiskStays

(* Without applying a plan that was shown, the server destroys nothing     *)
(* that was there when write_result looked, whoever makes tables and files *)
(* meanwhile; and of the tables made after the look only one that          *)
(* create_plan still saw.                                                  *)
THEOREM NothingDestroyed == Spec => NothingDestroyedUnplanned
<1>1. Init => CreatesWhatWasNotFound
  BY DEF Init, Idle, CreatesWhatWasNotFound
<1>2. IInv /\ CreatesWhatWasNotFound /\ [Next]_vars => CreatesWhatWasNotFound'
  BY CreatesStep
<1>3. ASSUME IInv, CreatesWhatWasNotFound, [Next]_vars
      PROVE  [ \A o \in Objects :
                 (disk'[o] # disk[o] /\ Exists(o) /\ writes' = writes /\ ~ApplyPlan) =>
                     o \notin found /\ (o \in Tables => call.drops) ]_vars
  BY <1>3, UnplannedStep
<1> QED BY <1>1, <1>2, <1>3, Soundness, PTL DEF Spec, NothingDestroyedUnplanned
=============================================================================
