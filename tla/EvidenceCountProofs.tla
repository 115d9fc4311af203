------------------------ MODULE EvidenceCountProofs ------------------------
(* Proofs about what is counted in Evidence, for any number of items, cases  *)
(* and threads: the uploads of a case against the limit of its plan, the     *)
(* rows of an item against the count the item shows and against its tables,  *)
(* and who is left to parse an item.                                         *)
EXTENDS EvidenceProofs, FiniteSetTheorems

\* The places a thread may be at while parse_evidence runs on it.
ParsePoints == {"clear", "copy", "load", "more", "save", "fail", "answer"}

\* A statement of parse_evidence or load_demo_data.
Parses(h) == \/ ParseClear(h) \/ ParseCopy(h) \/ ParseCopyFails(h) \/ ParseFails(h)
             \/ DemoFails(h)
             \/ \E n \in {0, 1} : ParseLoad(h, n) \/ ParseMore(h, n)
             \/ ParseSave(h) \/ ParseFailed(h) \/ ParseGone(h) \/ ParseAnswer(h)

\* What follows a parse is the next file of a batch, the next item of a demo
\* case or nothing: never the middle of an upload.
BatchesResume ==
  \A h \in Handlers : IsParsing(h) /\ job[h].then # Idle => job[h].then.at \in {"limit", "demo"}

-----------------------------------------------------------------------------
(* Where a statement takes its thread *)

\* A statement of a parse stays in the parse, keeping what follows it, or ends
\* it there.
LEMMA ParseGoes ==
  ASSUME TypeOK, NEW h \in Handlers, Parses(h)
  PROVE  /\ IsParsing(h)
         /\ \A g \in Handlers \ {h} : job'[g] = job[g]
         /\ \/ job'[h].at \in ParsePoints /\ job'[h].then = job[h].then
            \/ job'[h] = job[h].then
            \/ job'[h] = Idle
<1>1. IsParsing(h) /\ job[h] \in Parse
  BY JobShape DEF Parses, ParseClear, ParseCopy, ParseCopyFails, ParseFails, ParseLoad,
                  ParseMore, ParseSave, ParseFailed, ParseGone, ParseAnswer, DemoFails, IsParsing,
                  IsDemo
<1>2. \A g \in Handlers \ {h} : job'[g] = job[g]
  BY DEF TypeOK, Parses, ParseClear, ParseCopy, ParseCopyFails, ParseFails, ParseLoad, ParseMore,
         ParseSave, ParseFailed, ParseGone, ParseAnswer, DemoFails, Take, Goto, Done
<1> DEFINE Stays == job'[h].at \in ParsePoints /\ job'[h].then = job[h].then
<1>3. CASE ParseGone(h) \/ DemoFails(h)
  BY <1>1, <1>2, <1>3 DEF ParseGone, DemoFails, Done, TypeOK
<1>4. CASE ParseAnswer(h)
  BY <1>1, <1>2, <1>4 DEF ParseAnswer, Take, TypeOK
<1>5. CASE ParseClear(h) \/ ParseCopyFails(h) \/ ParseFails(h)
  <2>1. PICK l \in {"load", "copy", "fail"} : Goto(h, l)
    BY <1>5 DEF ParseClear, ParseCopyFails, ParseFails
  <2>2. Stays
    BY <1>1, <2>1 DEF Goto, Parse, TypeOK, ParsePoints
  <2> QED
    BY <1>1, <1>2, <2>2
<1>6. CASE ParseCopy(h) \/ ParseSave(h) \/ ParseFailed(h)
  <2>1. PICK l \in {"load", "answer"}, d \in BOOLEAN : Take(h, [job[h] EXCEPT !.at = l, !.dir = d])
    BY <1>6 DEF ParseCopy, ParseSave, ParseFailed
  <2>2. Stays
    BY <1>1, <2>1 DEF Take, Parse, TypeOK, ParsePoints
  <2> QED
    BY <1>1, <1>2, <2>2
<1>7. ASSUME NEW n \in {0, 1}, ParseLoad(h, n) PROVE Stays
  <2> DEFINE l == IF job[h].kind = "history" /\ ~IsDemo(h) THEN "more" ELSE "save"
  <2>1. l \in {"more", "save"} /\ job'[h] = [job[h] EXCEPT !.got = n, !.at = l]
    BY <1>7 DEF ParseLoad, Take, TypeOK
  <2> HIDE DEF l
  <2> QED
    BY <1>1, <2>1 DEF Parse, ParsePoints
<1>8. ASSUME NEW n \in {0, 1}, ParseMore(h, n) PROVE Stays
  BY <1>1, <1>8 DEF ParseMore, Take, Parse, TypeOK, ParsePoints
<1> QED
  BY <1>1, <1>2, <1>3, <1>4, <1>5, <1>6, <1>7, <1>8 DEF Parses

-----------------------------------------------------------------------------
(* Uploads *)

\* A parse begins for a re-parse, from a batch or from a demo case, and hands on
\* what it was given.
LEMMA ResumeStep == TypeOK /\ BatchesResume /\ [Next]_vars => BatchesResume'
<1> SUFFICES ASSUME TypeOK, BatchesResume, [Next]_vars,
                    NEW g \in Handlers, IsParsing(g)', job'[g].then # Idle
             PROVE  job'[g].then.at \in {"limit", "demo"}
  BY DEF BatchesResume
<1> USE DEF TypeOK, BatchesResume, IsParsing
<1>1. ASSUME NEW h \in Handlers, Parses(h)
      PROVE job'[g].then.at \in {"limit", "demo"}
  <2>1. job[h] \in Parse
    BY <1>1, ParseGoes, JobShape
  <2>2. job[h].then.at \notin ParsePoints
    BY <2>1 DEF Parse, Idle, Batch, DemoJob, ParsePoints
  <2> QED
    BY <1>1, <2>2, ParseGoes DEF Idle, ParsePoints
<1>2. ASSUME NEW h \in Handlers, NEW k \in Kinds, IngestRow(h, k)
      PROVE job'[g].then.at \in {"limit", "demo"}
  BY <1>2 DEF IngestRow, Take, Rest, ParseJob
<1>3. ASSUME NEW h \in Handlers, NEW i \in Ids, NEW k \in Kinds, DemoItem(h, i, k)
      PROVE job'[g].then.at \in {"limit", "demo"}
  <2>1. job[h] \in DemoJob
    BY <1>3, JobShape DEF DemoItem
  <2>2. [job[h] EXCEPT !.left = @ - 1].at = "demo"
    BY <2>1 DEF DemoJob
  <2> QED
    BY <1>3, <2>2 DEF DemoItem, Take, ParseJob
<1>4. ASSUME NEW h \in Handlers, Request(h) PROVE job'[g].then.at \in {"limit", "demo"}
  BY <1>4 DEF Request, IngestBegin, DemoBegin, ReparseBegin, RemoveBegin, ParseJob, Take, Idle
<1>5. ASSUME NEW h \in Handlers,
             \/ IngestEnd(h) \/ IngestOrphaned(h) \/ DemoEnd(h) \/ RemoveRow(h) \/ Abort(h)
      PROVE job'[g].then.at \in {"limit", "demo"}
  BY <1>5 DEF IngestEnd, IngestOrphaned, DemoEnd, RemoveRow, Abort, Done, Idle
<1>6. ASSUME NEW h \in Handlers, IngestCount(h) \/ IngestUnreadable(h) \/ RemoveFile(h)
      PROVE job'[g].then.at \in {"limit", "demo"}
  <2>1. job[h] \in Batch \cup Remove
    BY <1>6, JobShape DEF IngestCount, IngestUnreadable, RemoveFile
  <2>2. job'[h].at \in {"limit", "write", "idle", "erase"}
    BY <1>6, <2>1 DEF IngestCount, IngestUnreadable, RemoveFile, Goto, Done, Idle, Batch, Remove
  <2> QED
    BY <1>6, <2>2 DEF IngestCount, IngestUnreadable, RemoveFile, Goto, Done
<1>7. ASSUME NEW h \in Handlers, IngestRejected(h) \/ \E i \in Ids : IngestWrite(h, i)
      PROVE job'[g].then.at \in {"limit", "demo"}
  BY <1>7 DEF IngestRejected, IngestWrite, Rest, Take
<1>8. CASE UNCHANGED job
  BY <1>8
<1> QED
  BY <1>1, <1>2, <1>3, <1>4, <1>5, <1>6, <1>7, <1>8
  DEF Next, Continue, Parses, SwitchPlan, OpenCase, DeleteCase, vars, disk

\* The uploaded items of a case, and the threads that passed the limit check and
\* have not inserted their item yet.
Uploaded(c)  == {i \in ItemsOf(c) : item[i].file}
Uploading(c) == {h \in Handlers : job[h].at \in {"write", "row"} /\ job[h].case = c}

\* No plan is unlimited or allows more than Ceiling: the premise of EvidenceBound.
Bounded == \A l \in Limits : l # 0 /\ l <= Ceiling

\* EvidenceBound is not inductive: a thread past the check still inserts, so it
\* is counted from there on.
Room(c) == Cardinality(Uploaded(c)) + Cardinality(Uploading(c)) + 1
             <= Ceiling + Cardinality(Handlers)

LEMMA Counted ==
  ASSUME TypeOK, NEW c \in CaseIds
  PROVE  /\ Uploaded(c) \subseteq Ids /\ IsFiniteSet(Uploaded(c))
         /\ Uploading(c) \subseteq Handlers /\ IsFiniteSet(Uploading(c))
         /\ Uploaded(c) \subseteq ItemsOf(c) /\ IsFiniteSet(ItemsOf(c))
         /\ Cardinality(Uploaded(c)) \in Nat /\ Cardinality(Uploading(c)) \in Nat
         /\ Cardinality(ItemsOf(c)) \in Nat /\ Cardinality(Handlers) \in Nat
         /\ Cardinality(Uploaded(c)) <= Cardinality(ItemsOf(c))
         /\ Cardinality(Uploading(c)) <= Cardinality(Handlers)
<1>1. ItemsOf(c) \in SUBSET Ids /\ Uploaded(c) \in SUBSET ItemsOf(c)
  BY DEF Uploaded, ItemsOf
<1>2. Uploading(c) \in SUBSET Handlers
  BY DEF Uploading
<1>3. IsFiniteSet(ItemsOf(c)) /\ IsFiniteSet(Uploading(c)) /\ IsFiniteSet(Handlers)
  BY <1>1, <1>2, EvidenceAssumption, FS_Subset
<1>4. IsFiniteSet(Uploaded(c)) /\ Cardinality(Uploaded(c)) <= Cardinality(ItemsOf(c))
  BY <1>1, <1>3, FS_Subset
<1>5. Cardinality(Uploading(c)) <= Cardinality(Handlers)
  BY <1>2, <1>3, FS_Subset
<1> QED
  BY <1>1, <1>2, <1>3, <1>4, <1>5, FS_CardinalityType

\* Every step but the limit check that passes and the insert of a row adds no
\* upload and no thread about to make one.
LEMMA NothingNew ==
  ASSUME TypeOK, TypeOK', NEW c \in CaseIds, Room(c),
         Uploaded(c)' \subseteq Uploaded(c), Uploading(c)' \subseteq Uploading(c)
  PROVE  Room(c)'
<1>1. Cardinality(Uploaded(c)') <= Cardinality(Uploaded(c)) /\ Cardinality(Uploaded(c)') \in Nat
  BY Counted, FS_Subset, FS_CardinalityType
<1>2. Cardinality(Uploading(c)') <= Cardinality(Uploading(c)) /\ Cardinality(Uploading(c)') \in Nat
  BY Counted, FS_Subset, FS_CardinalityType
<1> QED
  BY <1>1, <1>2, Counted, EvidenceAssumption DEF Room

\* The check counted fewer items than the limit the batch began with, and all
\* threads together make at most one upload each.
LEMMA CheckKeepsRoom ==
  ASSUME TypeOK, TypeOK', Bounded, NEW h \in Handlers, IngestCount(h),
         NEW c \in CaseIds, Room(c)
  PROVE  Room(c)'
<1>1. /\ job[h] \in Batch /\ job[h].case \in CaseIds /\ job[h].limit \in Limits
      /\ UNCHANGED rows
  BY JobShape DEF IngestCount, Batch
<1>2. Uploaded(c)' = Uploaded(c)
  BY <1>1 DEF Uploaded, ItemsOf, rows
<1>3. CASE ~(c = job[h].case /\ Allowed(job[h].limit, Cardinality(ItemsOf(c))))
  <2>1. Uploading(c)' \subseteq Uploading(c)
    BY <1>1, <1>3 DEF IngestCount, Goto, Done, Idle, Uploading, TypeOK, Batch
  <2> QED
    BY <1>2, <2>1, NothingNew
<1>4. CASE c = job[h].case /\ Allowed(job[h].limit, Cardinality(ItemsOf(c)))
  <2>1. Cardinality(ItemsOf(c)) < Ceiling
    <3>1. job[h].limit # 0 /\ job[h].limit <= Ceiling /\ job[h].limit \in Nat
      BY <1>1, EvidenceAssumption DEF Bounded
    <3> QED
      BY <1>4, <3>1, Counted, EvidenceAssumption DEF Allowed
  <2>2. Cardinality(Uploading(c)') <= Cardinality(Handlers) /\ Cardinality(Uploading(c)') \in Nat
    <3>1. Uploading(c)' \in SUBSET Handlers /\ IsFiniteSet(Handlers)
      BY EvidenceAssumption DEF Uploading
    <3> QED
      BY <3>1, FS_Subset, FS_CardinalityType
  <2> QED
    BY <1>2, <2>1, <2>2, Counted, EvidenceAssumption DEF Room
<1> QED
  BY <1>3, <1>4

\* A thread past the check turns into one item.
LEMMA InsertKeepsRoom ==
  ASSUME TypeOK, TypeOK', NEW h \in Handlers, NEW k \in Kinds, IngestRow(h, k),
         NEW c \in CaseIds, Room(c)
  PROVE  Room(c)'
<1> DEFINE i == job[h].id
<1>1. /\ job[h] \in Stored /\ job[h].at = "row" /\ i \in Ids /\ job[h].case \in CaseIds
      /\ item' = [item EXCEPT ![i] = NewItem(job[h].case, k, TRUE)]
      /\ \A g \in Handlers \ {h} : job'[g] = job[g]
      /\ job'[h].at \notin {"write", "row"}
  BY JobShape DEF IngestRow, Stored, Take, Rest, ParseJob, TypeOK
<1>2. Uploading(c)' \subseteq Uploading(c) \ {h}
  BY <1>1 DEF Uploading
<1>3. CASE c # job[h].case
  <2>1. Uploaded(c)' \subseteq Uploaded(c)
    BY <1>1, <1>3, NewRow DEF Uploaded, ItemsOf, TypeOK
  <2> QED
    BY <1>2, <2>1, NothingNew
<1>4. CASE c = job[h].case
  <2>1. h \in Uploading(c)
    BY <1>1, <1>4 DEF Uploading
  <2>2. Uploaded(c)' \subseteq Uploaded(c) \cup {i}
    BY <1>1 DEF Uploaded, ItemsOf, TypeOK
  <2>3. /\ IsFiniteSet(Uploaded(c) \cup {i})
        /\ Cardinality(Uploaded(c) \cup {i}) <= Cardinality(Uploaded(c)) + 1
    <3>1. IsFiniteSet(Uploaded(c)) /\ Cardinality(Uploaded(c)) \in Nat
      BY Counted
    <3>2. /\ IsFiniteSet(Uploaded(c) \cup {i})
          /\ Cardinality(Uploaded(c) \cup {i})
               = IF i \in Uploaded(c) THEN Cardinality(Uploaded(c))
                 ELSE Cardinality(Uploaded(c)) + 1
      BY <3>1, FS_AddElement
    <3> QED
      BY <3>1, <3>2
  <2>4. /\ IsFiniteSet(Uploading(c) \ {h})
        /\ Cardinality(Uploading(c) \ {h}) = Cardinality(Uploading(c)) - 1
    BY <2>1, Counted, FS_RemoveElement
  <2>5. IsFiniteSet(Uploaded(c)') /\ Cardinality(Uploaded(c)') <= Cardinality(Uploaded(c) \cup {i})
    BY <2>2, <2>3, FS_Subset
  <2>6. IsFiniteSet(Uploading(c)') /\ Cardinality(Uploading(c)') <= Cardinality(Uploading(c) \ {h})
    BY <1>2, <2>4, FS_Subset
  <2>7. /\ Cardinality(Uploaded(c)') \in Nat /\ Cardinality(Uploading(c)') \in Nat
        /\ Cardinality(Uploaded(c) \cup {i}) \in Nat
    BY <2>3, <2>5, <2>6, FS_CardinalityType
  <2> QED
    BY <2>3, <2>4, <2>5, <2>6, <2>7, Counted, EvidenceAssumption DEF Room
<1> QED
  BY <1>3, <1>4

\* What else the step of a thread does to the uploads of a case.
LEMMA OtherSteps ==
  ASSUME TypeOK, BatchesResume, NEW h \in Handlers, Request(h) \/ Continue(h) \/ Abort(h),
         ~IngestCount(h), \A k \in Kinds : ~IngestRow(h, k), NEW c \in CaseIds
  PROVE  Uploaded(c)' \subseteq Uploaded(c) /\ Uploading(c)' \subseteq Uploading(c)
<1> DEFINE Less == Uploaded(c)' \subseteq Uploaded(c) /\ Uploading(c)' \subseteq Uploading(c)
<1> USE DEF TypeOK, Uploaded, Uploading, ItemsOf
<1>1. ASSUME Parses(h) PROVE Less
  <2>1. \A i \in Ids : item'[i] # None =>
          item[i] # None /\ item'[i].file = item[i].file /\ item'[i].case = item[i].case
    <3>1. CASE ParseSave(h) \/ ParseFailed(h)
      <4>1. job[h].id \in Ids /\ item[job[h].id] \in ItemRow
        BY <3>1, JobShape, RowChanges DEF ParseSave, ParseFailed, IsParsing, Holds
      <4> QED
        BY <3>1, <4>1 DEF ParseSave, ParseFailed, ItemRow
    <3>2. CASE ~(ParseSave(h) \/ ParseFailed(h))
      BY <1>1, <3>2 DEF Parses, ParseClear, ParseCopy, ParseCopyFails, ParseFails, ParseLoad,
                        ParseMore, ParseGone, ParseAnswer, DemoFails, rows
    <3> QED
      BY <3>1, <3>2
  <2>2. job'[h].at \notin {"write", "row"}
    <3>1. job[h].then.at \notin {"write", "row"}
      BY <1>1, ParseGoes DEF BatchesResume, Idle
    <3> QED
      BY <1>1, <3>1, ParseGoes DEF Idle, ParsePoints
  <2> QED
    BY <1>1, <2>1, <2>2, ParseGoes
<1>2. ASSUME NEW i \in Ids, IngestWrite(h, i) PROVE Less
  BY <1>2 DEF IngestWrite, Take, rows
<1>3. ASSUME NEW i \in Ids, NEW k \in Kinds, DemoItem(h, i, k) PROVE Less
  BY <1>3 DEF DemoItem, Take, ParseJob, NewItem
<1>4. CASE IngestUnreadable(h) \/ RemoveFile(h)
  <2>1. job[h] \in Batch \cup Remove
    BY <1>4, JobShape DEF IngestUnreadable, RemoveFile
  <2>2. job'[h].at \in {"limit", "erase"}
    BY <1>4, <2>1 DEF IngestUnreadable, RemoveFile, Goto, Batch, Remove
  <2> QED
    BY <1>4, <2>2 DEF IngestUnreadable, RemoveFile, Goto, rows
<1>5. CASE IngestRejected(h)
  BY <1>5 DEF IngestRejected, Take, Rest, rows
<1>6. CASE IngestEnd(h) \/ IngestOrphaned(h) \/ DemoEnd(h) \/ RemoveRow(h) \/ Abort(h)
  BY <1>6 DEF IngestEnd, IngestOrphaned, DemoEnd, RemoveRow, Abort, Done, Idle, rows
<1>7. CASE Request(h)
  BY <1>7 DEF Request, IngestBegin, DemoBegin, ReparseBegin, RemoveBegin, ParseJob, Take, rows
<1> QED
  BY <1>1, <1>2, <1>3, <1>4, <1>5, <1>6, <1>7 DEF Continue, Parses

LEMMA RoomStep ==
  ASSUME Bounded, NEW c \in CaseIds
  PROVE  TypeOK /\ TypeOK' /\ BatchesResume /\ Room(c) /\ [Next]_vars => Room(c)'
<1> SUFFICES ASSUME TypeOK, TypeOK', BatchesResume, Room(c), [Next]_vars PROVE Room(c)'
  OBVIOUS
<1>1. ASSUME NEW h \in Handlers, Request(h) \/ Continue(h) \/ Abort(h) PROVE Room(c)'
  BY <1>1, CheckKeepsRoom, InsertKeepsRoom, OtherSteps, NothingNew
<1>2. CASE UNCHANGED job /\ \A i \in Ids : item'[i] = None \/ item'[i] = item[i]
  <2>1. Uploaded(c)' \subseteq Uploaded(c) /\ Uploading(c)' = Uploading(c)
    BY <1>2 DEF Uploaded, Uploading, ItemsOf
  <2> QED
    BY <2>1, NothingNew
<1> QED
  BY <1>1, <1>2 DEF Next, SwitchPlan, OpenCase, DeleteCase, vars, rows, disk, TypeOK

\* Uploads that run together exceed the limit of a case by less than the number
\* of threads, although they all check before any of them inserts and keep the
\* limit of the plan they began with (EvidenceUploadAPI.post).
THEOREM UploadsAreBounded == Spec => []EvidenceBound
<1>1. CASE ~Bounded
  <2>1. EvidenceBound
    BY <1>1 DEF Bounded, EvidenceBound
  <2> QED
    BY <2>1, PTL
<1>2. CASE Bounded
  <2> DEFINE RoomEverywhere == \A c \in CaseIds : Room(c)
  <2>1. Init => BatchesResume /\ RoomEverywhere
    <3> SUFFICES ASSUME Init PROVE BatchesResume /\ RoomEverywhere
      OBVIOUS
    <3>1. BatchesResume
      BY DEF Init, BatchesResume, IsParsing, Idle
    <3>2. limit \in Nat /\ limit # 0 /\ limit <= Ceiling
      BY <1>2, EvidenceAssumption DEF Init, Bounded
    <3>3. Cardinality(Handlers) \in Nat
      BY EvidenceAssumption, FS_CardinalityType
    <3>4. ASSUME NEW c \in CaseIds PROVE Room(c)
      <4>1. Uploaded(c) = {} /\ Uploading(c) = {}
        BY DEF Init, Uploaded, Uploading, ItemsOf, Idle
      <4> QED
        BY <3>2, <3>3, <4>1, FS_EmptySet, EvidenceAssumption DEF Room
    <3> QED
      BY <3>1, <3>4
  <2>2. TypeOK /\ TypeOK' /\ BatchesResume /\ RoomEverywhere /\ [Next]_vars => RoomEverywhere'
    BY <1>2, RoomStep
  <2>3. TypeOK /\ RoomEverywhere => EvidenceBound
    <3> SUFFICES ASSUME TypeOK, NEW c \in CaseIds, Room(c)
                 PROVE  Cardinality({i \in ItemsOf(c) : item[i].file}) + 1
                          <= Ceiling + Cardinality(Handlers)
      BY DEF EvidenceBound
    <3> QED
      BY Counted, EvidenceAssumption DEF Room, Uploaded
  <2> HIDE DEF RoomEverywhere
  <2> QED
    BY <2>1, <2>2, <2>3, TypeInit, TypeStep, ResumeStep, PTL DEF Spec
<1> QED
  BY <1>1, <1>2

-----------------------------------------------------------------------------
(* What is counted, and how often a table is filled *)

\* Where the rows of an item and its count differ while it is parsed.
Unsettled == {"copy", "load", "more", "save", "fail"}

\* Neither CountIsTrue nor FilledOnce is inductive.  Of an item whose parses do
\* not overlap: one thread at most is parsing it, what it has filled so far is
\* what it will save, and only while it is at that may the count be wrong.
ItemInv(i) == item[i] # None /\ i \notin crossed =>
  /\ \A g, h \in Workers(i) : g = h
  /\ \A h \in Workers(i) :
       /\ job[h].at \in {"copy", "load"} => entries[i] = 0
       /\ job[h].at \in {"more", "save"} => entries[i] = job[h].got
  /\ entries[i] <= IF item[i].kind = "history" THEN 2 ELSE 1
  /\ i \notin cut /\ item[i].status = "parsed" =>
       item[i].count = entries[i] \/ \E h \in Workers(i) : job[h].at \in Unsettled

\* A parse works for the kind of its item, and only a history has a second table.
KindIsKnown ==
  \A h \in Handlers : IsParsing(h) /\ item[job[h].id] # None =>
    /\ job[h].kind = item[job[h].id].kind
    /\ job[h].at = "more" => job[h].kind = "history"

ParseInv == KindIsKnown /\ \A i \in Ids : ItemInv(i)

\* A step that leaves an item and those who parse it alone keeps its invariant.
LEMMA Untouched ==
  ASSUME NEW i \in Ids, ItemInv(i), item'[i] # None => item'[i] = item[i],
         entries'[i] = entries[i] \/ item'[i] = None,
         i \notin crossed' => i \notin crossed, i \notin cut' => i \notin cut,
         Workers(i)' = Workers(i), \A g \in Workers(i) : job'[g] = job[g]
  PROVE  ItemInv(i)'
  BY DEF ItemInv

\* A statement of a parse moves one thread and concerns one item; it ends that
\* the item counts as crossed only when its thread clears it alone.
LEMMA ParseTouches ==
  ASSUME TypeOK, NEW h \in Handlers, Parses(h), NEW i, i = job[h].id
  PROVE  /\ i \in Ids /\ job[h] \in Parse /\ IsParsing(h)
         /\ job'[h].at \in ParsePoints => job'[h].id = i /\ job'[h].kind = job[h].kind
         /\ \A j \in Ids \ {i} : /\ item'[j] = item[j] /\ entries'[j] = entries[j]
                                 /\ j \in crossed' <=> j \in crossed
                                 /\ j \in cut' <=> j \in cut
         /\ item'[i] # None => item[i] # None /\ item'[i].kind = item[i].kind
         /\ ~ParseClear(h) => crossed' = crossed
<1>1. i \in Ids /\ job[h] \in Parse /\ IsParsing(h) /\ job \in [Handlers -> Jobs]
  BY ParseGoes, JobShape DEF Holds, TypeOK
<1>2. job'[h].at \in ParsePoints => job'[h].id = i /\ job'[h].kind = job[h].kind
  <2>1. CASE ParseClear(h) \/ ParseCopyFails(h) \/ ParseFails(h)
    <3>1. PICK l \in {"load", "copy", "fail"} : Goto(h, l)
      BY <2>1 DEF ParseClear, ParseCopyFails, ParseFails
    <3> QED
      BY <1>1, <3>1 DEF Goto, Parse
  <2>2. CASE ParseCopy(h) \/ ParseSave(h) \/ ParseFailed(h)
    <3>1. PICK l \in {"load", "answer"}, d \in BOOLEAN : Take(h, [job[h] EXCEPT !.at = l, !.dir = d])
      BY <2>2 DEF ParseCopy, ParseSave, ParseFailed
    <3> QED
      BY <1>1, <3>1 DEF Take, Parse
  <2>3. CASE \E n \in {0, 1} : ParseLoad(h, n)
    <3>1. PICK n \in {0, 1}, l \in {"more", "save"} : job'[h] = [job[h] EXCEPT !.got = n, !.at = l]
      BY <1>1, <2>3 DEF ParseLoad, Take
    <3> QED
      BY <1>1, <3>1 DEF Parse
  <2>4. CASE \E n \in {0, 1} : ParseMore(h, n)
    BY <1>1, <2>4 DEF ParseMore, Take, Parse
  <2>5. CASE ParseGone(h) \/ DemoFails(h)
    BY <1>1, <2>5 DEF ParseGone, DemoFails, Done, Idle, ParsePoints
  <2>6. CASE ParseAnswer(h)
    <3>1. job[h].then.at \notin ParsePoints
      BY <1>1 DEF Parse, Idle, Batch, DemoJob, ParsePoints
    <3> QED
      BY <1>1, <2>6, <3>1 DEF ParseAnswer, Take, Idle, ParsePoints
  <2> QED
    BY <2>1, <2>2, <2>3, <2>4, <2>5, <2>6 DEF Parses
<1>3. /\ \A j \in Ids \ {i} : /\ item'[j] = item[j] /\ entries'[j] = entries[j]
                              /\ j \in crossed' <=> j \in crossed
                              /\ j \in cut' <=> j \in cut
      /\ item'[i] # None => item[i] # None
      /\ ~ParseClear(h) => crossed' = crossed
  BY <1>1 DEF Parses, ParseClear, ParseCopy, ParseCopyFails, ParseFails, ParseLoad, ParseMore,
              ParseSave, ParseFailed, ParseGone, ParseAnswer, DemoFails, CutOff, Workers, TypeOK,
              rows, history
<1>4. item'[i] # None => item'[i].kind = item[i].kind
  <2>1. CASE ParseSave(h) \/ ParseFailed(h)
    <3>1. item[i] \in ItemRow
      BY <1>1, <2>1, RowChanges DEF ParseSave, ParseFailed
    <3> QED
      BY <1>1, <2>1, <3>1 DEF ParseSave, ParseFailed, TypeOK, ItemRow
  <2>2. CASE ~(ParseSave(h) \/ ParseFailed(h))
    BY <2>2 DEF Parses, ParseClear, ParseCopy, ParseCopyFails, ParseFails, ParseLoad, ParseMore,
                ParseGone, ParseAnswer, DemoFails, rows
  <2> QED
    BY <2>1, <2>2
<1> QED
  BY <1>1, <1>2, <1>3, <1>4

\* What a statement of a parse does to its item, if its thread is the only one
\* there.
LEMMA ParseAlone ==
  ASSUME TypeOK, RowsAreLinked, ParseInv, NEW h \in Handlers, Parses(h), NEW i, i = job[h].id,
         i \notin crossed', item'[i] # None
  PROVE  ItemInv(i)'
<1>1. /\ i \in Ids /\ job[h] \in Parse /\ IsParsing(h) /\ item[i] # None
      /\ job'[h].at \in ParsePoints => job'[h].id = i
      /\ \A g \in Handlers \ {h} : job'[g] = job[g]
      /\ item'[i].kind = item[i].kind /\ entries[i] \in Nat
  BY ParseTouches, ParseGoes DEF TypeOK
<1> DEFINE bound == IF item[i].kind = "history" THEN 2 ELSE 1
<1>2. CASE ParseAnswer(h)
  <2>1. job'[h].at \notin ParsePoints
    <3>1. job[h].then.at \notin ParsePoints
      BY <1>1 DEF Parse, Idle, Batch, DemoJob, ParsePoints
    <3> QED
      BY <1>2, <3>1 DEF ParseAnswer, Take, Idle, ParsePoints, TypeOK
  <2>2. Workers(i)' = Workers(i) /\ h \notin Workers(i)
    BY <1>1, <1>2, <2>1 DEF Workers, ParseAnswer, ParsePoints
  <2> QED
    BY <1>1, <1>2, <2>2, Untouched DEF ParseInv, ParseAnswer, Workers, rows, history
<1>3. ASSUME ~ParseAnswer(h) PROVE ItemInv(i)'
  <2>1. Workers(i) = {h}
    <3>1. h \in Workers(i)
      BY <1>1, <1>3 DEF Parses, ParseClear, ParseCopy, ParseCopyFails, ParseFails, ParseLoad,
                        ParseMore, ParseSave, ParseFailed, ParseGone, DemoFails, Workers
    <3>2. CASE i \notin crossed
      BY <1>1, <3>1, <3>2 DEF ParseInv, ItemInv, Workers
    <3>3. CASE i \in crossed
      BY <3>3, ParseTouches DEF ParseClear
    <3> QED
      BY <3>2, <3>3
  <2>2. Workers(i)' = IF job'[h].at \in ParsePoints \ {"answer"} THEN {h} ELSE {}
    BY <1>1, <2>1 DEF Workers, ParsePoints
  <2> DEFINE Tallied == /\ job'[h].at \in {"copy", "load"} => entries'[i] = 0
                        /\ job'[h].at \in {"more", "save"} => entries'[i] = job'[h].got
             Settled == i \notin cut' /\ item'[i].status = "parsed" =>
                          item'[i].count = entries'[i] \/ job'[h].at \in Unsettled
  <2>3. SUFFICES Tallied /\ entries'[i] <= bound /\ Settled
    BY <1>1, <2>2 DEF ItemInv, Unsettled, ParsePoints
  <2>4. CASE ParseClear(h)
    <3>1. job'[h].at \in {"load", "copy"} /\ entries'[i] = 0
      BY <1>1, <2>4 DEF ParseClear, Goto, Parse, TypeOK
    <3> QED
      BY <3>1 DEF Unsettled
  <2>5. i \notin crossed \/ ParseClear(h)
    BY ParseTouches
  <2>6. CASE ~ParseClear(h)
    <3>1. /\ job[h].at \in {"copy", "load"} => entries[i] = 0
          /\ job[h].at \in {"more", "save"} => entries[i] = job[h].got
          /\ entries[i] <= bound
      BY <1>1, <2>1, <2>5, <2>6 DEF ParseInv, ItemInv
    <3>2. CASE ParseCopy(h)
      <4>1. job'[h].at = "load" /\ entries' = entries
        BY <1>1, <3>2 DEF ParseCopy, Take, Parse, TypeOK, rows
      <4> QED
        BY <3>1, <3>2, <4>1 DEF Unsettled, ParseCopy
    <3>3. CASE ParseCopyFails(h) \/ ParseFails(h)
      <4>1. job'[h].at = "fail" /\ entries' = entries
        BY <1>1, <3>3 DEF ParseCopyFails, ParseFails, Goto, Parse, TypeOK, rows
      <4> QED
        BY <3>1, <4>1 DEF Unsettled
    <3>4. CASE DemoFails(h)
      <4>1. job'[h].at = "idle" /\ entries' = entries /\ i \in cut'
        BY <1>1, <2>1, <3>4 DEF DemoFails, CutOff, Done, Idle, TypeOK, rows
      <4> QED
        BY <3>1, <4>1
    <3>5. ASSUME NEW n \in {0, 1}, ParseLoad(h, n) PROVE Tallied /\ entries'[i] <= bound /\ Settled
      <4> DEFINE l == IF job[h].kind = "history" /\ ~IsDemo(h) THEN "more" ELSE "save"
      <4>1. l \in {"more", "save"} /\ job'[h] = [job[h] EXCEPT !.got = n, !.at = l]
        BY <3>5 DEF ParseLoad, Take, TypeOK
      <4> HIDE DEF l
      <4>2. job'[h].at \in {"more", "save"} /\ job'[h].got = n
        BY <1>1, <4>1 DEF Parse
      <4>3. entries'[i] = n
        BY <1>1, <3>1, <3>5 DEF ParseLoad, TypeOK
      <4> QED
        BY <4>2, <4>3 DEF Unsettled
    <3>6. ASSUME NEW n \in {0, 1}, ParseMore(h, n) PROVE Tallied /\ entries'[i] <= bound /\ Settled
      <4>1. job'[h].at = "save" /\ job'[h].got = job[h].got + n
        BY <1>1, <3>6 DEF ParseMore, Take, Parse, TypeOK
      <4>2. entries'[i] = job[h].got + n /\ job[h].got <= 1 /\ job[h].got \in Nat
        BY <1>1, <3>1, <3>6 DEF ParseMore, TypeOK, Parse
      <4>3. item[i].kind = "history"
        BY <1>1, <3>6 DEF ParseMore, ParseInv, KindIsKnown
      <4> QED
        BY <4>1, <4>2, <4>3 DEF Unsettled
    <3>7. CASE ParseSave(h) \/ ParseFailed(h)
      <4>1. item[i] \in ItemRow
        BY <1>1, RowChanges
      <4>2. job'[h].at = "answer" /\ entries' = entries
        <5>1. job'[h] = [job[h] EXCEPT !.at = "answer", !.dir = FALSE]
          BY <3>7 DEF ParseSave, ParseFailed, Take, TypeOK
        <5> QED
          BY <1>1, <3>7, <5>1 DEF Parse, ParseSave, ParseFailed
      <4>3. item'[i].status = "parsed" => item'[i].count = entries[i]
        BY <1>1, <3>1, <3>7, <4>1 DEF ParseSave, ParseFailed, TypeOK, ItemRow
      <4> QED
        BY <3>1, <4>2, <4>3
    <3>8. CASE ParseGone(h)
      BY <1>1, <3>8 DEF ParseGone
    <3> QED
      BY <1>3, <2>6, <3>2, <3>3, <3>4, <3>5, <3>6, <3>7, <3>8 DEF Parses
  <2> QED
    BY <2>4, <2>6
<1> QED
  BY <1>2, <1>3

LEMMA ParseStep ==
  ASSUME TypeOK, RowsAreLinked, ParseInv, NEW h \in Handlers, Parses(h)
  PROVE  ParseInv'
<1> DEFINE i == job[h].id
<1>1. /\ i \in Ids /\ job[h] \in Parse /\ IsParsing(h)
      /\ job'[h].at \in ParsePoints => job'[h].id = i /\ job'[h].kind = job[h].kind
      /\ \A j \in Ids \ {i} : /\ item'[j] = item[j] /\ entries'[j] = entries[j]
                              /\ j \in crossed' <=> j \in crossed
                              /\ j \in cut' <=> j \in cut
      /\ item'[i] # None => item[i] # None /\ item'[i].kind = item[i].kind
      /\ \A g \in Handlers \ {h} : job'[g] = job[g]
  BY ParseTouches, ParseGoes
<1>2. job'[h].at = "more" => job[h].kind = "history"
  <2>1. CASE \E n \in {0, 1} : ParseLoad(h, n)
    BY <1>1, <2>1 DEF ParseLoad, Take, TypeOK, Parse
  <2>2. CASE ParseClear(h) \/ ParseCopyFails(h) \/ ParseFails(h)
    <3>1. PICK l \in {"load", "copy", "fail"} : Goto(h, l)
      BY <2>2 DEF ParseClear, ParseCopyFails, ParseFails
    <3> QED
      BY <1>1, <3>1 DEF Goto, Parse, TypeOK
  <2>3. CASE ParseCopy(h) \/ ParseSave(h) \/ ParseFailed(h)
    <3>1. PICK l \in {"load", "answer"}, d \in BOOLEAN : Take(h, [job[h] EXCEPT !.at = l, !.dir = d])
      BY <2>3 DEF ParseCopy, ParseSave, ParseFailed
    <3> QED
      BY <1>1, <3>1 DEF Take, Parse, TypeOK
  <2>6. CASE \E n \in {0, 1} : ParseMore(h, n)
    BY <1>1, <2>6 DEF ParseMore, Take, Parse, TypeOK
  <2>4. CASE ParseGone(h) \/ DemoFails(h)
    BY <2>4 DEF ParseGone, DemoFails, Done, Idle, TypeOK
  <2>5. CASE ParseAnswer(h)
    <3>1. job[h].then.at # "more"
      BY <1>1 DEF Parse, Idle, Batch, DemoJob
    <3> QED
      BY <2>5, <3>1 DEF ParseAnswer, Take, Idle, TypeOK
  <2> QED
    BY <2>1, <2>2, <2>3, <2>4, <2>5, <2>6 DEF Parses
<1>3. KindIsKnown'
  <2> SUFFICES ASSUME NEW g \in Handlers, IsParsing(g)', item'[job'[g].id] # None
               PROVE  /\ job'[g].kind = item'[job'[g].id].kind
                      /\ job'[g].at = "more" => job'[g].kind = "history"
    BY DEF KindIsKnown
  <2>1. CASE g = h
    BY <1>1, <1>2, <2>1 DEF ParseInv, KindIsKnown, IsParsing, ParsePoints
  <2>2. CASE g # h
    <3>1. job'[g] = job[g] /\ job[g].id \in Ids /\ IsParsing(g)
      BY <1>1, <2>2, JobShape DEF IsParsing, Holds
    <3> QED
      BY <1>1, <3>1 DEF ParseInv, KindIsKnown
  <2> QED
    BY <2>1, <2>2
<1>4. ASSUME NEW j \in Ids PROVE ItemInv(j)'
  <2>1. CASE j # i
    <3>1. Workers(j)' = Workers(j) /\ h \notin Workers(j)
      BY <1>1, <2>1 DEF Workers, ParsePoints
    <3> QED
      BY <1>1, <2>1, <3>1, Untouched DEF ParseInv, Workers
  <2>2. CASE j = i
    <3>1. CASE i \notin crossed' /\ item'[i] # None
      BY <2>2, <3>1, ParseAlone
    <3>2. CASE ~(i \notin crossed' /\ item'[i] # None)
      BY <2>2, <3>2 DEF ItemInv
    <3> QED
      BY <3>1, <3>2
  <2> QED
    BY <2>1, <2>2
<1> QED
  BY <1>3, <1>4 DEF ParseInv

\* A thread that makes an item is the only one that knows of it.
LEMMA MakeStep ==
  ASSUME TypeOK, RowsAreLinked, StoredFilesAreApart, ParseInv, NEW h \in Handlers,
         \/ \E k \in Kinds : IngestRow(h, k)
         \/ \E i \in Ids, k \in Kinds : DemoItem(h, i, k)
  PROVE  ParseInv'
<1> DEFINE Makes(i, k) ==
      /\ item[i] = None /\ ~IsParsing(h)
      /\ \A g \in Handlers \ {h} : Holds(g) => job[g].id # i
      /\ item'[i].status = "uploaded" /\ item'[i].kind = k
      /\ \A x \in Ids \ {i} : item'[x] = item[x]
      /\ IsParsing(h)' => job'[h].at = "clear" /\ job'[h].id = i /\ job'[h].kind = k
      /\ \A g \in Handlers \ {h} : job'[g] = job[g]
      /\ entries' = entries /\ crossed' = crossed /\ cut' = cut
<1>1. PICK i \in Ids, k \in Kinds : Makes(i, k)
  <2>1. ASSUME NEW k \in Kinds, IngestRow(h, k) PROVE job[h].id \in Ids /\ Makes(job[h].id, k)
    <3>1. job[h].id \in Ids /\ job[h].at = "row"
      BY <2>1, JobShape DEF IngestRow, Stored
    <3> QED
      BY <2>1, <3>1 DEF IngestRow, StoredFilesAreApart, Take, Rest, NewItem, ParseJob, IsParsing,
                        TypeOK, history
  <2>2. ASSUME NEW i \in Ids, NEW k \in Kinds, DemoItem(h, i, k) PROVE Makes(i, k)
    BY <2>2 DEF DemoItem, FreshItem, Take, NewItem, ParseJob, IsParsing, TypeOK, history
  <2> HIDE DEF Makes
  <2> QED
    BY <2>1, <2>2
<1>2. KindIsKnown'
  <2> SUFFICES ASSUME NEW g \in Handlers, IsParsing(g)', item'[job'[g].id] # None
               PROVE  /\ job'[g].kind = item'[job'[g].id].kind
                      /\ job'[g].at = "more" => job'[g].kind = "history"
    BY DEF KindIsKnown
  <2>1. CASE g = h
    BY <1>1, <2>1
  <2>2. CASE g # h
    <3>1. job'[g] = job[g] /\ job[g].id \in Ids \ {i} /\ IsParsing(g)
      BY <1>1, <2>2, JobShape DEF IsParsing, Holds
    <3> QED
      BY <1>1, <3>1 DEF ParseInv, KindIsKnown
  <2> QED
    BY <2>1, <2>2
<1>3. ASSUME NEW x \in Ids PROVE ItemInv(x)'
  <2>1. CASE x # i
    <3>1. Workers(x)' = Workers(x) /\ h \notin Workers(x)
      BY <1>1, <2>1 DEF Workers, IsParsing
    <3> QED
      BY <1>1, <2>1, <3>1, Untouched DEF ParseInv, Workers
  <2>2. CASE x = i
    <3>1. Workers(i)' \subseteq {h} /\ \A g \in Workers(i)' : job'[g].at = "clear"
      BY <1>1 DEF Workers, IsParsing, Holds
    <3>2. entries'[i] = 0
      BY <1>1 DEF RowsAreLinked
    <3> QED
      BY <1>1, <2>2, <3>1, <3>2 DEF ItemInv
  <2> QED
    BY <2>1, <2>2
<1> QED
  BY <1>2, <1>3 DEF ParseInv

\* Statements of other requests touch no item that stays and nobody's parse.
LEMMA Elsewhere ==
  ASSUME TypeOK, ParseInv, NEW h \in Handlers, ~IsParsing(h), ~IsParsing(h)',
         \A g \in Handlers \ {h} : job'[g] = job[g],
         \A i \in Ids : item'[i] = None \/ /\ item'[i] = item[i] /\ entries'[i] = entries[i]
                                           /\ i \in crossed' <=> i \in crossed
                                           /\ i \in cut' <=> i \in cut
  PROVE  ParseInv'
<1>1. \A i \in Ids : Workers(i)' = Workers(i) /\ h \notin Workers(i)
  BY DEF Workers, IsParsing
<1>2. ASSUME NEW i \in Ids PROVE ItemInv(i)'
  <2>1. CASE item'[i] = None
    BY <2>1 DEF ItemInv
  <2>2. CASE item'[i] # None
    BY <1>1, <2>2, Untouched DEF ParseInv, Workers
  <2> QED
    BY <2>1, <2>2
<1>3. ASSUME NEW g \in Handlers, IsParsing(g)', item'[job'[g].id] # None
      PROVE  /\ job'[g].kind = item'[job'[g].id].kind
             /\ job'[g].at = "more" => job'[g].kind = "history"
  <2>1. job'[g] = job[g] /\ job[g].id \in Ids /\ IsParsing(g)
    BY <1>3, JobShape DEF IsParsing, Holds
  <2> QED
    BY <1>3, <2>1 DEF ParseInv, KindIsKnown
<1> QED
  BY <1>2, <1>3 DEF ParseInv, KindIsKnown

\* A re-parse of an item that somebody is parsing marks it as crossed.
LEMMA ReparseStep ==
  ASSUME TypeOK, ParseInv, NEW h \in Handlers, NEW i \in Ids, ReparseBegin(h, i)
  PROVE  ParseInv'
<1>1. /\ ~IsParsing(h)
      /\ job'[h].at = "clear" /\ job'[h].id = i /\ job'[h].kind = item[i].kind
      /\ \A g \in Handlers \ {h} : job'[g] = job[g]
      /\ item' = item /\ entries' = entries /\ cut' = cut /\ item[i] # None
      /\ crossed' = IF Workers(i) = {} THEN crossed ELSE crossed \cup {i}
  BY DEF ReparseBegin, Take, ParseJob, IsParsing, Idle, TypeOK, rows
<1>2. ASSUME NEW g \in Handlers, IsParsing(g)', item'[job'[g].id] # None
      PROVE  /\ job'[g].kind = item'[job'[g].id].kind
             /\ job'[g].at = "more" => job'[g].kind = "history"
  <2>1. CASE g = h
    BY <1>1, <2>1
  <2>2. CASE g # h
    BY <1>1, <1>2, <2>2 DEF ParseInv, KindIsKnown, IsParsing
  <2> QED
    BY <2>1, <2>2
<1>3. ASSUME NEW j \in Ids PROVE ItemInv(j)'
  <2>1. CASE j # i
    <3>1. Workers(j)' = Workers(j) /\ h \notin Workers(j)
      BY <1>1, <2>1 DEF Workers, IsParsing
    <3> QED
      BY <1>1, <2>1, <3>1, Untouched DEF ParseInv, Workers
  <2>2. CASE j = i /\ Workers(i) = {}
    <3>1. Workers(i)' = {h}
      BY <1>1, <2>2 DEF Workers
    <3> QED
      BY <1>1, <2>2, <3>1 DEF ParseInv, ItemInv
  <2>3. CASE j = i /\ Workers(i) # {}
    BY <1>1, <2>3 DEF ItemInv
  <2> QED
    BY <2>1, <2>2, <2>3
<1> QED
  BY <1>2, <1>3 DEF ParseInv, KindIsKnown

\* A parse that dies leaves its item marked as cut.
LEMMA AbortStep ==
  ASSUME TypeOK, ParseInv, NEW h \in Handlers, Abort(h)
  PROVE  ParseInv'
<1>1. /\ job'[h] = Idle /\ \A g \in Handlers \ {h} : job'[g] = job[g]
      /\ item' = item /\ entries' = entries /\ crossed' = crossed
      /\ \A i \in Ids : i \in cut' <=> i \in cut \/ (h \in Workers(i) /\ item[i] # None)
  BY DEF Abort, CutOff, Done, TypeOK, rows
<1>2. ASSUME NEW g \in Handlers, IsParsing(g)', item'[job'[g].id] # None
      PROVE  /\ job'[g].kind = item'[job'[g].id].kind
             /\ job'[g].at = "more" => job'[g].kind = "history"
  <2>1. g # h
    BY <1>1, <1>2 DEF IsParsing, Idle
  <2> QED
    BY <1>1, <1>2, <2>1 DEF ParseInv, KindIsKnown, IsParsing
<1>3. ASSUME NEW j \in Ids PROVE ItemInv(j)'
  <2>1. Workers(j)' = Workers(j) \ {h}
    BY <1>1 DEF Workers, Idle
  <2>2. \A g \in Workers(j)' : job'[g] = job[g]
    BY <1>1, <2>1 DEF Workers
  <2> QED
    BY <1>1, <2>1, <2>2 DEF ParseInv, ItemInv
<1> QED
  BY <1>2, <1>3 DEF ParseInv, KindIsKnown

LEMMA CountStep ==
  TypeOK /\ RowsAreLinked /\ StoredFilesAreApart /\ ParseInv /\ [Next]_vars => ParseInv'
<1> SUFFICES ASSUME TypeOK, RowsAreLinked, StoredFilesAreApart, ParseInv, [Next]_vars
             PROVE  ParseInv'
  OBVIOUS
<1>1. ASSUME NEW h \in Handlers, Continue(h) PROVE ParseInv'
  <2>1. CASE RemoveRow(h)
    <3>1. /\ ~IsParsing(h) /\ ~IsParsing(h)' /\ \A g \in Handlers \ {h} : job'[g] = job[g]
          /\ \A i \in Ids : item'[i] = None \/ /\ item'[i] = item[i] /\ entries'[i] = entries[i]
                                               /\ i \in crossed' <=> i \in crossed
                                               /\ i \in cut' <=> i \in cut
      BY <2>1 DEF RemoveRow, Forget, Done, Idle, IsParsing, TypeOK
    <3> QED
      BY <3>1, Elsewhere
  <2>2. CASE IngestCount(h) \/ IngestUnreadable(h) \/ RemoveFile(h)
    <3>1. job[h] \in Batch \cup Remove
      BY <2>2, JobShape DEF IngestCount, IngestUnreadable, RemoveFile
    <3>2. job'[h].at \in {"limit", "write", "idle", "erase"}
      BY <2>2, <3>1 DEF IngestCount, IngestUnreadable, RemoveFile, Goto, Done, Idle, Batch,
                        Remove, TypeOK
    <3>3. ~IsParsing(h) /\ ~IsParsing(h)'
      BY <3>1, <3>2 DEF Batch, Remove, IsParsing
    <3>4. UNCHANGED <<item, entries, history>> /\ \A g \in Handlers \ {h} : job'[g] = job[g]
      BY <2>2 DEF IngestCount, IngestUnreadable, RemoveFile, Goto, Done, TypeOK, rows
    <3> QED
      BY <3>3, <3>4, Elsewhere DEF history
  <2>3. CASE \/ IngestEnd(h) \/ IngestOrphaned(h) \/ DemoEnd(h)
             \/ IngestRejected(h) \/ \E i \in Ids : IngestWrite(h, i)
    <3>1. ~IsParsing(h) /\ ~IsParsing(h)'
      BY <2>3 DEF IngestEnd, IngestOrphaned, DemoEnd, IngestRejected, IngestWrite, Take, Rest,
                  Done, Idle, IsParsing, TypeOK
    <3>2. UNCHANGED <<item, entries, history>> /\ \A g \in Handlers \ {h} : job'[g] = job[g]
      BY <2>3 DEF IngestEnd, IngestOrphaned, DemoEnd, IngestRejected, IngestWrite, Take, Done,
                  TypeOK, rows
    <3> QED
      BY <3>1, <3>2, Elsewhere DEF history
  <2> QED
    BY <1>1, <2>1, <2>2, <2>3, ParseStep, MakeStep DEF Continue, Parses
<1>2. ASSUME NEW h \in Handlers, Request(h) PROVE ParseInv'
  <2>1. CASE \/ \E c \in CaseIds : IngestBegin(h, c) \/ DemoBegin(h, c)
             \/ \E i \in Ids : RemoveBegin(h, i)
    <3>1. ~IsParsing(h) /\ ~IsParsing(h)'
      BY <2>1 DEF IngestBegin, DemoBegin, RemoveBegin, Take, Idle, IsParsing, TypeOK
    <3>2. UNCHANGED <<item, entries, history>> /\ \A g \in Handlers \ {h} : job'[g] = job[g]
      BY <2>1 DEF IngestBegin, DemoBegin, RemoveBegin, Take, TypeOK, rows
    <3> QED
      BY <3>1, <3>2, Elsewhere DEF history
  <2> QED
    BY <1>2, <2>1, ReparseStep DEF Request
<1>3. ASSUME NEW c \in CaseIds, DeleteCase(c) PROVE ParseInv'
  <2>1. /\ job' = job
        /\ \A i \in Ids : item'[i] = None \/ /\ item'[i] = item[i] /\ entries'[i] = entries[i]
                                             /\ i \in crossed' <=> i \in crossed
                                             /\ i \in cut' <=> i \in cut
    BY <1>3 DEF DeleteCase, Forget, TypeOK
  <2>2. ASSUME NEW i \in Ids PROVE ItemInv(i)'
    <3>1. Workers(i)' = Workers(i)
      BY <2>1 DEF Workers
    <3> QED
      BY <2>1, <3>1 DEF ParseInv, ItemInv
  <2>3. KindIsKnown'
    BY <2>1, JobShape DEF ParseInv, KindIsKnown, IsParsing, Holds
  <2> QED
    BY <2>2, <2>3 DEF ParseInv
<1>4. CASE UNCHANGED <<job, item, entries, history>>
  <2>1. \A i \in Ids : Workers(i)' = Workers(i)
    BY <1>4 DEF Workers
  <2> QED
    BY <1>4, <2>1 DEF ParseInv, ItemInv, KindIsKnown, IsParsing, history
<1> QED
  BY <1>1, <1>2, <1>3, <1>4, AbortStep
  DEF Next, SwitchPlan, OpenCase, vars, rows, disk, history

LEMMA ParseInvariant == Spec => []ParseInv
<1>1. Init => RowsAreLinked /\ StoredFilesAreApart /\ ParseInv
  BY DEF Init, RowsAreLinked, StoredFilesAreApart, ParseInv, ItemInv, KindIsKnown, IsParsing, Idle
<1> QED
  BY <1>1, TypeInit, TypeStep, LinkStep, ApartStep, CountStep, PTL DEF Spec

\* The count shown for a parsed item is what its tables hold, with any number of
\* threads and deaths, unless its last parse overlapped another of the same item
\* or was cut off (parse_evidence: row_count).
THEOREM CountsAreTrue == Spec => []CountIsTrue
<1>1. ParseInv => CountIsTrue
  BY DEF ParseInv, ItemInv, CountIsTrue
<1> QED
  BY <1>1, ParseInvariant, PTL

\* A table is filled twice only by two parses of the same item that overlap, what
\* evidence_twice finds, wherever requests die and how often they are repeated
\* (parse_evidence: "Clear any previous parse").
THEOREM OneParseFillsOnce == Spec => []FilledOnce
<1>1. ParseInv => FilledOnce
  BY DEF ParseInv, ItemInv, FilledOnce
<1> QED
  BY <1>1, ParseInvariant, PTL

-----------------------------------------------------------------------------
(* Items that wait to be parsed *)

\* What ParseSettles rests on: an item that is to be parsed has a thread that is
\* parsing it and has yet to save what came of it, or its parse was cut off.
SomebodyParses ==
  \A i \in Ids : item[i] # None /\ item[i].status = "uploaded" /\ item[i].kind # "other" =>
    Workers(i) # {} \/ i \in cut

\* A statement of a parse leaves its thread at work on the item, or saves a status,
\* or finds the item gone, or cuts the parse off.
LEMMA ParseSaves ==
  ASSUME TypeOK, NEW h \in Handlers, Parses(h), NEW i, i = job[h].id,
         item'[i] # None, item'[i].status = "uploaded", h \in Workers(i)
  PROVE  h \in Workers(i)' \/ i \in cut'
<1>1. /\ i \in Ids /\ job[h] \in Parse
      /\ job'[h].at \in ParsePoints => job'[h].id = i
      /\ item[i] # None
  BY ParseTouches
<1>2. CASE ParseClear(h) \/ ParseCopyFails(h) \/ ParseFails(h)
  <2>1. PICK l \in {"load", "copy", "fail"} : Goto(h, l)
    BY <1>2 DEF ParseClear, ParseCopyFails, ParseFails
  <2>2. job'[h].at = l
    BY <1>1, <2>1 DEF Goto, Parse, TypeOK
  <2> QED
    BY <1>1, <2>2 DEF Workers, ParsePoints
<1>3. CASE ParseCopy(h)
  <2>1. job'[h].at = "load"
    BY <1>1, <1>3 DEF ParseCopy, Take, Parse, TypeOK
  <2> QED
    BY <1>1, <2>1 DEF Workers, ParsePoints
<1>4. CASE \E n \in {0, 1} : ParseLoad(h, n)
  <2>1. PICK n \in {0, 1}, l \in {"more", "save"} : job'[h] = [job[h] EXCEPT !.got = n, !.at = l]
    BY <1>1, <1>4 DEF ParseLoad, Take, TypeOK
  <2>2. job'[h].at = l
    BY <1>1, <2>1 DEF Parse
  <2> QED
    BY <1>1, <2>2 DEF Workers, ParsePoints
<1>5. CASE \E n \in {0, 1} : ParseMore(h, n)
  <2>1. job'[h].at = "save"
    BY <1>1, <1>5 DEF ParseMore, Take, Parse, TypeOK
  <2> QED
    BY <1>1, <2>1 DEF Workers, ParsePoints
<1>6. CASE ParseSave(h) \/ ParseFailed(h)
  <2>1. item[i] \in ItemRow
    BY <1>1, RowChanges
  <2> QED
    BY <1>1, <1>6, <2>1 DEF ParseSave, ParseFailed, TypeOK, ItemRow
<1>7. CASE DemoFails(h)
  BY <1>1, <1>7 DEF DemoFails, CutOff
<1>8. ~ParseGone(h) /\ ~ParseAnswer(h)
  BY <1>1 DEF ParseGone, ParseAnswer, Workers
<1> QED
  BY <1>2, <1>3, <1>4, <1>5, <1>6, <1>7, <1>8 DEF Parses

LEMMA SomebodyStep ==
  TypeOK /\ SomebodyParses /\ [Next]_vars => SomebodyParses'
<1> SUFFICES ASSUME TypeOK, SomebodyParses, [Next]_vars,
                    NEW i \in Ids, item'[i] # None, item'[i].status = "uploaded",
                    item'[i].kind # "other"
             PROVE  Workers(i)' # {} \/ i \in cut'
  BY DEF SomebodyParses
<1> DEFINE Cared == Workers(i)' # {} \/ i \in cut'
\* A thread that is at work on the item stays, unless it is the one that steps.
<1>1. ASSUME item'[i] = item[i], NEW h \in Handlers, \A g \in Handlers \ {h} : job'[g] = job[g],
             h \notin Workers(i), i \in cut => i \in cut'
      PROVE  Cared
  BY <1>1 DEF SomebodyParses, Workers
<1> USE DEF TypeOK
<1>2. ASSUME NEW h \in Handlers, Continue(h) PROVE Cared
  <2>1. CASE Parses(h)
    <3> DEFINE j == job[h].id
    <3>1. /\ j \in Ids /\ \A g \in Handlers \ {h} : job'[g] = job[g]
          /\ item'[j] # None => item[j] # None /\ item'[j].kind = item[j].kind
          /\ \A x \in Ids \ {j} : item'[x] = item[x] /\ (x \in cut' <=> x \in cut)
      BY <2>1, ParseTouches, ParseGoes
    <3>2. CASE j # i
      <4>1. h \notin Workers(i)
        BY <3>2 DEF Workers
      <4> QED
        BY <1>1, <3>1, <3>2, <4>1
    <3>3. CASE j = i /\ h \in Workers(i)
      BY <2>1, <3>3, ParseSaves
    <3>4. CASE j = i /\ h \notin Workers(i)
      <4>1. ParseAnswer(h)
        BY <2>1, <3>4 DEF Parses, ParseClear, ParseCopy, ParseCopyFails, ParseFails, ParseLoad,
                          ParseMore, ParseSave, ParseFailed, ParseGone, DemoFails, Workers
      <4> QED
        BY <1>1, <3>1, <3>4, <4>1 DEF ParseAnswer, rows, history
    <3> QED
      BY <3>2, <3>3, <3>4
  <2>2. ASSUME NEW k \in Kinds, IngestRow(h, k) PROVE Cared
    <3>1. job[h] \in Stored /\ job[h].at = "row" /\ job[h].id \in Ids
      BY <2>2, JobShape DEF IngestRow, Stored
    <3>2. CASE job[h].id # i
      BY <1>1, <2>2, <3>1, <3>2 DEF IngestRow, Take, Workers, history
    <3>3. CASE job[h].id = i
      BY <2>2, <3>1, <3>3 DEF IngestRow, Take, NewItem, ParseJob, Workers
    <3> QED
      BY <3>2, <3>3
  <2>3. ASSUME NEW j \in Ids, NEW k \in Kinds, DemoItem(h, j, k) PROVE Cared
    <3>1. CASE j # i
      BY <1>1, <2>3, <3>1 DEF DemoItem, Take, Workers, history
    <3>2. CASE j = i
      BY <2>3, <3>2 DEF DemoItem, Take, NewItem, ParseJob, Workers
    <3> QED
      BY <3>1, <3>2
  <2>4. CASE RemoveRow(h)
    <3>1. /\ item'[i] = item[i] /\ h \notin Workers(i) /\ (i \in cut => i \in cut')
          /\ \A g \in Handlers \ {h} : job'[g] = job[g]
      BY <2>4 DEF RemoveRow, Forget, Done, Workers
    <3> QED
      BY <1>1, <3>1
  <2>5. CASE \/ IngestEnd(h) \/ IngestCount(h) \/ IngestUnreadable(h) \/ IngestRejected(h)
             \/ IngestOrphaned(h) \/ DemoEnd(h) \/ RemoveFile(h) \/ \E j \in Ids : IngestWrite(h, j)
    <3>1. /\ item' = item /\ h \notin Workers(i) /\ cut' = cut
          /\ \A g \in Handlers \ {h} : job'[g] = job[g]
      BY <2>5 DEF IngestEnd, IngestCount, IngestUnreadable, IngestRejected, IngestOrphaned,
                  DemoEnd, RemoveFile, IngestWrite, Take, Goto, Done, rows, Workers, history
    <3> QED
      BY <1>1, <3>1
  <2> QED
    BY <1>2, <2>1, <2>2, <2>3, <2>4, <2>5 DEF Continue, Parses
<1>3. ASSUME NEW h \in Handlers, Request(h) PROVE Cared
  <2>1. /\ item' = item /\ h \notin Workers(i) /\ cut' = cut
        /\ \A g \in Handlers \ {h} : job'[g] = job[g]
    BY <1>3 DEF Request, IngestBegin, DemoBegin, ReparseBegin, RemoveBegin, Take, Idle, rows,
                Workers, history
  <2> QED
    BY <1>1, <2>1
<1>4. ASSUME NEW h \in Handlers, Abort(h) PROVE Cared
  <2>1. /\ item' = item /\ (i \in cut => i \in cut') /\ (h \in Workers(i) => i \in cut')
        /\ \A g \in Handlers \ {h} : job'[g] = job[g]
    BY <1>4 DEF Abort, CutOff, Done, rows
  <2> QED
    BY <1>1, <2>1
<1>5. CASE UNCHANGED job /\ item'[i] = item[i] /\ (i \in cut => i \in cut')
  BY <1>5 DEF SomebodyParses, Workers
<1> QED
  BY <1>2, <1>3, <1>4, <1>5
  DEF Next, SwitchPlan, OpenCase, DeleteCase, Forget, vars, rows, disk, history

\* No item is left to wait: one marked UPLOADED that can be parsed has a thread
\* that will mark it, whoever deletes or parses it meanwhile, or its parse was
\* cut off.  With the fairness of FairSpec this is what ParseSettles says
\* (parse_evidence; nothing else would resume the item).
THEOREM NobodyIsForgotten == Spec => []SomebodyParses
<1>1. Init => SomebodyParses
  BY DEF Init, SomebodyParses
<1> QED
  BY <1>1, TypeInit, TypeStep, SomebodyStep, PTL DEF Spec

=============================================================================
