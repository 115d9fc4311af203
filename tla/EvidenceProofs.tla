--------------------------- MODULE EvidenceProofs ---------------------------
(* Proofs about Evidence for any number of items, cases and threads.         *)
EXTENDS Evidence, TLAPS

\* The label a thread stands at tells what its job carries.
LEMMA JobShape ==
  ASSUME TypeOK, NEW h \in Handlers
  PROVE  /\ job[h] \in Jobs
         /\ job[h].at \in {"limit", "write"} => job[h] \in Batch
         /\ job[h].at = "row" => job[h] \in Stored
         /\ job[h].at = "demo" => job[h] \in DemoJob
         /\ IsParsing(h) => job[h] \in Parse
         /\ job[h].at \in {"unlink", "erase"} => job[h] \in Remove
         /\ Holds(h) => job[h].id \in Ids
<1>1. job[h] \in Jobs
  BY DEF TypeOK
<1>2. /\ Idle.at = "idle"
      /\ \A j \in Batch : j.at \in {"limit", "write"}
      /\ \A j \in Stored : j.at = "row" /\ j.id \in Ids
      /\ \A j \in DemoJob : j.at = "demo"
      /\ \A j \in Parse : /\ j.at \in {"clear", "copy", "load", "more", "save", "fail", "answer"}
                          /\ j.id \in Ids
      /\ \A j \in Remove : j.at \in {"unlink", "erase"} /\ j.id \in Ids
  BY DEF Idle, Batch, Stored, DemoJob, Parse, Remove
<1> QED
  BY <1>1, <1>2 DEF Jobs, IsParsing, Holds

\* A parsing thread that moves on is still one.
LEMMA ParseMoves ==
  ASSUME TypeOK, NEW h \in Handlers, IsParsing(h),
         NEW l \in {"copy", "load", "more", "save", "fail", "answer"}
  PROVE  [job[h] EXCEPT !.at = l] \in Parse
  BY JobShape DEF Parse

\* The job with which a parse begins.
LEMMA ParseBegins ==
  ASSUME NEW i \in Ids, NEW row \in ItemRow, NEW then \in {Idle} \cup Batch \cup DemoJob
  PROVE  ParseJob(i, row, then) \in Parse
  BY EvidenceAssumption DEF ParseJob, Parse, ItemRow, AllKinds

\* Giving a thread another job leaves the jobs typed.
LEMMA TakeTyped ==
  ASSUME TypeOK, NEW h \in Handlers, NEW j \in Jobs, j.at = "more" => j.got <= 1, Take(h, j)
  PROVE  /\ job' \in [Handlers -> Jobs]
         /\ \A g \in Handlers : job'[g].at = "more" => job'[g].got <= 1
  BY DEF TypeOK, Take

LEMMA DoneTyped ==
  ASSUME TypeOK, NEW h \in Handlers, Done(h)
  PROVE  /\ job' \in [Handlers -> Jobs]
         /\ \A g \in Handlers : job'[g].at = "more" => job'[g].got <= 1
  BY DEF TypeOK, Done, Jobs, Idle

\* A new row is a row.
LEMMA NewRow ==
  ASSUME NEW c \in CaseIds, NEW k \in Kinds, NEW f \in BOOLEAN
  PROVE  /\ NewItem(c, k, f) \in ItemRow
         /\ NewItem(c, k, f) # None
         /\ NewItem(c, k, f).case = c
<1>1. NewItem(c, k, f) \in ItemRow
  BY EvidenceAssumption DEF NewItem, ItemRow
<1> QED
  BY <1>1, EvidenceAssumption DEF NewItem

\* A row another one is made from stays a row.
LEMMA RowChanges ==
  ASSUME TypeOK, NEW i \in Ids, item[i] # None
  PROVE  item[i] \in ItemRow
  BY DEF TypeOK

-----------------------------------------------------------------------------
(* Types *)

LEMMA TypeInit == Init => TypeOK
<1> SUFFICES ASSUME Init PROVE TypeOK
  OBVIOUS
<1>1. job \in [Handlers -> Jobs] /\ \A h \in Handlers : job[h].at = "idle"
  BY DEF Init, Jobs, Idle
<1>2. item \in [Ids -> ItemRow \cup {None}] /\ entries \in [Ids -> Nat]
  BY DEF Init
<1> QED
  BY <1>1, <1>2 DEF Init, TypeOK

LEMMA IngestTyped ==
  ASSUME TypeOK, NEW h \in Handlers,
         \/ IngestEnd(h) \/ IngestCount(h) \/ IngestUnreadable(h) \/ IngestRejected(h)
         \/ IngestOrphaned(h) \/ DemoEnd(h)
         \/ \E i \in Ids : IngestWrite(h, i)
         \/ \E k \in Kinds : IngestRow(h, k)
         \/ \E i \in Ids, k \in Kinds : DemoItem(h, i, k)
  PROVE  TypeOK'
<1>1. CASE IngestEnd(h) \/ IngestOrphaned(h) \/ DemoEnd(h)
  BY <1>1, DoneTyped DEF IngestEnd, IngestOrphaned, DemoEnd, TypeOK, rows, disk, history
<1>2. CASE IngestCount(h) \/ IngestUnreadable(h)
  <2>1. /\ job[h] \in Batch
        /\ [job[h] EXCEPT !.at = "write"] \in Batch
        /\ [job[h] EXCEPT !.at = "limit"] \in Batch
    BY <1>2, JobShape DEF IngestCount, IngestUnreadable, Batch
  <2> QED
    BY <1>2, <2>1 DEF IngestCount, IngestUnreadable, Goto, Done, TypeOK, Jobs, Batch, Idle, rows, disk, history
<1>3. CASE IngestRejected(h)
  <2>1. Rest(h) \in Batch /\ Rest(h).at = "limit"
    BY <1>3, JobShape DEF IngestRejected, Rest, Stored, Batch
  <2> QED
    BY <1>3, <2>1, TakeTyped DEF IngestRejected, TypeOK, Jobs, rows, history
<1>4. ASSUME NEW i \in Ids, IngestWrite(h, i) PROVE TypeOK'
  <2> DEFINE j == [at |-> "row", case |-> job[h].case, limit |-> job[h].limit, id |-> i]
  <2>1. j \in Stored /\ j.at = "row"
    BY <1>4, JobShape DEF IngestWrite, Batch, Stored
  <2> QED
    BY <1>4, <2>1, TakeTyped DEF IngestWrite, TypeOK, Jobs, rows, history
<1>5. ASSUME NEW k \in Kinds, IngestRow(h, k) PROVE TypeOK'
  <2> DEFINE row == NewItem(job[h].case, k, TRUE)
             j   == IF k = "other" THEN Rest(h) ELSE ParseJob(job[h].id, row, Rest(h))
  <2>1. /\ job[h] \in Stored
        /\ Rest(h) \in Batch /\ Rest(h).at = "limit"
    BY <1>5, JobShape DEF IngestRow, Rest, Stored, Batch
  <2>2. row \in ItemRow /\ job[h].id \in Ids
    BY <2>1, NewRow DEF Stored
  <2>3. j \in Jobs /\ j.at # "more"
    BY <2>1, <2>2, ParseBegins DEF Jobs, ParseJob
  <2> QED
    BY <1>5, <2>2, <2>3, TakeTyped DEF IngestRow, TypeOK, disk, history
<1>6. ASSUME NEW i \in Ids, NEW k \in Kinds, DemoItem(h, i, k) PROVE TypeOK'
  <2> DEFINE row == NewItem(job[h].case, k, FALSE)
             j   == ParseJob(i, row, [job[h] EXCEPT !.left = @ - 1])
  <2>1. job[h] \in DemoJob /\ [job[h] EXCEPT !.left = @ - 1] \in DemoJob
    BY <1>6, JobShape, EvidenceAssumption DEF DemoItem, DemoJob
  <2>2. row \in ItemRow
    BY <2>1, NewRow DEF DemoJob
  <2>3. j \in Jobs /\ j.at # "more"
    BY <2>1, <2>2, ParseBegins DEF Jobs, ParseJob
  <2> QED
    BY <1>6, <2>2, <2>3, TakeTyped DEF DemoItem, TypeOK, disk, history
<1> QED
  BY <1>1, <1>2, <1>3, <1>4, <1>5, <1>6

LEMMA ParseTyped ==
  ASSUME TypeOK, NEW h \in Handlers,
         \/ ParseClear(h) \/ ParseCopy(h) \/ ParseCopyFails(h) \/ ParseFails(h)
         \/ \E n \in {0, 1} : ParseLoad(h, n) \/ ParseMore(h, n)
         \/ ParseSave(h) \/ ParseFailed(h) \/ ParseGone(h) \/ ParseAnswer(h)
         \/ DemoFails(h)
  PROVE  TypeOK'
<1>1. CASE ParseClear(h)
  <2>1. IsParsing(h)
    BY <1>1 DEF ParseClear, IsParsing
  <2>2. [job[h] EXCEPT !.at = "load"] \in Parse /\ [job[h] EXCEPT !.at = "copy"] \in Parse
    BY <2>1, ParseMoves
  <2>3. entries' \in [Ids -> Nat]
    BY <1>1 DEF ParseClear, TypeOK
  <2> DEFINE l == IF IsDemo(h) \/ job[h].kind = "direct" THEN "load" ELSE "copy"
  <2>4. /\ [job[h] EXCEPT !.at = l] \in Parse
        /\ [job[h] EXCEPT !.at = l].at # "more"
        /\ Take(h, [job[h] EXCEPT !.at = l])
    BY <1>1, <2>2, JobShape, <2>1 DEF ParseClear, Take, Goto, Parse, TypeOK
  <2> QED
    BY <1>1, <2>3, <2>4, TakeTyped DEF ParseClear, TypeOK, Jobs, disk, history
<1>2. CASE ParseCopy(h)
  <2> DEFINE j == [job[h] EXCEPT !.at = "load", !.dir = TRUE]
  <2>1. j \in Parse /\ j.at # "more"
    BY <1>2, JobShape DEF ParseCopy, IsParsing, Parse
  <2> QED
    BY <1>2, <2>1, TakeTyped DEF ParseCopy, TypeOK, Jobs, rows, disk, history
<1>3. CASE ParseCopyFails(h) \/ ParseFails(h)
  <2> DEFINE j == [job[h] EXCEPT !.at = "fail"]
  <2>1. j \in Parse /\ j.at # "more" /\ Take(h, j)
    BY <1>3, JobShape DEF ParseCopyFails, ParseFails, IsParsing, Parse, Take, Goto, TypeOK
  <2> QED
    BY <1>3, <2>1, TakeTyped DEF ParseCopyFails, ParseFails, TypeOK, Jobs, rows, disk, history
<1>4. ASSUME NEW n \in {0, 1}, ParseLoad(h, n) PROVE TypeOK'
  <2> DEFINE l == IF job[h].kind = "history" /\ ~IsDemo(h) THEN "more" ELSE "save"
             j == [job[h] EXCEPT !.got = n, !.at = l]
  <2>4. job[h] \in Parse /\ job[h].id \in Ids
    BY <1>4, JobShape DEF ParseLoad, IsParsing, Parse
  <2>1. j \in Parse /\ j.got <= 1
    <3>1. l \in {"more", "save"} /\ n \in 0 .. 2 /\ n <= 1
      OBVIOUS
    <3> HIDE DEF l
    <3> QED
      BY <2>4, <3>1 DEF Parse
  <2>2. entries' \in [Ids -> Nat]
    <3>1. entries[job[h].id] + n \in Nat
      BY <2>4 DEF TypeOK
    <3> QED
      BY <1>4, <3>1 DEF ParseLoad, TypeOK
  <2> QED
    <3>1. Take(h, j) /\ j \in Jobs /\ (j.at = "more" => j.got <= 1)
      BY <1>4, <2>1 DEF ParseLoad, Jobs
    <3> HIDE DEF j
    <3> QED
      BY <1>4, <2>2, <3>1, TakeTyped DEF ParseLoad, TypeOK, disk, history
<1>5. ASSUME NEW n \in {0, 1}, ParseMore(h, n) PROVE TypeOK'
  <2> DEFINE j == [job[h] EXCEPT !.got = @ + n, !.at = "save"]
  <2>1. job[h] \in Parse /\ job[h].id \in Ids /\ job[h].got \in 0 .. 1
    BY <1>5, JobShape DEF ParseMore, IsParsing, Parse, TypeOK
  <2>2. j \in Parse /\ j.at = "save"
    <3>1. job[h].got + n \in 0 .. 2
      BY <2>1
    <3> QED
      BY <2>1, <3>1 DEF Parse
  <2>3. entries' \in [Ids -> Nat]
    <3>1. entries[job[h].id] + n \in Nat
      BY <2>1 DEF TypeOK
    <3> QED
      BY <1>5, <3>1 DEF ParseMore, TypeOK
  <2> QED
    BY <1>5, <2>2, <2>3, TakeTyped DEF ParseMore, TypeOK, Jobs, disk, history
<1>6. CASE ParseSave(h) \/ ParseFailed(h)
  <2> DEFINE j == [job[h] EXCEPT !.at = "answer", !.dir = FALSE]
  <2>1. job[h] \in Parse /\ j \in Parse /\ j.at = "answer"
    BY <1>6, JobShape DEF ParseSave, ParseFailed, IsParsing, Parse
  <2>2. item[job[h].id] \in ItemRow
    BY <1>6, <2>1, RowChanges DEF ParseSave, ParseFailed, Parse
  <2>3. item' \in [Ids -> ItemRow \cup {None}]
    BY <1>6, <2>1, <2>2 DEF ParseSave, ParseFailed, TypeOK, ItemRow, Parse
  <2> QED
    BY <1>6, <2>1, <2>3, TakeTyped DEF ParseSave, ParseFailed, TypeOK, Jobs, disk, history
<1>7. CASE ParseGone(h)
  BY <1>7, DoneTyped DEF ParseGone, TypeOK, rows, disk, history
<1>8. CASE ParseAnswer(h)
  <2>1. job[h].then \in {Idle} \cup Batch \cup DemoJob
    BY <1>8, JobShape DEF ParseAnswer, IsParsing, Parse
  <2> DEFINE j == IF item[job[h].id] = None /\ ~IsDemo(h) THEN Idle ELSE job[h].then
  <2>2. j \in Jobs /\ j.at # "more"
    BY <2>1 DEF Jobs, Idle, Batch, DemoJob
  <2> QED
    BY <1>8, <2>2, TakeTyped DEF ParseAnswer, TypeOK, rows, disk, history
<1>9. CASE DemoFails(h)
  <2>1. cut' \subseteq Ids
    BY <1>9 DEF DemoFails, CutOff, TypeOK
  <2> QED
    BY <1>9, <2>1, DoneTyped DEF DemoFails, TypeOK, rows, disk
<1> QED
  BY <1>1, <1>2, <1>3, <1>4, <1>5, <1>6, <1>7, <1>8, <1>9

LEMMA TypeStep == TypeOK /\ [Next]_vars => TypeOK'
<1> SUFFICES ASSUME TypeOK, [Next]_vars PROVE TypeOK'
  OBVIOUS
<1>1. ASSUME NEW h \in Handlers, Request(h) PROVE TypeOK'
  <2>1. ASSUME NEW c \in CaseIds, IngestBegin(h, c) PROVE TypeOK'
    <3> DEFINE j == [at |-> "limit", case |-> c, limit |-> limit]
    <3>1. j \in Jobs /\ j.at = "limit"
      BY DEF Jobs, Batch, TypeOK
    <3> QED
      BY <2>1, <3>1, TakeTyped DEF IngestBegin, TypeOK, rows, disk, history
  <2>2. ASSUME NEW c \in CaseIds, DemoBegin(h, c) PROVE TypeOK'
    <3> DEFINE j == [at |-> "demo", case |-> c, left |-> DemoSize]
    <3>1. j \in Jobs /\ j.at = "demo"
      BY EvidenceAssumption DEF Jobs, DemoJob
    <3> QED
      BY <2>2, <3>1, TakeTyped DEF DemoBegin, TypeOK, disk, history
  <2>3. ASSUME NEW i \in Ids, ReparseBegin(h, i) PROVE TypeOK'
    <3> DEFINE j == ParseJob(i, item[i], Idle)
    <3>1. j \in Jobs /\ j.at = "clear"
      BY <2>3, RowChanges, ParseBegins DEF ReparseBegin, Jobs, ParseJob
    <3> QED
      BY <2>3, <3>1, TakeTyped DEF ReparseBegin, TypeOK, rows, disk, history
  <2>4. ASSUME NEW i \in Ids, RemoveBegin(h, i) PROVE TypeOK'
    <3> DEFINE j == [at |-> "unlink", id |-> i, file |-> item[i].file]
    <3>1. j \in Jobs /\ j.at = "unlink"
      BY <2>4, RowChanges DEF RemoveBegin, Jobs, Remove, ItemRow
    <3> QED
      BY <2>4, <3>1, TakeTyped DEF RemoveBegin, TypeOK, rows, disk, history
  <2> QED
    BY <1>1, <2>1, <2>2, <2>3, <2>4 DEF Request
<1>2. ASSUME NEW h \in Handlers, Continue(h) PROVE TypeOK'
  <2>1. CASE RemoveFile(h)
    <3> DEFINE j == [job[h] EXCEPT !.at = "erase"]
    <3>1. job[h] \in Remove /\ j \in Remove /\ j.at = "erase" /\ Take(h, j)
      BY <2>1, JobShape DEF RemoveFile, Remove, Take, Goto, TypeOK
    <3> QED
      BY <2>1, <3>1, TakeTyped DEF RemoveFile, TypeOK, Jobs, rows, history
  <2>2. CASE RemoveRow(h)
    <3>1. entries' \in [Ids -> Nat] /\ item' \in [Ids -> ItemRow \cup {None}]
      BY <2>2 DEF RemoveRow, TypeOK
    <3> QED
      BY <2>2, <3>1, DoneTyped DEF RemoveRow, Forget, TypeOK, disk
  <2> QED
    BY <1>2, <2>1, <2>2, IngestTyped, ParseTyped DEF Continue
<1>3. ASSUME NEW h \in Handlers, Abort(h) PROVE TypeOK'
  <2>1. litter' \in BOOLEAN
    BY <1>3, JobShape DEF Abort, TypeOK, IsParsing, Parse
  <2>2. (bereft \cup crossed)' \cup cut' \subseteq Ids
    BY <1>3 DEF Abort, CutOff, TypeOK
  <2> QED
    BY <1>3, <2>1, <2>2, DoneTyped DEF Abort, TypeOK, rows
<1>4. ASSUME NEW l \in Limits, SwitchPlan(l) PROVE TypeOK'
  BY <1>4 DEF SwitchPlan, TypeOK, rows, disk, history
<1>5. ASSUME NEW c \in CaseIds, OpenCase(c) \/ DeleteCase(c) PROVE TypeOK'
  <2>1. entries' \in [Ids -> Nat] /\ item' \in [Ids -> ItemRow \cup {None}]
    BY <1>5 DEF OpenCase, DeleteCase, TypeOK
  <2> QED
    BY <1>5, <2>1 DEF OpenCase, DeleteCase, Forget, TypeOK, disk, history
<1>6. CASE UNCHANGED vars
  BY <1>6 DEF vars, rows, disk, history, TypeOK
<1> QED
  BY <1>1, <1>2, <1>3, <1>4, <1>5, <1>6 DEF Next

\* Items, parsed rows and jobs always have their types (evidence/models.py).
THEOREM TypeCorrect == Spec => []TypeOK
  BY TypeInit, TypeStep, PTL DEF Spec

-----------------------------------------------------------------------------
(* What one step of a thread does to keys, files and items *)

\* Other threads go on as before; a thread takes hold of a key that is fresh or
\* of an item that is there; a file goes only with a rejected upload or with a
\* deletion; an item comes only from a stored file or, without one, in a demo.
Effects(h) ==
  /\ \A g \in Handlers \ {h} : job'[g] = job[g]
  /\ Holds(h)' => \/ Holds(h) /\ job'[h].id = job[h].id
                  \/ FreshItem(job'[h].id)
                  \/ item[job'[h].id] # None
  /\ job'[h].at = "row" => /\ FreshItem(job'[h].id)
                           /\ job'[h].id \in files'
                           /\ UNCHANGED item
  /\ \A i \in files \ files' :
       /\ Holds(h) /\ job[h].id = i
       /\ job[h].at = "unlink" => job'[h].at = "erase" /\ job'[h].id = i
       /\ job[h].at \in {"row", "unlink"}
  /\ \A i \in Ids : item'[i] # None =>
       \/ item[i] # None /\ item'[i].file = item[i].file
       \/ job[h].at = "row" /\ job[h].id = i /\ UNCHANGED files
       \/ FreshItem(i) /\ ~item'[i].file
  /\ \A i \in Ids : i \in bereft /\ item'[i] # None => i \in bereft'

LEMMA IngestEffects ==
  ASSUME TypeOK, NEW h \in Handlers,
         \/ IngestEnd(h) \/ IngestCount(h) \/ IngestUnreadable(h) \/ IngestRejected(h)
         \/ IngestOrphaned(h) \/ DemoEnd(h)
         \/ \E i \in Ids : IngestWrite(h, i)
         \/ \E k \in Kinds : IngestRow(h, k)
         \/ \E i \in Ids, k \in Kinds : DemoItem(h, i, k)
  PROVE  Effects(h)
<1> USE DEF TypeOK, Holds, IsParsing, history
<1>1. CASE IngestEnd(h) \/ IngestOrphaned(h) \/ DemoEnd(h)
  BY <1>1 DEF IngestEnd, IngestOrphaned, DemoEnd, Effects, history, Done, Idle, rows, disk
<1>2. CASE IngestCount(h) \/ IngestUnreadable(h)
  <2>1. job'[h].at \in {"write", "limit", "idle"}
    BY <1>2, JobShape DEF IngestCount, IngestUnreadable, Goto, Done, Idle, Batch
  <2> QED
    BY <1>2, <2>1 DEF IngestCount, IngestUnreadable, Effects, history, Goto, Done, rows, disk
<1>3. CASE IngestRejected(h)
  BY <1>3, JobShape DEF IngestRejected, Effects, history, Take, Rest, rows, Stored
<1>4. ASSUME NEW i \in Ids, IngestWrite(h, i) PROVE Effects(h)
  BY <1>4 DEF IngestWrite, Effects, history, Take, rows
<1>5. ASSUME NEW k \in Kinds, IngestRow(h, k) PROVE Effects(h)
  <2> DEFINE row == NewItem(job[h].case, k, TRUE)
             j   == IF k = "other" THEN Rest(h) ELSE ParseJob(job[h].id, row, Rest(h))
  <2>1. job[h].id \in Ids /\ job'[h] = j
    BY <1>5, JobShape DEF IngestRow, Take, Stored
  <2>2. j.at \in {"limit", "clear"} /\ (j.at = "clear" => j.id = job[h].id)
    BY DEF Rest, ParseJob
  <2> QED
    BY <1>5, <2>1, <2>2 DEF IngestRow, Effects, history, Take, disk
<1>6. ASSUME NEW i \in Ids, NEW k \in Kinds, DemoItem(h, i, k) PROVE Effects(h)
  BY <1>6 DEF DemoItem, Effects, history, Take, ParseJob, NewItem, disk
<1> QED
  BY <1>1, <1>2, <1>3, <1>4, <1>5, <1>6

LEMMA ParseEffects ==
  ASSUME TypeOK, NEW h \in Handlers,
         \/ ParseClear(h) \/ ParseCopy(h) \/ ParseCopyFails(h) \/ ParseFails(h)
         \/ \E n \in {0, 1} : ParseLoad(h, n) \/ ParseMore(h, n)
         \/ ParseSave(h) \/ ParseFailed(h) \/ ParseGone(h) \/ ParseAnswer(h)
         \/ DemoFails(h)
  PROVE  Effects(h)
<1>1. IsParsing(h) /\ job[h] \in Parse /\ Holds(h)
  BY JobShape DEF ParseClear, ParseCopy, ParseCopyFails, ParseFails, ParseLoad, ParseMore,
                  ParseSave, ParseFailed, ParseGone, ParseAnswer, DemoFails, IsParsing, Holds, IsDemo
<1>2. UNCHANGED <<files, bereft>>
  BY DEF ParseClear, ParseCopy, ParseCopyFails, ParseFails, ParseLoad, ParseMore,
         ParseSave, ParseFailed, ParseGone, ParseAnswer, DemoFails, disk, history
<1>3. \A i \in Ids : item'[i] # None => item[i] # None /\ item'[i].file = item[i].file
  <2>1. CASE ParseSave(h) \/ ParseFailed(h)
    <3>1. item[job[h].id] \in ItemRow
      BY <1>1, <2>1, RowChanges DEF ParseSave, ParseFailed, Parse
    <3> QED
      BY <2>1, <3>1 DEF ParseSave, ParseFailed, TypeOK, ItemRow
  <2>2. CASE ~(ParseSave(h) \/ ParseFailed(h))
    BY <2>2 DEF ParseClear, ParseCopy, ParseCopyFails, ParseFails, ParseLoad, ParseMore,
                ParseGone, ParseAnswer, DemoFails, rows
  <2> QED
    BY <2>1, <2>2
<1>4. \A g \in Handlers \ {h} : job'[g] = job[g]
  BY DEF TypeOK, ParseClear, ParseCopy, ParseCopyFails, ParseFails, ParseLoad, ParseMore,
         ParseSave, ParseFailed, ParseGone, ParseAnswer, DemoFails, Take, Goto, Done
<1>5. job'[h].at # "row" /\ (Holds(h)' => job'[h].id = job[h].id)
  <2>1. CASE ParseGone(h) \/ DemoFails(h)
    BY <2>1 DEF ParseGone, DemoFails, Done, Idle, TypeOK, Holds, IsParsing
  <2>2. CASE ParseAnswer(h)
    <3>1. job[h].then \in {Idle} \cup Batch \cup DemoJob
      BY <1>1 DEF Parse
    <3>2. job'[h].at \in {"idle", "limit", "write", "demo"}
      BY <2>2, <3>1 DEF ParseAnswer, Take, Idle, Batch, DemoJob, TypeOK
    <3> QED
      BY <3>2 DEF Holds, IsParsing
  <2>3. CASE ParseClear(h) \/ ParseCopyFails(h) \/ ParseFails(h)
    <3>1. PICK l \in {"load", "copy", "fail"} : Goto(h, l)
      BY <2>3 DEF ParseClear, ParseCopyFails, ParseFails
    <3> QED
      BY <1>1, <3>1 DEF Goto, Parse, TypeOK
  <2>4. CASE ParseCopy(h) \/ ParseSave(h) \/ ParseFailed(h)
    <3>1. PICK l \in {"load", "answer"}, d \in BOOLEAN :
             Take(h, [job[h] EXCEPT !.at = l, !.dir = d])
      BY <2>4 DEF ParseCopy, ParseSave, ParseFailed
    <3> QED
      BY <1>1, <3>1 DEF Take, Parse, TypeOK
  <2>5. ASSUME NEW n \in {0, 1}, ParseLoad(h, n) \/ ParseMore(h, n)
        PROVE job'[h].at \in {"more", "save"} /\ job'[h].id = job[h].id
    <3> DEFINE l == IF job[h].kind = "history" /\ ~IsDemo(h) THEN "more" ELSE "save"
    <3>1. l \in {"more", "save"}
      OBVIOUS
    <3>2. CASE ParseLoad(h, n)
      <4>1. job'[h] = [job[h] EXCEPT !.got = n, !.at = l]
        BY <3>2 DEF ParseLoad, Take, TypeOK
      <4> HIDE DEF l
      <4> QED
        BY <1>1, <3>1, <4>1 DEF Parse
    <3>3. CASE ParseMore(h, n)
      BY <1>1, <3>3 DEF ParseMore, Take, Parse, TypeOK
    <3> QED
      BY <2>5, <3>2, <3>3
  <2>6. CASE \E n \in {0, 1} : ParseLoad(h, n) \/ ParseMore(h, n)
    <3>1. job'[h].at # "row" /\ job'[h].id = job[h].id
      BY <2>5, <2>6
    <3> QED
      BY <3>1
  <2> QED
    BY <2>1, <2>2, <2>3, <2>4, <2>6
<1> QED
  BY <1>1, <1>2, <1>3, <1>4, <1>5 DEF Effects

\* A request that begins takes hold of an item that is there, or of nothing; a
\* deletion takes the file, then the row.
LEMMA OtherEffects ==
  ASSUME TypeOK, NEW h \in Handlers,
         Request(h) \/ RemoveFile(h) \/ RemoveRow(h) \/ Abort(h)
  PROVE  Effects(h)
<1> USE DEF TypeOK, Holds, IsParsing, history
<1>1. ASSUME NEW c \in CaseIds, IngestBegin(h, c) \/ DemoBegin(h, c) PROVE Effects(h)
  BY <1>1 DEF IngestBegin, DemoBegin, Effects, history, Take, rows, disk
<1>2. ASSUME NEW i \in Ids, ReparseBegin(h, i) \/ RemoveBegin(h, i) PROVE Effects(h)
  BY <1>2 DEF ReparseBegin, RemoveBegin, ParseJob, Effects, history, Take, rows, disk
<1>3. CASE RemoveFile(h)
  <2>1. job[h] \in Remove /\ job'[h] = [job[h] EXCEPT !.at = "erase"]
    BY <1>3, JobShape DEF RemoveFile, Goto
  <2>2. job'[h].at = "erase" /\ job'[h].id = job[h].id
    BY <2>1 DEF Remove
  <2> QED
    BY <1>3, <2>2 DEF RemoveFile, Goto, Effects, history, rows
<1>4. CASE RemoveRow(h)
  BY <1>4 DEF RemoveRow, Forget, Effects, Done, Idle, disk
<1>5. CASE Abort(h)
  BY <1>5 DEF Abort, Effects, history, Done, Idle, rows
<1> QED
  BY <1>1, <1>2, <1>3, <1>4, <1>5 DEF Request

LEMMA ThreadEffects ==
  ASSUME TypeOK, NEW h \in Handlers, Request(h) \/ Continue(h) \/ Abort(h)
  PROVE  Effects(h)
  BY IngestEffects, ParseEffects, OtherEffects DEF Continue

-----------------------------------------------------------------------------
(* Rows and their parents *)

LEMMA LinkStep == TypeOK /\ RowsAreLinked /\ [Next]_vars => RowsAreLinked'
<1> SUFFICES ASSUME TypeOK, RowsAreLinked, [Next]_vars PROVE RowsAreLinked'
  OBVIOUS
<1> USE DEF RowsAreLinked
<1>1. ASSUME NEW h \in Handlers, Request(h) \/ Abort(h) PROVE RowsAreLinked'
  BY <1>1 DEF Request, IngestBegin, DemoBegin, ReparseBegin, RemoveBegin, Abort, rows
<1>2. ASSUME NEW h \in Handlers, Continue(h) PROVE RowsAreLinked'
  <2>1. ASSUME NEW k \in Kinds, IngestRow(h, k) PROVE RowsAreLinked'
    <3>1. job[h].id \in Ids /\ job[h].case \in CaseIds
      BY <2>1, JobShape DEF IngestRow, Stored
    <3> QED
      BY <2>1, <3>1, NewRow DEF IngestRow, TypeOK
  <2>2. ASSUME NEW i \in Ids, NEW k \in Kinds, DemoItem(h, i, k) PROVE RowsAreLinked'
    <3>1. job[h].case \in CaseIds
      BY <2>2, JobShape DEF DemoItem, DemoJob
    <3> QED
      BY <2>2, <3>1, NewRow DEF DemoItem, TypeOK
  <2>3. CASE ParseClear(h)
    BY <2>3 DEF ParseClear, TypeOK
  <2>4. ASSUME NEW n \in {0, 1}, ParseLoad(h, n) \/ ParseMore(h, n) PROVE RowsAreLinked'
    <3>1. \A i \in Ids : entries'[i] # entries[i] => item[i] # None
      BY <2>4 DEF ParseLoad, ParseMore, TypeOK
    <3> QED
      BY <2>4, <3>1 DEF ParseLoad, ParseMore
  <2>5. CASE ParseSave(h) \/ ParseFailed(h)
    <3>1. job[h].id \in Ids /\ item[job[h].id] \in ItemRow
      BY <2>5, JobShape, RowChanges DEF ParseSave, ParseFailed, IsParsing, Holds
    <3>2. \A i \in Ids : /\ item'[i] = None <=> item[i] = None
                         /\ item'[i] # None => item'[i].case = item[i].case
      BY <2>5, <3>1, EvidenceAssumption DEF ParseSave, ParseFailed, TypeOK, ItemRow
    <3> QED
      BY <2>5, <3>2 DEF ParseSave, ParseFailed
  <2>6. CASE RemoveRow(h)
    BY <2>6 DEF RemoveRow, TypeOK
  <2>7. CASE UNCHANGED rows
    BY <2>7 DEF rows
  <2> QED
    BY <1>2, <2>1, <2>2, <2>3, <2>4, <2>5, <2>6, <2>7
    DEF Continue, IngestEnd, IngestCount, IngestUnreadable, IngestRejected, IngestOrphaned,
        DemoEnd, IngestWrite, ParseCopy, ParseCopyFails, ParseFails, ParseGone, ParseAnswer,
        DemoFails, RemoveFile, rows
<1>3. ASSUME NEW l \in Limits, SwitchPlan(l) PROVE RowsAreLinked'
  BY <1>3 DEF SwitchPlan, rows
<1>4. ASSUME NEW c \in CaseIds, OpenCase(c) \/ DeleteCase(c) PROVE RowsAreLinked'
  BY <1>4 DEF OpenCase, DeleteCase, ItemsOf, TypeOK
<1>5. CASE UNCHANGED vars
  BY <1>5 DEF vars, rows
<1> QED
  BY <1>1, <1>2, <1>3, <1>4, <1>5 DEF Next

\* No parsed row without its item, no item without its case (the foreign keys
\* of evidence/models.py), whatever is deleted under the parser.
THEOREM RowsLinked == Spec => []RowsAreLinked
<1>1. Init => RowsAreLinked
  BY DEF Init, RowsAreLinked
<1> QED
  BY <1>1, TypeInit, TypeStep, LinkStep, PTL DEF Spec

-----------------------------------------------------------------------------
(* Files and their rows *)

LEMMA ApartStep ==
  TypeOK /\ StoredFilesAreApart /\ [Next]_vars => StoredFilesAreApart'
<1> SUFFICES ASSUME TypeOK, StoredFilesAreApart, [Next]_vars PROVE StoredFilesAreApart'
  OBVIOUS
<1>1. ASSUME NEW h \in Handlers, Request(h) \/ Continue(h) \/ Abort(h)
      PROVE  StoredFilesAreApart'
  <2>1. Effects(h)
    BY <1>1, ThreadEffects
  <2> SUFFICES ASSUME NEW r \in Handlers, job'[r].at = "row"
               PROVE  /\ job'[r].id \in files'
                      /\ item'[job'[r].id] = None
                      /\ \A g \in Handlers \ {r} : Holds(g)' => job'[g].id # job'[r].id
    BY DEF StoredFilesAreApart
  <2>2. CASE r = h
    BY <2>1, <2>2 DEF Effects, FreshItem, Holds, IsParsing
  <2>3. CASE r # h
    <3> DEFINE i == job[r].id
    <3>1. job'[r] = job[r]
      BY <2>1, <2>3 DEF Effects
    <3>2. /\ i \in files /\ i \in Ids /\ item[i] = None
          /\ Holds(h) => job[h].id # i
          /\ Holds(r)
      BY <2>3, <3>1, JobShape DEF StoredFilesAreApart, Holds
    <3>3. i \in files' /\ item'[i] = None
      BY <2>1, <3>2 DEF Effects, FreshItem, Holds
    <3>4. ASSUME NEW g \in Handlers \ {r}, Holds(g)' PROVE job'[g].id # i
      <4>1. CASE g = h
        BY <2>1, <3>2, <3>4, <4>1 DEF Effects, FreshItem
      <4>2. CASE g # h
        BY <2>1, <3>1, <3>4, <4>2 DEF Effects, StoredFilesAreApart, Holds, IsParsing
      <4> QED
        BY <4>1, <4>2
    <3> QED
      BY <3>1, <3>3, <3>4
  <2> QED
    BY <2>2, <2>3
<1>2. CASE /\ UNCHANGED <<job, files>>
           /\ \A i \in Ids : item[i] = None => item'[i] = None
  BY <1>2, JobShape DEF StoredFilesAreApart, Holds, IsParsing
<1> QED
  BY <1>1, <1>2 DEF Next, SwitchPlan, OpenCase, DeleteCase, vars, rows, disk, TypeOK

LEMMA BytesStep ==
  TypeOK /\ StoredFilesAreApart /\ BytesAreKept /\ [Next]_vars => BytesAreKept'
<1> DEFINE Kept(i) == \/ i \in files \cup bereft
                      \/ \E e \in Handlers : job[e].at = "erase" /\ job[e].id = i
<1> SUFFICES ASSUME TypeOK, StoredFilesAreApart, BytesAreKept, [Next]_vars,
                    NEW i \in Ids, item'[i] # None, item'[i].file
             PROVE  Kept(i)'
  BY DEF BytesAreKept
<1>1. ASSUME NEW h \in Handlers, Request(h) \/ Continue(h) \/ Abort(h) PROVE Kept(i)'
  <2>1. Effects(h)
    BY <1>1, ThreadEffects
  <2>2. CASE job[h].at = "row" /\ job[h].id = i /\ UNCHANGED files
    BY <2>2 DEF StoredFilesAreApart
  <2>3. CASE item[i] # None /\ item[i].file /\ i \in files
    BY <2>1, <2>3 DEF Effects, StoredFilesAreApart
  <2>4. ASSUME item[i] # None, NEW e \in Handlers, job[e].at = "erase", job[e].id = i
        PROVE  Kept(i)'
    <3>1. CASE e = h
      <4>1. ~Request(h)
        <5>1. job[h] # Idle
          BY <2>4, <3>1 DEF Idle
        <5> QED
          BY <5>1 DEF Request, IngestBegin, DemoBegin, ReparseBegin, RemoveBegin
      <4>2. Continue(h) => RemoveRow(h)
        BY <2>4, <3>1
        DEF Continue, IngestEnd, IngestCount, IngestUnreadable, IngestRejected, IngestOrphaned,
            DemoEnd, IngestWrite, IngestRow, DemoItem, ParseClear, ParseCopy, ParseCopyFails,
            ParseLoad, ParseMore, ParseFails, DemoFails, ParseSave, ParseFailed, ParseGone,
            ParseAnswer, RemoveFile
      <4>3. ~RemoveRow(h)
        BY <2>4, <3>1 DEF RemoveRow, TypeOK
      <4>4. Abort(h) => i \in bereft'
        BY <2>4, <3>1 DEF Abort
      <4> QED
        BY <1>1, <4>1, <4>2, <4>3, <4>4
    <3>2. CASE e # h
      BY <2>1, <2>4, <3>2 DEF Effects
    <3> QED
      BY <3>1, <3>2
  <2>5. CASE i \in bereft
    BY <2>1, <2>5 DEF Effects
  <2> QED
    BY <2>1, <2>2, <2>3, <2>4, <2>5 DEF Effects, BytesAreKept
<1>2. CASE UNCHANGED <<job, files>> /\ item'[i] = item[i] /\ (i \in bereft => i \in bereft')
  BY <1>2 DEF BytesAreKept
<1> QED
  BY <1>1, <1>2
  DEF Next, SwitchPlan, OpenCase, DeleteCase, Forget, vars, rows, disk, history, TypeOK

\* Between the writing of a file and its row nobody else comes near it.
THEOREM StoredApart == Spec => []StoredFilesAreApart
<1>1. Init => StoredFilesAreApart
  BY DEF Init, StoredFilesAreApart, Idle
<1> QED
  BY <1>1, TypeInit, TypeStep, ApartStep, PTL DEF Spec

\* The bytes of a listed item are in the store but for a deletion under way, or
\* one that died between its two statements: nothing else takes them, with any
\* number of threads dying anywhere (EvidenceDetailAPI.delete,
\* _ingest_evidence_file).
THEOREM BytesKept == Spec => []BytesAreKept
<1>1. Init => StoredFilesAreApart /\ BytesAreKept
  BY DEF Init, StoredFilesAreApart, BytesAreKept, Idle
<1> QED
  BY <1>1, TypeInit, TypeStep, ApartStep, BytesStep, PTL DEF Spec

=============================================================================
