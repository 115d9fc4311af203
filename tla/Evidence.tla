------------------------------ MODULE Evidence ------------------------------
(* The evidence app for one organization: the files in evidence_store, the   *)
(* EvidenceItem rows, the rows parsed out of them, and the handlers that     *)
(* ingest, parse, re-parse and delete items or whole cases.                  *)
(*                                                                           *)
(* Files and rows are written by separate statements and nothing undoes one  *)
(* when another fails, so every statement is an action of its own, and a     *)
(* request may die before any of them.  The database enforces its foreign    *)
(* keys: an insert for a row that is gone raises, and save(update_fields) of *)
(* such a row raises too.  The checks of role and Free plan before a request *)
(* begins only refuse it (Cases models the latter); log_action never raises. *)
EXTENDS Integers, FiniteSets

CONSTANTS
  Ids,         \* keys of items; item i is stored in file i (bounds them)
  CaseIds,     \* keys of cases
  Handlers,    \* server threads
  Kinds,       \* evidence types, as far as parse_evidence treats them apart
  Limits,      \* what max_evidence_per_case of the organization's plan may be
  Ceiling,     \* the highest of them
  DemoSize,    \* items of a demo case
  None,        \* no row
  AbortPoints  \* the statements before which a request may die

\* history: one file, two tables; table: one table; both are read from a safe
\* copy.  direct: read in place (cache archives, Firefox logins).
AllKinds == {"history", "table", "direct", "other"}

ItemRow == [case : CaseIds, kind : Kinds, file : BOOLEAN,
            status : {"uploaded", "parsed", "failed"}, count : 0 .. 2]

ASSUME EvidenceAssumption == /\ Kinds \subseteq AllKinds
                             /\ Limits \subseteq Nat
                             /\ Ceiling \in Nat
                             /\ DemoSize \in Nat
                             /\ None \notin ItemRow
                             /\ IsFiniteSet(Ids)
                             /\ IsFiniteSet(Handlers)

VARIABLES
  limit,    \* max_evidence_per_case of the organization's plan
  cases,    \* the cases there are
  files,    \* the files in the store
  item,     \* [id -> EvidenceItem row, or None]
  entries,  \* [id -> how many tables' worth of parsed rows it has]
  litter,   \* are there work directories nobody will remove
  job,      \* [handler -> the request it is serving]
  bereft,   \* history: items whose deletion ended after the file, before the row
  crossed,  \* history: items that two requests parsed at once, until parsed alone
  cut       \* history: items whose parse was cut off, until they are parsed anew

rows    == <<cases, item, entries>>
disk    == <<files, litter>>
history == <<bereft, crossed, cut>>
vars    == <<limit, rows, disk, job, history>>

-----------------------------------------------------------------------------
(* State *)

Idle == [at |-> "idle"]

\* An upload or a scan between two files; limit is of the plan it started with.
Batch == [at : {"limit", "write"}, case : CaseIds, limit : Limits]

\* A batch whose current file is stored and has no row yet.
Stored == [at : {"row"}, case : CaseIds, limit : Limits, id : Ids]

\* A demo case with some of its items still to be made.
DemoJob == [at : {"demo"}, case : CaseIds, left : 0 .. DemoSize]

\* parse_evidence and load_demo_data: got is the number of tables filled so
\* far, dir says if there is a work directory, then is what follows.
Parse == [at : {"clear", "copy", "load", "more", "save", "fail", "answer"},
          id : Ids, kind : Kinds, file : BOOLEAN, got : 0 .. 2, dir : BOOLEAN,
          then : {Idle} \cup Batch \cup DemoJob]

Remove == [at : {"unlink", "erase"}, id : Ids, file : BOOLEAN]

Jobs == {Idle} \cup Batch \cup Stored \cup DemoJob \cup Parse \cup Remove

TypeOK == /\ limit \in Limits
          /\ cases \subseteq CaseIds
          /\ files \subseteq Ids
          /\ item \in [Ids -> ItemRow \cup {None}]
          /\ entries \in [Ids -> Nat]
          /\ litter \in BOOLEAN
          /\ job \in [Handlers -> Jobs]
          /\ \A h \in Handlers : job[h].at = "more" => job[h].got <= 1
          /\ (bereft \cup crossed) \cup cut \subseteq Ids

Init == /\ limit \in Limits
        /\ cases = {}
        /\ files = {}
        /\ item = [i \in Ids |-> None]
        /\ entries = [i \in Ids |-> 0]
        /\ litter = FALSE
        /\ job = [h \in Handlers |-> Idle]
        /\ bereft = {}
        /\ crossed = {}
        /\ cut = {}

Take(h, j) == job' = [job EXCEPT ![h] = j]
Goto(h, l) == job' = [job EXCEPT ![h].at = l]
Done(h)    == job' = [job EXCEPT ![h] = Idle]

\* (mutant) the limit check lets one file too many through
AllowedAtLimit(max, used) == max = 0 \/ used <= max

\* evidence_limit_status(...)["allowed"]; zero is unlimited.
Allowed(max, used) == max = 0 \/ used < max

ItemsOf(c) == {i \in Ids : item[i] # None /\ item[i].case = c}

NewItem(c, k, f) == [case |-> c, kind |-> k, file |-> f, status |-> "uploaded", count |-> 0]

\* The job of a thread that starts to parse item i, and what it does then.
ParseJob(i, row, then) == [at |-> "clear", id |-> i, kind |-> row.kind, file |-> row.file,
                           got |-> 0, dir |-> FALSE, then |-> then]

IsParsing(h) == job[h].at \in {"clear", "copy", "load", "more", "save", "fail", "answer"}
IsDemo(h)    == job[h].then.at = "demo"

\* The threads that are parsing item i and have not saved what came of it.
Workers(i) == {h \in Handlers : /\ job[h].at \in {"clear", "copy", "load", "more", "save", "fail"}
                               /\ job[h].id = i}

\* The history of items that are gone is not kept.
Forget(gone) == /\ bereft'  = bereft \ gone
                /\ crossed' = crossed \ gone
                /\ cut'     = cut \ gone

\* The parse a thread is at is cut off before it has saved a status.
CutOff(h) == cut' = cut \cup {i \in Ids : h \in Workers(i) /\ item[i] # None}

\* The thread holds the key of an item.
Holds(h) == job[h].at \in {"row", "unlink", "erase"} \/ IsParsing(h)

\* (mutant) a name is taken again when its file is gone
NameIsFree(i) == i \notin files

\* Keys and file names that nothing refers to any more (bounds their number;
\* a file that was left behind keeps its name taken).
FreshItem(i) == /\ item[i] = None
                /\ i \notin files
                /\ \A h \in Handlers : Holds(h) => job[h].id # i
FreshCase(c) == /\ c \notin cases
                /\ \A h \in Handlers :
                     /\ job[h].at \in {"limit", "write", "row", "demo"} => job[h].case # c
                     /\ (IsParsing(h) /\ job[h].then # Idle) => job[h].then.case # c

-----------------------------------------------------------------------------
(* The other apps *)

\* The billing app: another plan, or another limit for it.
SwitchPlan(l) == /\ limit' = l
                 /\ UNCHANGED <<rows, disk, job, history>>

\* CaseListCreateAPI.post.
OpenCase(c) == /\ FreshCase(c)
               /\ cases' = cases \cup {c}
               /\ UNCHANGED <<limit, item, entries, disk, job, history>>

\* (mutant) the parsed rows do not cascade
DeleteCaseKeepsEntries(c) ==
  /\ c \in cases
  /\ cases' = cases \ {c}
  /\ item' = [i \in Ids |-> IF i \in ItemsOf(c) THEN None ELSE item[i]]
  /\ UNCHANGED <<limit, entries, disk, job, history>>

\* CaseDetailAPI.delete: the rows cascade, the files stay.
DeleteCase(c) ==
  /\ c \in cases
  /\ cases' = cases \ {c}
  /\ item' = [i \in Ids |-> IF i \in ItemsOf(c) THEN None ELSE item[i]]
  /\ entries' = [i \in Ids |-> IF i \in ItemsOf(c) THEN 0 ELSE entries[i]]
  /\ Forget(ItemsOf(c))
  /\ UNCHANGED <<limit, disk, job>>

-----------------------------------------------------------------------------
(* EvidenceUploadAPI.post and LocalScanAPI.post: a loop over files, each     *)
(* going through _ingest_evidence_file                                       *)

\* The case is loaded and the plan read, once for the whole batch.
IngestBegin(h, c) ==
  /\ job[h] = Idle
  /\ c \in cases
  /\ Take(h, [at |-> "limit", case |-> c, limit |-> limit])
  /\ UNCHANGED <<limit, rows, disk, history>>

\* No further file.
IngestEnd(h) ==
  /\ job[h].at = "limit"
  /\ Done(h)
  /\ UNCHANGED <<limit, rows, disk, history>>

\* evidence_limit_status counts the items; at the limit the batch stops.
IngestCount(h) ==
  /\ job[h].at = "limit"
  /\ IF Allowed(job[h].limit, Cardinality(ItemsOf(job[h].case)))
       THEN Goto(h, "write") ELSE Done(h)
  /\ UNCHANGED <<limit, rows, disk, history>>

\* The bytes are copied to a new name in the store.
IngestWrite(h, i) ==
  /\ job[h].at = "write"
  /\ FreshItem(i)
  /\ files' = files \cup {i}
  /\ Take(h, [at |-> "row", case |-> job[h].case, limit |-> job[h].limit, id |-> i])
  /\ UNCHANGED <<limit, rows, litter, history>>

\* The source cannot be read: the partial file is removed, the batch goes on.
IngestUnreadable(h) ==
  /\ job[h].at = "write"
  /\ Goto(h, "limit")
  /\ UNCHANGED <<limit, rows, disk, history>>

\* The batch after the file it is at.
Rest(h) == [at |-> "limit", case |-> job[h].case, limit |-> job[h].limit]

\* The form does not accept the file for its type: it is removed again.
IngestRejected(h) ==
  /\ job[h].at = "row"
  /\ files' = files \ {job[h].id}
  /\ Take(h, Rest(h))
  /\ UNCHANGED <<limit, rows, litter, history>>

\* EvidenceItem.objects.create; an item of no known type is not parsed.
IngestRow(h, k) ==
  /\ job[h].at = "row"
  /\ job[h].case \in cases
  /\ LET row == NewItem(job[h].case, k, TRUE)
     IN  /\ item' = [item EXCEPT ![job[h].id] = row]
         /\ Take(h, IF k = "other" THEN Rest(h) ELSE ParseJob(job[h].id, row, Rest(h)))
  /\ UNCHANGED <<limit, cases, entries, disk, history>>

\* The case is gone: the insert raises and the request ends.
IngestOrphaned(h) ==
  /\ job[h].at = "row"
  /\ job[h].case \notin cases
  /\ Done(h)
  /\ UNCHANGED <<limit, rows, disk, history>>

-----------------------------------------------------------------------------
(* DemoCaseAPI.post: a case, then its items one by one, without files *)

DemoBegin(h, c) ==
  /\ job[h] = Idle
  /\ FreshCase(c)
  /\ cases' = cases \cup {c}
  /\ Take(h, [at |-> "demo", case |-> c, left |-> DemoSize])
  /\ UNCHANGED <<limit, item, entries, disk, history>>

DemoItem(h, i, k) ==
  /\ job[h].at = "demo"
  /\ job[h].left > 0
  /\ job[h].case \in cases
  /\ FreshItem(i)
  /\ k # "other"
  /\ LET row == NewItem(job[h].case, k, FALSE)
     IN  /\ item' = [item EXCEPT ![i] = row]
         /\ Take(h, ParseJob(i, row, [job[h] EXCEPT !.left = @ - 1]))
  /\ UNCHANGED <<limit, cases, entries, disk, history>>

\* All items are made, or the case is gone and the insert raises.
DemoEnd(h) ==
  /\ job[h].at = "demo"
  /\ job[h].left = 0 \/ job[h].case \notin cases
  /\ Done(h)
  /\ UNCHANGED <<limit, rows, disk, history>>

-----------------------------------------------------------------------------
(* parse_evidence, and load_demo_data where it differs *)

\* EvidenceReparseAPI.post, which works for every item.
ReparseBegin(h, i) ==
  /\ job[h] = Idle
  /\ item[i] # None
  /\ Take(h, ParseJob(i, item[i], Idle))
  /\ crossed' = IF Workers(i) = {} THEN crossed ELSE crossed \cup {i}
  /\ UNCHANGED <<limit, rows, disk, bereft, cut>>

\* (mutant) a re-parse adds to the rows of the previous parse
ParseKeepsOld(h) ==
  /\ job[h].at = "clear"
  /\ Goto(h, IF IsDemo(h) \/ job[h].kind = "direct" THEN "load" ELSE "copy")
  /\ UNCHANGED <<limit, rows, disk, history>>

\* _clear_existing (its five statements taken as one).  A thread that clears
\* alone starts the item anew.
ParseClear(h) ==
  /\ job[h].at = "clear"
  /\ entries' = [entries EXCEPT ![job[h].id] = 0]
  /\ Goto(h, IF IsDemo(h) \/ job[h].kind = "direct" THEN "load" ELSE "copy")
  /\ LET anew == IF Workers(job[h].id) = {h} THEN {job[h].id} ELSE {}
     IN  crossed' = crossed \ anew /\ cut' = cut \ anew
  /\ UNCHANGED <<limit, cases, item, disk, bereft>>

\* safe_copy_db: a new work directory and a copy of the file in it.
ParseCopy(h) ==
  /\ job[h].at = "copy"
  /\ job[h].file /\ job[h].id \in files
  /\ Take(h, [job[h] EXCEPT !.at = "load", !.dir = TRUE])
  /\ UNCHANGED <<limit, rows, disk, history>>

\* The copy raises, always if there is no file: the directory was made, but
\* safe_copy_db has not returned it and nobody removes it.
ParseCopyFails(h) ==
  /\ job[h].at = "copy"
  /\ litter' = TRUE
  /\ Goto(h, "fail")
  /\ UNCHANGED <<limit, rows, files, history>>

\* There is something to read.  A Firefox logins file that is gone counts as
\* empty; a cache archive that is gone raises (ParseFails).
Readable(h) == job[h].dir \/ (job[h].file /\ job[h].id \in files)

\* The rows of the (first) table are parsed and inserted in one transaction.
ParseLoad(h, n) ==
  /\ job[h].at = "load"
  /\ job[h].kind # "other"
  /\ IF IsDemo(h) THEN n = 1 ELSE n = 1 => Readable(h)
  /\ n = 1 => item[job[h].id] # None
  /\ entries' = [entries EXCEPT ![job[h].id] = @ + n]
  /\ Take(h, [job[h] EXCEPT !.got = n,
                            !.at = IF job[h].kind = "history" /\ ~IsDemo(h) THEN "more" ELSE "save"])
  /\ UNCHANGED <<limit, cases, item, disk, history>>

\* (mutant) the history rows are counted again with the downloads
MoreCountsTwice(h, n) ==
  /\ job[h].at = "more"
  /\ n = 1 => item[job[h].id] # None
  /\ entries' = [entries EXCEPT ![job[h].id] = @ + n]
  /\ Take(h, [job[h] EXCEPT !.got = @ + @ + n, !.at = "save"])
  /\ UNCHANGED <<limit, cases, item, disk, history>>

\* (mutant) the downloads are stored and not counted
MoreIsNotCounted(h, n) ==
  /\ job[h].at = "more"
  /\ n = 1 => item[job[h].id] # None
  /\ entries' = [entries EXCEPT ![job[h].id] = @ + n]
  /\ Goto(h, "save")
  /\ UNCHANGED <<limit, cases, item, disk, history>>

\* The downloads table of a Chromium History file, if it has one.
ParseMore(h, n) ==
  /\ job[h].at = "more"
  /\ n = 1 => item[job[h].id] # None
  /\ entries' = [entries EXCEPT ![job[h].id] = @ + n]
  /\ Take(h, [job[h] EXCEPT !.got = @ + n, !.at = "save"])
  /\ UNCHANGED <<limit, cases, item, disk, history>>

\* A statement of parse_evidence raises: the parser, the database, or because
\* there is no parser or no row.
ParseFails(h) ==
  /\ job[h].at \in {"clear", "load", "more", "save"}
  /\ ~IsDemo(h)
  /\ Goto(h, "fail")
  /\ UNCHANGED <<limit, rows, disk, history>>

\* A statement of load_demo_data raises, always if there is no row: nobody
\* handles it, and the request ends with the items it has made.
DemoFails(h) ==
  /\ job[h].at \in {"clear", "load", "save"}
  /\ IsDemo(h)
  /\ CutOff(h)
  /\ Done(h)
  /\ UNCHANGED <<limit, rows, disk, bereft, crossed>>

\* The row is saved and the work directory removed.
ParseSave(h) ==
  /\ job[h].at = "save"
  /\ item[job[h].id] # None
  /\ item' = [item EXCEPT ![job[h].id].status = "parsed", ![job[h].id].count = job[h].got]
  /\ Take(h, [job[h] EXCEPT !.at = "answer", !.dir = FALSE])
  /\ UNCHANGED <<limit, cases, entries, disk, history>>

\* (mutant) a file that cannot be parsed is thrown away
ParseFailedUnlinks(h) ==
  /\ job[h].at = "fail"
  /\ item[job[h].id] # None
  /\ item' = [item EXCEPT ![job[h].id].status = "failed"]
  /\ files' = files \ {job[h].id}
  /\ Take(h, [job[h] EXCEPT !.at = "answer", !.dir = FALSE])
  /\ UNCHANGED <<limit, cases, entries, litter, history>>

\* (mutant) the exception is reported to the caller and not saved
ParseFailedUnsaved(h) ==
  /\ job[h].at = "fail"
  /\ Take(h, [job[h] EXCEPT !.at = "answer", !.dir = FALSE])
  /\ UNCHANGED <<limit, rows, disk, history>>

\* The failure is saved; count stays what it was.
ParseFailed(h) ==
  /\ job[h].at = "fail"
  /\ item[job[h].id] # None
  /\ item' = [item EXCEPT ![job[h].id].status = "failed"]
  /\ Take(h, [job[h] EXCEPT !.at = "answer", !.dir = FALSE])
  /\ UNCHANGED <<limit, cases, entries, disk, history>>

\* The item is gone: the save raises out of parse_evidence and ends the request.
ParseGone(h) ==
  /\ job[h].at = "fail"
  /\ item[job[h].id] = None
  /\ Done(h)
  /\ UNCHANGED <<limit, rows, disk, history>>

\* refresh_from_db raises if the item is gone; a batch or a demo case goes on.
ParseAnswer(h) ==
  /\ job[h].at = "answer"
  /\ Take(h, IF item[job[h].id] = None /\ ~IsDemo(h) THEN Idle ELSE job[h].then)
  /\ UNCHANGED <<limit, rows, disk, history>>

-----------------------------------------------------------------------------
(* EvidenceDetailAPI.delete *)

RemoveBegin(h, i) ==
  /\ job[h] = Idle
  /\ item[i] # None
  /\ Take(h, [at |-> "unlink", id |-> i, file |-> item[i].file])
  /\ UNCHANGED <<limit, rows, disk, history>>

\* unlink; that it fails is ignored.
RemoveFile(h) ==
  /\ job[h].at = "unlink"
  /\ files' \in {files, IF job[h].file THEN files \ {job[h].id} ELSE files}
  /\ Goto(h, "erase")
  /\ UNCHANGED <<limit, rows, litter, history>>

RemoveRow(h) ==
  /\ job[h].at = "erase"
  /\ item' = [item EXCEPT ![job[h].id] = None]
  /\ entries' = [entries EXCEPT ![job[h].id] = 0]
  /\ Forget({job[h].id})
  /\ Done(h)
  /\ UNCHANGED <<limit, cases, disk>>

\* The process dies: what was written stays, a work directory too.
Abort(h) ==
  /\ job[h].at \in AbortPoints
  /\ litter' = (litter \/ (IsParsing(h) /\ job[h].dir))
  /\ bereft' = bereft \cup {i \in Ids : job[h].at = "erase" /\ job[h].id = i /\ item[i] # None}
  /\ CutOff(h)
  /\ Done(h)
  /\ UNCHANGED <<limit, rows, files, crossed>>

-----------------------------------------------------------------------------
Request(h) == \/ \E c \in CaseIds : IngestBegin(h, c) \/ DemoBegin(h, c)
              \/ \E i \in Ids : ReparseBegin(h, i) \/ RemoveBegin(h, i)

\* The next statement of the request a thread is serving.
Continue(h) ==
  \/ IngestEnd(h) \/ IngestCount(h) \/ IngestUnreadable(h) \/ IngestRejected(h)
  \/ IngestOrphaned(h) \/ DemoEnd(h)
  \/ \E i \in Ids : IngestWrite(h, i)
  \/ \E k \in Kinds : IngestRow(h, k)
  \/ \E i \in Ids, k \in Kinds : DemoItem(h, i, k)
  \/ ParseClear(h) \/ ParseCopy(h) \/ ParseCopyFails(h) \/ ParseFails(h) \/ DemoFails(h)
  \/ \E n \in {0, 1} : ParseLoad(h, n) \/ ParseMore(h, n)
  \/ ParseSave(h) \/ ParseFailed(h) \/ ParseGone(h) \/ ParseAnswer(h)
  \/ RemoveFile(h) \/ RemoveRow(h)

Next == \/ \E l \in Limits : SwitchPlan(l)
        \/ \E c \in CaseIds : OpenCase(c) \/ DeleteCase(c)
        \/ \E h \in Handlers : Request(h) \/ Continue(h) \/ Abort(h)

Spec == Init /\ [][Next]_vars

\* A thread that serves a request reaches its end unless it dies.
FairSpec == Spec /\ \A h \in Handlers : WF_vars(Continue(h))

-----------------------------------------------------------------------------
(* Properties *)

\* No parsed row without its item and no item without its case, although
\* parses and batches go on while items and cases are deleted under them
\* (the foreign keys of evidence/models.py; EvidenceDetailAPI.delete).
RowsAreLinked == \A i \in Ids : /\ entries[i] # 0 => item[i] # None
                                /\ item[i] # None => item[i].case \in cases

\* A stored file has no row until the thread that stored it makes one, and until
\* then no other request can remove, parse or delete anything under its name
\* (the uuid of _ingest_evidence_file, ids that are never used again).
StoredFilesAreApart ==
  \A h \in Handlers : job[h].at = "row" =>
    /\ job[h].id \in files
    /\ item[job[h].id] = None
    /\ \A g \in Handlers \ {h} : Holds(g) => job[g].id # job[h].id

\* The bytes of an item are in the store as long as the item is listed, but
\* for a thread that is just deleting it and for a deletion that died between
\* its two statements: no rejection, failed parse, other crash or other item's
\* deletion removes them (EvidenceDetailAPI.delete unlinks first).
BytesAreKept ==
  \A i \in Ids : item[i] # None /\ item[i].file =>
    \/ i \in files \cup bereft
    \/ \E h \in Handlers : job[h].at = "erase" /\ job[h].id = i

\* Batches that run together pass the limit check before any of them inserts,
\* and keep the limit of the plan they began with; the uploaded files of a case
\* still exceed the limit by less than the number of threads
\* (EvidenceUploadAPI.post).
EvidenceBound ==
  (\A l \in Limits : l # 0 /\ l <= Ceiling) =>
    \A c \in CaseIds :
      Cardinality({i \in ItemsOf(c) : item[i].file}) + 1 <= Ceiling + Cardinality(Handlers)

\* The count shown for a parsed item nobody is parsing is what its tables hold,
\* whatever else is parsed, deleted or failing meanwhile, unless its last parse
\* overlapped another one of the same item or was cut off after it had begun;
\* the next undisturbed parse makes it true again (parse_evidence: row_count).
CountIsTrue ==
  \A i \in Ids \ (crossed \cup cut) :
    item[i] # None /\ item[i].status = "parsed" /\ Workers(i) = {} =>
      item[i].count = entries[i]

\* An item to be parsed is parsed or marked failed in the end, or deleted,
\* whatever is deleted under the parser and whoever else dies, unless its own
\* parse is cut off: nothing would resume it (needs FairSpec).
ParseSettles ==
  \A i \in Ids :
    item[i] # None /\ item[i].status = "uploaded" /\ item[i].kind # "other"
      ~> item[i] = None \/ item[i].status # "uploaded" \/ i \in cut

\* evidence/services.py:58: a parse begins with "Clear any previous parse
\* (re-parse support)", so that a table never holds its rows twice.
NoRowTwice == \A i \in Ids : item[i] # None =>
                entries[i] <= IF item[i].kind = "history" THEN 2 ELSE 1

\* Only parses of one item that overlap can do that: wherever requests die, fail
\* and are repeated, and whatever other threads do, the rows of an item are those
\* of one parse, and a parse that runs alone repairs an item that had them twice.
FilledOnce ==
  \A i \in Ids \ crossed : item[i] # None =>
    entries[i] <= IF item[i].kind = "history" THEN 2 ELSE 1

=============================================================================
