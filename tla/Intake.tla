------------------------------- MODULE Intake -------------------------------
(* How files become evidence of one case: a batch upload, or a scan of the   *)
(* machine the server runs on, with the search for browser profiles, the     *)
(* detection of each file's type, the form that may refuse it, and its       *)
(* parser.  One request at a time (Evidence interleaves several and takes a  *)
(* file for a number); what other programs do to the files is interleaved:   *)
(* a browser goes on writing, and a file may be locked or gone when read.    *)
EXTENDS Artifacts, FiniteSets

CONSTANTS
  Batches,    \* the sets of files that may be uploaded together
  Overrides,  \* the types an upload may be given by hand, or None
  Disk,       \* the browser files that may be on the machine
  Numbered,   \* the folder names that start with "Profile "
  Listed,     \* the folders that profiles.ini of Firefox names
  Mac,        \* does the server run on macOS
  LocalScan,  \* settings.ENABLE_LOCAL_BROWSER_SCAN
  Failing,    \* the searches that may raise, the browsers whose folder may be forbidden
  Plans       \* what the plan of the organization may be

Plan == [readOnly : BOOLEAN, localScan : BOOLEAN, max : Nat]

\* A browser file: the application, the profile folder, and whether it is in
\* the folder's subfolder Network.
BrowserFile == [app : {"Chrome", "Edge", "Brave", "Opera", "Firefox", "Safari"},
                dir : STRING, net : BOOLEAN, file : File]

\* An uploaded file has no place on the machine.
Given(f) == [app |-> None, dir |-> "", net |-> FALSE, file |-> f]

Source == BrowserFile \cup [app : {None}, dir : {""}, net : {FALSE}, file : File]
IsUpload(s) == s.app = None

\* The searches for profiles, and the browsers with a folder per profile.
Searches == {"chromium", "firefox", "safari"}
Foldered == {"Chrome", "Edge", "Brave"}

ASSUME IntakeAssumption == /\ Plans \subseteq Plan
                           /\ Failing \subseteq Searches \cup Foldered
                           /\ Disk \subseteq BrowserFile
                           /\ \A b \in Batches : b \subseteq File
                           /\ Overrides \subseteq Types \cup {None}
                           /\ IsFiniteSet(Disk)
                           /\ \A b \in Batches : IsFiniteSet(b)

VARIABLES
  plan,     \* of the organization
  journal,  \* browser files with committed rows that are only in their -wal
  store,    \* what is in evidence_store: copies, and -wal files beside copies
  items,    \* the EvidenceItem rows
  job,      \* the request being served
  asked,    \* what that request set out to do
  answers   \* what it has answered

request == <<job, asked, answers>>
vars == <<plan, journal, store, items, request>>

-----------------------------------------------------------------------------
(* State *)

Kept(s) == [src |-> s, part |-> "file"]
Wal(s)  == [src |-> s, part |-> "wal"]

\* whole: the bytes held all that the browser had committed when they were read;
\* filled: the artifact tables with rows of the item.
Item == [src : Source, type : Types, auto : BOOLEAN, whole : BOOLEAN,
         status : {"uploaded", "parsed", "failed"},
         filled : SUBSET Tables]

Idle   == [at |-> "idle"]
Loop   == [at : {"next"}, todo : SUBSET Source]
Stored == [at : {"stored"}, todo : SUBSET Source, src : Source, whole : BOOLEAN]
Parse  == [at : {"parse"}, todo : SUBSET Source, item : Item]

\* disk: what was on the machine, if it was scanned; failed: what could not look.
Request == [todo : SUBSET Source, override : Overrides \cup {None}, disk : SUBSET Disk,
            failed : SUBSET Failing]

\* A file that cannot be copied is answered "rejected" too, with another detail.
Statuses == {"created", "rejected", "unreadable", "blocked"}

TypeOK == /\ plan \in Plans
          /\ journal \subseteq {p \in Disk : p.file.journal}
          /\ store \subseteq [src : Source, part : {"file", "wal"}]
          /\ items \subseteq Item
          /\ \/ job = Idle
             \/ job.at = "next"   /\ job \in Loop
             \/ job.at = "stored" /\ job \in Stored
             \/ job.at = "parse"  /\ job \in Parse
          /\ asked \in Request
          /\ answers \subseteq [src : Source, status : Statuses]

Init == /\ plan \in Plans
        /\ journal = {}
        /\ store = {}
        /\ items = {}
        /\ job = Idle
        /\ asked = [todo |-> {}, override |-> None, disk |-> {}, failed |-> {}]
        /\ answers = {}

-----------------------------------------------------------------------------
(* The browsers *)

\* A running browser commits rows: to the -wal file, if it uses one.
Commit(p) == /\ p.file.journal
             /\ journal' = journal \cup {p}
             /\ UNCHANGED <<plan, store, items, request>>

\* It moves them to the database itself.
Checkpoint(p) == /\ journal' = journal \ {p}
                 /\ UNCHANGED <<plan, store, items, request>>

-----------------------------------------------------------------------------
(* core/browser_detect.py; d is the set of files on the disk *)

IsChromium(p) == p.app \in {"Chrome", "Edge", "Brave", "Opera"}

\* Opera keeps its files in its root, the others in folders per profile.
InProfile(p) == IF p.app = "Opera" THEN p.dir = "" ELSE p.dir = "Default" \/ p.dir \in Numbered

SameProfile(p, q) == p.app = q.app /\ p.dir = q.dir

\* History, Login Data and Cookies by their Chromium, then their Firefox names.
KindOf(f) == CASE Named(f, "history", "") \/ Named(f, "places", ".sqlite")   -> 1
               [] Named(f, "login data", "") \/ Named(f, "logins", ".json")  -> 2
               [] Named(f, "cookies", "") \/ Named(f, "cookies", ".sqlite")  -> 3
               [] OTHER                                                      -> 0

\* The three files in the profile folder; for Cookies, or else those in Network.
IsCandidate(p, d) ==
  /\ KindOf(p.file) # 0 /\ p.file.ext = ""
  /\ p.net => /\ KindOf(p.file) = 3
              /\ ~\E q \in d : SameProfile(p, q) /\ ~q.net /\ Named(q.file, "cookies", "")

\* (mutant) a folder that may not be listed ends the search
DetectChromiumOrNone(d, failed) ==
  {p \in d : IsChromium(p) /\ InProfile(p) /\ IsCandidate(p, d) /\ failed \cap Foldered = {}}

\* A root that may not be listed has no profiles; Opera's is not listed.
DetectChromiumFamily(d, failed) ==
  {p \in d : IsChromium(p) /\ InProfile(p) /\ IsCandidate(p, d) /\ p.app \notin failed}

DetectFirefox(d) == {p \in d : /\ p.app = "Firefox" /\ p.dir \in Listed /\ ~p.net
                               /\ KindOf(p.file) # 0 /\ p.file.ext # ""}

DetectSafari(d) == {p \in d : /\ Mac /\ p.app = "Safari" /\ p.dir = "" /\ ~p.net
                              /\ Named(p.file, "history", ".db")}

\* A search that raises, as one does that may not look at a file, finds nothing.
DetectAll(d, failed) ==
  UNION {CASE n = "chromium" -> DetectChromiumFamily(d, failed)
           [] n = "firefox"  -> DetectFirefox(d)
           [] n = "safari"   -> DetectSafari(d) : n \in Searches \ failed}

\* The order of the candidates, as far as the code fixes it: by browser, and in
\* a profile by kind (folders come in any order, here also mixed).
Rank(s) == CASE s.app = "Chrome" -> 1 [] s.app = "Edge"    -> 2 [] s.app = "Brave" -> 3
             [] s.app = "Opera"  -> 4 [] s.app = "Firefox" -> 5 [] OTHER           -> 6
Before(r, s) == \/ Rank(r) < Rank(s)
                \/ SameProfile(r, s) /\ ~IsUpload(s) /\ KindOf(r.file) < KindOf(s.file)

-----------------------------------------------------------------------------
(* EvidenceUploadAPI.post and LocalScanAPI.post *)

IsOpen == /\ job = Idle
          /\ ~plan.readOnly
          /\ asked.todo = {}  \* (bounds the requests: one for the case)

Begin(sources, override, disk, failed) ==
  /\ job' = [at |-> "next", todo |-> sources]
  /\ asked' = [todo |-> sources, override |-> override, disk |-> disk, failed |-> failed]
  /\ UNCHANGED <<plan, journal, store, items, answers>>

UploadBegin == /\ IsOpen
               /\ \E b \in Batches \ {{}}, o \in Overrides :
                    Begin({Given(f) : f \in b}, o, {}, {})

\* A folder has one file of a name.
IsMachine(d) == \A p, q \in d : /\ SameProfile(p, q) /\ p.net = q.net
                               /\ Named(p.file, q.file.stem, q.file.ext)
                              => p = q

\* d is what is on the disk at this moment.
ScanBegin == /\ IsOpen /\ LocalScan /\ plan.localScan
             /\ \E d \in SUBSET Disk, failed \in SUBSET Failing :
                  IsMachine(d) /\ Begin(DetectAll(d, failed), None, d, failed)

IsNext(s) == /\ job.at = "next"
             /\ s \in job.todo
             /\ ~\E r \in job.todo : Before(r, s)

\* evidence_limit_status(...)["allowed"].
Allowed == plan.max = 0 \/ Cardinality(items) < plan.max

Answer(s, status) == answers' = answers \cup {[src |-> s, status |-> status]}
Continue(todo)    == job' = [at |-> "next", todo |-> todo]

\* At the limit this file is answered, and the batch ends.
Blocked(s) == /\ IsNext(s) /\ ~Allowed
              /\ Answer(s, "blocked")
              /\ job' = Idle
              /\ UNCHANGED <<plan, journal, store, items, asked>>

\* _write_source_to: the file itself is copied, and nothing beside it.
Copy(s) == /\ IsNext(s) /\ Allowed
           /\ store' = store \cup {Kept(s)}
           /\ job' = [at |-> "stored", todo |-> job.todo \ {s}, src |-> s,
                      whole |-> s \notin journal]
           /\ UNCHANGED <<plan, journal, items, asked, answers>>

\* (mutant) the exception ends the whole scan
UnreadableEnds(s) == /\ IsNext(s) /\ Allowed
                     /\ job' = Idle
                     /\ UNCHANGED <<plan, journal, store, items, asked, answers>>

\* A file on the machine is locked, forbidden, or gone since it was found; or the
\* copy cannot be written.  What was copied of it is removed again.
Unreadable(s) == /\ IsNext(s) /\ Allowed
                 /\ Answer(s, "unreadable")
                 /\ Continue(job.todo \ {s})
                 /\ UNCHANGED <<plan, journal, store, items, asked>>

\* (mutant) a file of no known type is stored without one
TypeOrNone(f) == IF asked.override # None THEN asked.override ELSE Detect(f)

\* The type given by hand, or the detected one, or OTHER.
TypeOf(f) == IF asked.override # None THEN asked.override
             ELSE IF Detect(f) # None THEN Detect(f) ELSE "other"

\* _sqlite_tables opens the stored copy itself, and SQLite leaves a -wal file
\* (and a -shm) beside a database in that mode.
Sniffed(s) == asked.override = None /\ SniffsTables(s.file)
Probed(s)  == IF Sniffed(s) /\ s.file.journal THEN {Wal(s)} ELSE {}

\* The uploaded file in the store is one that the form refuses.
IsRefused == /\ job.at = "stored" /\ IsUpload(job.src)
             /\ ~FormAccepts(TypeOf(job.src.file), job.src.file)

\* (mutant) the refused file stays in the store
RefusedStays == /\ IsRefused
                /\ Answer(job.src, "rejected")
                /\ Continue(job.todo)
                /\ UNCHANGED <<plan, journal, store, items, asked>>

\* It is removed again.
Refused == /\ IsRefused
           /\ store' = (store \cup Probed(job.src)) \ {Kept(job.src)}
           /\ Answer(job.src, "rejected")
           /\ Continue(job.todo)
           /\ UNCHANGED <<plan, journal, items, asked>>

\* EvidenceItem.objects.create; an item of type OTHER is not parsed.
Record ==
  /\ job.at = "stored" /\ ~IsRefused
  /\ LET type == TypeOf(job.src.file)
         item == [src |-> job.src, type |-> type, whole |-> job.whole, status |-> "uploaded",
                  auto |-> asked.override = None /\ type # "other", filled |-> {}]
     IN  /\ items' = items \cup {item}
         /\ IF type = "other" THEN Continue(job.todo)
            ELSE job' = [at |-> "parse", todo |-> job.todo, item |-> item]
  /\ store' = store \cup Probed(job.src)
  /\ Answer(job.src, "created")
  /\ UNCHANGED <<plan, journal, asked>>

\* parse_evidence: the rows and the status of the item.
AfterParse(item) ==
  LET tables == ParsedTables(item.type, item.src.file)
  IN  IF tables = None THEN [item EXCEPT !.status = "failed", !.filled = {}]
      ELSE [item EXCEPT !.status = "parsed", !.filled = tables]

ParseNew == /\ job.at = "parse"
            /\ items' = (items \ {job.item}) \cup {AfterParse(job.item)}
            /\ Continue(job.todo)
            /\ UNCHANGED <<plan, journal, store, asked, answers>>

Finish == /\ job.at = "next" /\ job.todo = {}
          /\ job' = Idle
          /\ UNCHANGED <<plan, journal, store, items, asked, answers>>

\* EvidenceReparseAPI.post.
Reparse(i) == /\ job = Idle
              /\ items' = (items \ {i}) \cup {AfterParse(i)}
              /\ UNCHANGED <<plan, journal, store, request>>

\* EvidenceDetailAPI.delete: what unlink raises is swallowed, and the copy stays.
Delete(i) == /\ job = Idle
             /\ items' = items \ {i}
             /\ store' \in {store, store \ {Kept(i.src)}}
             /\ UNCHANGED <<plan, journal, request>>

\* CaseDetailAPI.delete: the items go with the case, and every copy stays (a case
\* of which nothing was asked is not looked at further).
DeleteCase == /\ job = Idle /\ asked.todo # {}
              /\ items' = {}
              /\ UNCHANGED <<plan, journal, store, request>>

Next == \/ \E p \in Disk : Commit(p) \/ Checkpoint(p)
        \/ UploadBegin \/ ScanBegin
        \/ \E s \in asked.todo : Blocked(s) \/ Copy(s) \/ Unreadable(s)
        \/ Refused \/ Record \/ ParseNew \/ Finish
        \/ \E i \in items : Reparse(i) \/ Delete(i)
        \/ DeleteCase

Spec == Init /\ [][Next]_vars

-----------------------------------------------------------------------------
(* Properties *)

\* A request that has ended said of every file it set out to take what became
\* of it, unless it stopped at the limit and said so: a file that cannot be
\* read or is refused does not end the batch (_ingest_evidence_file).
EveryFileIsAnswered ==
  job = Idle => \/ \A s \in asked.todo : \E a \in answers : a.src = s
                \/ \E a \in answers : a.status = "blocked"

\* A file as a browser writes it, uploaded without a type or found by the scan,
\* is never refused for its name, gets the type of its browser whichever rule
\* decides, and fills the table that browser's files belong to, unless its
\* columns have drifted.  The search, the detection, the form and the parsers
\* name files and tables independently of each other.
NaturalFilesAreRead ==
  \A s \in asked.todo, r \in Natural :
    asked.override = None /\ IsNatural(s.file, r) =>
      /\ IsUpload(s) => [src |-> s, status |-> "rejected"] \notin answers
      /\ \A i \in items : i.src = s =>
           /\ i.type = r.type
           /\ i.status = "failed" => s.file.drift
           /\ i.status = "parsed" => r.kind \in i.filled

\* A type taken from the content is one whose parser finds what it selects: the
\* item fails only over what the detection does not look at, a missing column or
\* logins that are no list of objects, and once parsed its own table has its rows
\* (detect.py:16-18: "rather than mis-filing it under the wrong parser").
ContentIsParsed ==
  \A i \in items : i.auto /\ NameHint(i.src.file) = None =>
    /\ i.status = "failed" => i.src.file.drift
    /\ i.status = "parsed" => ArtifactKind[i.type] \in i.filled

\* An item marked PARSED has rows in the table it is shown in, whatever type it
\* was given, but for two types whose readers take any unreadable file for an
\* empty one: a file is not passed off as evidence of nothing.
ParsedIsRead ==
  \A i \in items : i.status = "parsed" /\ ArtifactKind[i.type] \notin i.filled =>
    \/ i.type = "cache_archive"  /\ i.src.file.form # "zip"
    \/ i.type = "firefox_logins" /\ (i.src.file.form = "json" => "logins" \notin i.src.file.has)

\* Between requests every item has its copy in the store, and a copy without an
\* item was once one's, which was deleted: what was refused or could not be
\* copied leaves nothing, other than what probing a database in WAL mode left.
StoreIsAccountedFor ==
  job = Idle =>
    /\ \A i \in items : Kept(i.src) \in store
    /\ \A e \in store : IF e.part = "file" THEN [src |-> e.src, status |-> "created"] \in answers
                        ELSE e.src.file.journal /\ SniffsTables(e.src.file)

\* The search for p could look at where p is.
CouldLook(p) == CASE p.app = "Firefox" -> "firefox" \notin asked.failed
                  [] p.app = "Safari"  -> "safari" \notin asked.failed
                  [] IsChromium(p)     -> asked.failed \cap {"chromium", p.app} = {}

\* p is a history, login or cookie file in a profile of its browser.
IsArtifact(p) ==
  CASE p.app = "Firefox" -> p.dir \in Listed /\ ~p.net /\ KindOf(p.file) # 0 /\ p.file.ext # ""
    [] p.app = "Safari"  -> Mac /\ p.dir = "" /\ ~p.net /\ Named(p.file, "history", ".db")
    [] IsChromium(p)     -> /\ InProfile(p) /\ KindOf(p.file) # 0 /\ p.file.ext = ""
                            /\ p.net => KindOf(p.file) = 3

\* Of every profile that could be looked at the scan takes each kind of file that
\* is there, and no kind twice, whichever version of the browser wrote it and
\* wherever it keeps its Cookies; and it does so whatever could not be looked at:
\* neither a search that raises nor a browser's folder that may not be listed
\* costs the profiles of another.
ProfilesAreTaken ==
  \A p \in asked.disk : CouldLook(p) /\ IsArtifact(p) =>
    Cardinality({q \in asked.todo : SameProfile(p, q) /\ KindOf(p.file) = KindOf(q.file)}) = 1

\* core/utils.py:42-44: the copy a parser reads includes the -wal file, "since
\* modern browsers keep uncommitted data there"; then a parsed item has all
\* rows the browser had committed when its file was taken.
JournalIsRead == \A i \in items : i.status = "parsed" => i.whole

=============================================================================
