---------------------------- MODULE IntakeProofs ----------------------------
(* The safety properties of Intake, proved for every set of files, every     *)
(* machine, every plan and every type given by hand.                         *)
EXTENDS Intake, FiniteSetTheorems, TLAPS

-----------------------------------------------------------------------------
(* The inductive invariants *)

\* The files of which the request has still to answer.
Pending == IF job = Idle THEN {}
           ELSE job.todo \cup (IF job.at = "stored" THEN {job.src} ELSE {})

Answered == {a.src : a \in answers}

\* Each file a request set out to take is answered or pending, unless it said
\* that it stopped at the limit.
AnswersInv ==
  \/ \A s \in asked.todo : s \in Answered \cup Pending
  \/ job = Idle /\ \E a \in answers : a.status = "blocked"

\* The one request is of all files that are known, an item is of a file that is
\* no longer pending, and no file has two.
SourcesInv ==
  /\ Pending \subseteq asked.todo
  /\ Answered \subseteq asked.todo
  /\ \A i \in items : i.src \in asked.todo \ Pending
  /\ \A i, j \in items : i.src = j.src => i = j
  /\ job.at = "stored" => job.src \notin job.todo
  /\ job.at = "parse" => job.item \in items

\* The copies in the store are of files answered as created and the one that is
\* being taken in; else it has only what probing a database in WAL mode left.
Created(s) == [src |-> s, status |-> "created"] \in answers

IsOwned(e) == \/ e.part = "file" /\ Created(e.src)
              \/ e.part = "file" /\ job.at = "stored" /\ job.src = e.src
              \/ e.part = "wal" /\ e.src.file.journal /\ SniffsTables(e.src.file)

StoreInv ==
  /\ \A i \in items : Kept(i.src) \in store
  /\ job.at = "stored" => Kept(job.src) \in store
  /\ \A e \in store : IsOwned(e)

\* What the rows of the item and its status say is what its parser makes of the
\* file, or nothing yet.
IsOutcome(i) ==
  \/ i.status = "uploaded" /\ i.filled = {}
  \/ i.status = "failed"   /\ ParsedTables(i.type, i.src.file) = None
  \/ i.status = "parsed"   /\ i.filled = ParsedTables(i.type, i.src.file)

\* A type is what the request or the file says it is, and an uploaded file was
\* refused for what the form says of that type.
IsTyped(i) == /\ i.type = TypeOf(i.src.file)
              /\ i.auto = (asked.override = None /\ i.type # "other")

IsGrounded(a) == a.status = "rejected" /\ IsUpload(a.src)
                   => ~FormAccepts(TypeOf(a.src.file), a.src.file)

ItemsInv == /\ \A i \in items : IsTyped(i) /\ IsOutcome(i)
            /\ \A a \in answers : IsGrounded(a)

\* The files of a scan are what the search found on a machine.
ScanInv == /\ IsMachine(asked.disk)
           /\ \/ asked.disk = {}
              \/ asked.todo = DetectAll(asked.disk, asked.failed)

-----------------------------------------------------------------------------
(* Detection, the form and the parsers *)

DatabaseTypes == Types \ {"cache_archive", "firefox_logins", "other"}

\* A parser of a database feeds the table that its type is shown in.
LEMMA QueriesFeed ==
  ASSUME NEW type \in DatabaseTypes
  PROVE  Query(type).into = ArtifactKind[type] /\ Query(type).into \in Tables
<1>1. DOMAIN ChromiumQueries = {"chromium_history", "chromium_logins", "chromium_cookies",
                                "chromium_downloads"}
  BY DEF ChromiumQueries
<1>2. DOMAIN FirefoxQueries = {"firefox_history", "firefox_cookies"}
  BY DEF FirefoxQueries
<1>3. DOMAIN SafariQueries = {"safari_history"}
  BY DEF SafariQueries
<1>4. CASE type \in DOMAIN ChromiumQueries
  <2>1. Query(type) = ChromiumQueries[type]
    BY <1>1, <1>2, <1>3, <1>4 DEF Query
  <2> QED
    BY <2>1, <1>1, <1>4 DEF ChromiumQueries, ArtifactKind, Tables
<1>5. CASE type \in DOMAIN FirefoxQueries
  <2>1. Query(type) = FirefoxQueries[type]
    BY <1>1, <1>2, <1>3, <1>5 DEF Query
  <2> QED
    BY <2>1, <1>2, <1>5 DEF FirefoxQueries, ArtifactKind, Tables
<1>6. CASE type \in DOMAIN SafariQueries
  <2>1. Query(type) = SafariQueries[type]
    BY <1>1, <1>2, <1>3, <1>6 DEF Query
  <2> QED
    BY <2>1, <1>3, <1>6 DEF SafariQueries, ArtifactKind, Tables
<1> QED
  BY <1>1, <1>2, <1>3, <1>4, <1>5, <1>6 DEF DatabaseTypes, Types

\* The tables of a database that a parser selects from.
LEMMA QueryFrom ==
  /\ Query("chromium_history").from = {"urls"}
  /\ Query("chromium_logins").from = {"logins"}
  /\ Query("chromium_cookies").from = {"cookies"}
  /\ Query("firefox_history").from = {"moz_places"}
  /\ Query("firefox_cookies").from = {"moz_cookies"}
  /\ Query("safari_history").from = {"history_visits", "history_items"}
<1>1. DOMAIN ChromiumQueries = {"chromium_history", "chromium_logins", "chromium_cookies",
                                "chromium_downloads"}
  BY DEF ChromiumQueries
<1>2. DOMAIN FirefoxQueries = {"firefox_history", "firefox_cookies"}
  BY DEF FirefoxQueries
<1>3. DOMAIN SafariQueries = {"safari_history"}
  BY DEF SafariQueries
<1>4. /\ Query("chromium_history") = ChromiumQueries["chromium_history"]
      /\ Query("chromium_logins") = ChromiumQueries["chromium_logins"]
      /\ Query("chromium_cookies") = ChromiumQueries["chromium_cookies"]
      /\ Query("firefox_history") = FirefoxQueries["firefox_history"]
      /\ Query("firefox_cookies") = FirefoxQueries["firefox_cookies"]
      /\ Query("safari_history") = SafariQueries["safari_history"]
  BY <1>1, <1>2, <1>3 DEF Query
<1> QED
  BY <1>4 DEF ChromiumQueries, FirefoxQueries, SafariQueries

\* Such a parser fails, or its table is among those it filled.
LEMMA DatabasesAreRead ==
  ASSUME NEW type \in DatabaseTypes, NEW f \in File
  PROVE  /\ ParsedTables(type, f) \in (SUBSET Tables) \cup {None}
         /\ ParsedTables(type, f) # None => ArtifactKind[type] \in ParsedTables(type, f)
         /\ Selects(type, f) => ParsedTables(type, f) # None
<1>1. ParsedTables(type, f) = QueryTables(type, f)
  BY DEF ParsedTables, DatabaseTypes
<1>2. Extra(type, f) \subseteq Tables
  BY DEF Extra, Tables
<1>3. QueryTables(type, f) = IF Selects(type, f) THEN {Query(type).into} \cup Extra(type, f)
                             ELSE None
  BY DEF QueryTables
<1>4. Selects(type, f) => QueryTables(type, f) \in SUBSET Tables
  BY <1>2, <1>3, QueriesFeed
<1>5. \A tables \in SUBSET Tables : tables # None
  BY NoneIsNoAnswer
<1> QED
  BY <1>1, <1>3, <1>4, <1>5, QueriesFeed

\* Whatever the type, a parser fails or names tables.
LEMMA ParsersName ==
  ASSUME NEW type \in Types, NEW f \in File
  PROVE  ParsedTables(type, f) \in (SUBSET Tables) \cup {None}
<1>1. CASE type \in DatabaseTypes
  BY <1>1, DatabasesAreRead
<1>2. CASE type = "cache_archive"
  BY <1>2 DEF ParsedTables, ScanCacheZip, Tables
<1>3. CASE type = "firefox_logins"
  BY <1>3 DEF ParsedTables, ParseLogins, Tables
<1>4. CASE type = "other"
  BY <1>4 DEF ParsedTables
<1> QED
  BY <1>1, <1>2, <1>3, <1>4 DEF DatabaseTypes

\* The first of the signatures that fits decides.
LEMMA FirstFits ==
  ASSUME NEW tables, NEW n \in 1..6, Signatures[n].tables \subseteq tables,
         \A m \in 1..6 : Signatures[m].tables \subseteq tables => n <= m
  PROVE  SniffTables(tables) = Signatures[n].type
<1> DEFINE hits == {m \in DOMAIN Signatures : Signatures[m].tables \subseteq tables}
<1>1. DOMAIN Signatures = 1..6
  BY DEF Signatures
<1>2. n \in hits /\ \A m \in hits : n <= m
  BY <1>1
<1>3. hits \subseteq Int
  BY <1>1
<1> DEFINE first == CHOOSE k \in hits : \A m \in hits : k <= m
<1>4. first = n
  <2> HIDE DEF hits
  <2>1. first \in hits /\ \A m \in hits : first <= m
    BY <1>2
  <2> HIDE DEF first
  <2> QED
    BY <2>1, <1>2, <1>3
<1>5. SniffTables(tables) = IF hits = {} THEN None ELSE Signatures[first].type
  BY DEF SniffTables
<1> HIDE DEF hits, first
<1> QED
  BY <1>2, <1>4, <1>5

\* What the tables tell is a type whose parser selects from those tables.
LEMMA TablesAreSelected ==
  ASSUME NEW tables
  PROVE  \/ SniffTables(tables) = None
         \/ /\ SniffTables(tables) \in DatabaseTypes
            /\ Query(SniffTables(tables)).from \subseteq tables
<1> DEFINE hits == {m \in DOMAIN Signatures : Signatures[m].tables \subseteq tables}
<1>1. DOMAIN Signatures = 1..6
  BY DEF Signatures
<1> DEFINE first == CHOOSE k \in hits : \A m \in hits : k <= m
<1>2. SniffTables(tables) = IF hits = {} THEN None ELSE Signatures[first].type
  BY DEF SniffTables
<1>3. CASE hits = {}
  BY <1>2, <1>3
<1>4. CASE hits # {}
  <2>1. \E k \in hits : \A m \in hits : k <= m
    <3>1. hits \in SUBSET (1..6)
      BY <1>1
    <3> HIDE DEF hits
    <3>2. PICK k \in hits : TRUE
      BY <1>4
    <3>3. CASE \E n \in hits : n \in {1, 2, 3} /\ \A m \in hits : n <= m
      BY <3>3
    <3>4. CASE ~\E n \in hits : n \in {1, 2, 3}
      <4>1. hits \subseteq {4, 5, 6}
        BY <3>1, <3>4
      <4> QED
        BY <4>1, <3>2
    <3>5. 1 \in hits => \A m \in hits : 1 <= m
      BY <3>1
    <3>6. 1 \notin hits => \A m \in hits : 2 <= m
      BY <3>1
    <3>7. 1 \notin hits /\ 2 \notin hits => \A m \in hits : 3 <= m
      BY <3>1
    <3> QED
      BY <3>3, <3>4, <3>5, <3>6, <3>7
  <2>2. first \in hits
    <3> HIDE DEF hits
    <3> QED
      BY <2>1
  <2>3. first \in 1..6 /\ Signatures[first].tables \subseteq tables
    BY <2>2, <1>1
  <2> HIDE DEF first, hits
  <2>4. SniffTables(tables) = Signatures[first].type
    BY <1>2, <1>4
  <2>5. \A n \in 1..6 : /\ Signatures[n].type \in DatabaseTypes
                        /\ Query(Signatures[n].type).from \subseteq Signatures[n].tables
    <3> SUFFICES ASSUME NEW n \in 1..6
                 PROVE  /\ Signatures[n].type \in DatabaseTypes
                        /\ Query(Signatures[n].type).from \subseteq Signatures[n].tables
      OBVIOUS
    <3>1. n \in {1, 2, 3, 4, 5, 6}
      OBVIOUS
    <3>2. CASE n = 1
      BY <3>2, QueryFrom DEF Signatures, DatabaseTypes, Types
    <3>3. CASE n = 2
      BY <3>3, QueryFrom DEF Signatures, DatabaseTypes, Types
    <3>4. CASE n = 3
      BY <3>4, QueryFrom DEF Signatures, DatabaseTypes, Types
    <3>5. CASE n = 4
      BY <3>5, QueryFrom DEF Signatures, DatabaseTypes, Types
    <3>6. CASE n = 5
      BY <3>6, QueryFrom DEF Signatures, DatabaseTypes, Types
    <3>7. CASE n = 6
      BY <3>7, QueryFrom DEF Signatures, DatabaseTypes, Types
    <3> QED
      BY <3>1, <3>2, <3>3, <3>4, <3>5, <3>6, <3>7
  <2> QED
    BY <2>3, <2>4, <2>5
<1> QED
  BY <1>3, <1>4

\* No file is detected as OTHER: where nothing is found there is no answer.
LEMMA DetectTypes ==
  ASSUME NEW f
  PROVE  Detect(f) \in (Types \ {"other"}) \cup {None}
<1>1. NameHint(f) \in (Types \ {"other"}) \cup {None}
  BY DEF NameHint, Types
<1>2. SniffTables(f.has) \in (Types \ {"other"}) \cup {None}
  BY TablesAreSelected DEF DatabaseTypes
<1>3. "firefox_logins" \in Types \ {"other"}
  BY DEF Types
<1> QED
  BY <1>1, <1>2, <1>3 DEF Detect

\* A row of the table of natural files, field by field.
IsRow(r, stem, ext, form, has, type, kind) ==
  /\ r.stem = stem /\ r.ext = ext /\ r.form = form
  /\ r.has = has /\ r.type = type /\ r.kind = kind

LEMMA NaturalIs ==
  ASSUME NEW r \in Natural
  PROVE  \/ IsRow(r, "history", "", "sqlite", {"urls", "visits"}, "chromium_history", "history")
         \/ IsRow(r, "login data", "", "sqlite", {"logins"}, "chromium_logins", "login")
         \/ IsRow(r, "cookies", "", "sqlite", {"cookies"}, "chromium_cookies", "cookie")
         \/ IsRow(r, "places", ".sqlite", "sqlite", {"moz_places"}, "firefox_history", "history")
         \/ IsRow(r, "logins", ".json", "json", {"logins"}, "firefox_logins", "login")
         \/ IsRow(r, "cookies", ".sqlite", "sqlite", {"moz_cookies"}, "firefox_cookies", "cookie")
         \/ IsRow(r, "history", ".db", "sqlite", {"history_items", "history_visits"},
                  "safari_history", "history")
<1>1. CASE r = [stem |-> "history", ext |-> "", form |-> "sqlite",
               has |-> {"urls", "visits"}, type |-> "chromium_history", kind |-> "history"]
  BY <1>1 DEF IsRow
<1>2. CASE r = [stem |-> "login data", ext |-> "", form |-> "sqlite",
               has |-> {"logins"}, type |-> "chromium_logins", kind |-> "login"]
  BY <1>2 DEF IsRow
<1>3. CASE r = [stem |-> "cookies", ext |-> "", form |-> "sqlite",
               has |-> {"cookies"}, type |-> "chromium_cookies", kind |-> "cookie"]
  BY <1>3 DEF IsRow
<1>4. CASE r = [stem |-> "places", ext |-> ".sqlite", form |-> "sqlite",
               has |-> {"moz_places"}, type |-> "firefox_history", kind |-> "history"]
  BY <1>4 DEF IsRow
<1>5. CASE r = [stem |-> "logins", ext |-> ".json", form |-> "json",
               has |-> {"logins"}, type |-> "firefox_logins", kind |-> "login"]
  BY <1>5 DEF IsRow
<1>6. CASE r = [stem |-> "cookies", ext |-> ".sqlite", form |-> "sqlite",
               has |-> {"moz_cookies"}, type |-> "firefox_cookies", kind |-> "cookie"]
  BY <1>6 DEF IsRow
<1>7. CASE r = [stem |-> "history", ext |-> ".db", form |-> "sqlite",
               has |-> {"history_items", "history_visits"}, type |-> "safari_history",
               kind |-> "history"]
  BY <1>7 DEF IsRow
<1> QED
  BY <1>1, <1>2, <1>3, <1>4, <1>5, <1>6, <1>7 DEF Natural

\* The row of the logins apart, the parser of a row's type selects from tables
\* the row has, and feeds the table of the row's kind.
LEMMA NaturalQueries ==
  ASSUME NEW r \in Natural
  PROVE  \/ /\ r.type \in DatabaseTypes /\ r.form = "sqlite"
            /\ Query(r.type).from \subseteq r.has
            /\ ArtifactKind[r.type] = r.kind
         \/ /\ r.type = "firefox_logins" /\ r.kind = "login"
            /\ r.form = "json" /\ r.has = {"logins"}
<1>1. r.type \in DatabaseTypes \cup {"firefox_logins"}
  BY NaturalIs DEF IsRow, DatabaseTypes, Types
<1>2. r.type = "firefox_logins" => r.kind = "login" /\ r.form = "json" /\ r.has = {"logins"}
  BY NaturalIs DEF IsRow
<1>3. r.type # "firefox_logins" => r.form = "sqlite"
  BY NaturalIs DEF IsRow
<1>4. r.type # "firefox_logins" => Query(r.type).from \subseteq r.has
  <2>1. CASE r.type = "firefox_logins"
    BY <2>1
  <2>2. CASE r.type = "safari_history" /\ r.has = {"history_items", "history_visits"}
    BY <2>2, QueryFrom
  <2>3. CASE r.type = "chromium_history" /\ r.has = {"urls", "visits"}
    BY <2>3, QueryFrom
  <2>4. CASE r.type = "chromium_logins" /\ r.has = {"logins"}
    BY <2>4, QueryFrom
  <2>5. CASE r.type = "chromium_cookies" /\ r.has = {"cookies"}
    BY <2>5, QueryFrom
  <2>6. CASE r.type = "firefox_history" /\ r.has = {"moz_places"}
    BY <2>6, QueryFrom
  <2>7. CASE r.type = "firefox_cookies" /\ r.has = {"moz_cookies"}
    BY <2>7, QueryFrom
  <2> QED
    BY NaturalIs, <2>1, <2>2, <2>3, <2>4, <2>5, <2>6, <2>7 DEF IsRow
<1>5. ArtifactKind[r.type] = r.kind
  <2>1. /\ ArtifactKind["chromium_history"] = "history"
        /\ ArtifactKind["chromium_logins"] = "login"
        /\ ArtifactKind["chromium_cookies"] = "cookie"
        /\ ArtifactKind["firefox_history"] = "history"
        /\ ArtifactKind["firefox_logins"] = "login"
        /\ ArtifactKind["firefox_cookies"] = "cookie"
        /\ ArtifactKind["safari_history"] = "history"
    BY DEF ArtifactKind
  <2> QED
    BY NaturalIs, <2>1 DEF IsRow
<1> QED
  BY <1>1, <1>2, <1>3, <1>4, <1>5

\* The type of a natural file is that of its row, by its name or its tables.
LEMMA NaturalTypes ==
  ASSUME NEW r \in Natural, NEW f \in File, IsNatural(f, r)
  PROVE  Detect(f) = r.type /\ r.type \in Types \ {"other"}
<1>1. /\ f.stem = r.stem /\ f.ext = r.ext /\ f.form = r.form
      /\ r.has \subseteq f.has /\ f.has \cap Foreign(r) = {}
  BY DEF IsNatural, Named
<1>2. None \notin Types
  BY NoneIsNoAnswer
<1>3. CASE r.stem = "history" /\ r.ext = ""
  <2>1. r.has = {"urls", "visits"} /\ r.type = "chromium_history" /\ r.form = "sqlite"
    BY <1>3, NaturalIs DEF IsRow
  <2>2. NameHint(f) = None
    BY <1>1, <1>3 DEF NameHint, Named
  <2>3. ~SniffsAsLogins(f) /\ SniffsTables(f)
    BY <1>1, <2>1, <2>2 DEF SniffsAsLogins, SniffsTables
  <2>4. Signatures[1].tables = {"urls", "visits"} /\ Signatures[1].type = "chromium_history"
    BY DEF Signatures
  <2>5. 1 \in 1..6 /\ \A m \in 1..6 : 1 <= m
    OBVIOUS
  <2>6. SniffTables(f.has) = "chromium_history"
    <3>1. Signatures[1].tables \subseteq f.has
      BY <1>1, <2>1, <2>4
    <3> QED
      BY <3>1, <2>4, <2>5, FirstFits
  <2> QED
    BY <2>1, <2>2, <2>3, <2>6 DEF Detect, Types
<1>4. CASE r.stem = "history" /\ r.ext = ".db"
  <2>1. r.has = {"history_items", "history_visits"} /\ r.type = "safari_history"
        /\ r.form = "sqlite"
    BY <1>4, NaturalIs DEF IsRow
  <2>2. NameHint(f) = None
    BY <1>1, <1>4 DEF NameHint, Named
  <2>3. ~SniffsAsLogins(f) /\ SniffsTables(f)
    BY <1>1, <2>1, <2>2 DEF SniffsAsLogins, SniffsTables
  <2>4. /\ Signatures[1].tables = {"urls", "visits"}
        /\ Signatures[2].tables = {"history_items", "history_visits"}
        /\ Signatures[2].type = "safari_history"
    BY DEF Signatures
  <2>5. "urls" \notin f.has
    BY <1>1, <2>1 DEF Foreign
  <2>6. 2 \in 1..6 /\ \A m \in 1..6 : Signatures[m].tables \subseteq f.has => 2 <= m
    <3>1. ~(Signatures[1].tables \subseteq f.has)
      BY <2>4, <2>5
    <3>2. \A m \in 1..6 : m = 1 \/ 2 <= m
      OBVIOUS
    <3> QED
      BY <3>1, <3>2
  <2>7. SniffTables(f.has) = "safari_history"
    <3>1. Signatures[2].tables \subseteq f.has
      BY <1>1, <2>1, <2>4
    <3> QED
      BY <3>1, <2>4, <2>6, FirstFits
  <2> QED
    BY <2>1, <2>2, <2>3, <2>7 DEF Detect, Types
<1>5. CASE r.stem # "history"
  <2>1. NameHint(f) = r.type
    <3>1. CASE r.stem = "login data" /\ r.ext = "" /\ r.type = "chromium_logins"
      BY <1>1, <3>1 DEF NameHint, Named
    <3>2. CASE r.stem = "cookies" /\ r.ext = "" /\ r.type = "chromium_cookies"
      BY <1>1, <3>2 DEF NameHint, Named
    <3>3. CASE r.stem = "places" /\ r.ext = ".sqlite" /\ r.type = "firefox_history"
      BY <1>1, <3>3 DEF NameHint, Named
    <3>4. CASE r.stem = "logins" /\ r.ext = ".json" /\ r.type = "firefox_logins"
      BY <1>1, <3>4 DEF NameHint, Named
    <3>5. CASE r.stem = "cookies" /\ r.ext = ".sqlite" /\ r.type = "firefox_cookies"
      BY <1>1, <3>5 DEF NameHint, Named
    <3> QED
      BY <1>5, NaturalIs, <3>1, <3>2, <3>3, <3>4, <3>5 DEF IsRow
  <2>2. r.type \in Types \ {"other"}
    BY NaturalIs DEF IsRow, Types
  <2>3. r.type # None
    BY <1>2, <2>2
  <2> QED
    BY <2>1, <2>2, <2>3 DEF Detect, SniffsTables
<1> QED
  BY <1>3, <1>4, <1>5, NaturalIs DEF IsRow

\* The form takes it under that type.
LEMMA NaturalNames ==
  ASSUME NEW r \in Natural, NEW f \in File, IsNatural(f, r)
  PROVE  FormAccepts(r.type, f)
<1>1. f.ext = r.ext /\ f.size = "fits"
  BY DEF IsNatural, Named
<1>2. DOMAIN Expectations = {"firefox_history", "firefox_cookies", "firefox_logins",
                             "safari_history", "cache_archive"}
  BY DEF Expectations
<1>3. /\ Expectations["firefox_history"] = ".sqlite"
      /\ Expectations["firefox_cookies"] = ".sqlite"
      /\ Expectations["firefox_logins"] = ".json"
      /\ Expectations["safari_history"] = ".db"
  BY DEF Expectations
<1>4. r.type \in DOMAIN Expectations => r.ext = Expectations[r.type]
  BY <1>2, <1>3, NaturalIs DEF IsRow
<1> QED
  BY <1>1, <1>4 DEF FormAccepts

\* The parser of the type fails only if the columns have drifted, and otherwise
\* fills the table of the row's kind.
LEMMA NaturalRows ==
  ASSUME NEW r \in Natural, NEW f \in File, IsNatural(f, r)
  PROVE  /\ ParsedTables(r.type, f) = None => f.drift
         /\ ParsedTables(r.type, f) # None => r.kind \in ParsedTables(r.type, f)
<1>1. f.form = r.form /\ r.has \subseteq f.has
  BY DEF IsNatural
<1>2. CASE /\ r.type \in DatabaseTypes /\ r.form = "sqlite"
           /\ Query(r.type).from \subseteq r.has
           /\ ArtifactKind[r.type] = r.kind
  <2>1. ~f.drift => Selects(r.type, f)
    BY <1>1, <1>2 DEF Selects
  <2>2. f.drift \in BOOLEAN
    BY DEF File
  <2> QED
    BY <1>2, <2>1, <2>2, DatabasesAreRead
<1>3. CASE /\ r.type = "firefox_logins" /\ r.kind = "login"
           /\ r.form = "json" /\ r.has = {"logins"}
  <2>1. ParsedTables(r.type, f) = IF f.drift THEN None ELSE {"login"}
    BY <1>1, <1>3 DEF ParsedTables, ParseLogins
  <2>2. {"login"} # None
    BY NoneIsNoAnswer DEF Tables
  <2> QED
    BY <1>3, <2>1, <2>2
<1> QED
  BY <1>2, <1>3, NaturalQueries

-----------------------------------------------------------------------------
(* Types *)

LEMMA FoundOnDisk == ASSUME NEW d, NEW failed PROVE DetectAll(d, failed) \subseteq d
BY DEF DetectAll, Searches, DetectChromiumFamily, DetectFirefox, DetectSafari

LEMMA GivenIsSource == ASSUME NEW f \in File PROVE Given(f) \in Source
BY DEF Given, Source

\* What a parser makes of an item is the item again, with its outcome.
LEMMA ParsedItem ==
  ASSUME NEW item \in Item
  PROVE  /\ AfterParse(item) \in Item
         /\ AfterParse(item).src = item.src
         /\ AfterParse(item).type = item.type
         /\ AfterParse(item).auto = item.auto
         /\ IsOutcome(AfterParse(item))
<1> DEFINE tables == ParsedTables(item.type, item.src.file)
<1>1. item.src.file \in File /\ item.type \in Types
  BY DEF Item, Source, BrowserFile
<1>2. tables \in (SUBSET Tables) \cup {None}
  BY <1>1, ParsersName
<1>3. AfterParse(item) = IF tables = None
                         THEN [item EXCEPT !.status = "failed", !.filled = {}]
                         ELSE [item EXCEPT !.status = "parsed", !.filled = tables]
  BY DEF AfterParse
<1> HIDE DEF tables
<1>4. CASE tables = None
  <2>1. AfterParse(item) = [item EXCEPT !.status = "failed", !.filled = {}]
    BY <1>3, <1>4
  <2>2. /\ AfterParse(item) \in Item
        /\ AfterParse(item).src = item.src
        /\ AfterParse(item).type = item.type
        /\ AfterParse(item).auto = item.auto
        /\ AfterParse(item).status = "failed"
    BY <2>1 DEF Item
  <2> QED
    BY <1>4, <2>2 DEF IsOutcome, tables
<1>5. CASE tables # None
  <2>1. AfterParse(item) = [item EXCEPT !.status = "parsed", !.filled = tables]
    BY <1>3, <1>5
  <2>2. tables \in SUBSET Tables
    BY <1>2, <1>5
  <2>3. /\ AfterParse(item) \in Item
        /\ AfterParse(item).src = item.src
        /\ AfterParse(item).type = item.type
        /\ AfterParse(item).auto = item.auto
        /\ AfterParse(item).status = "parsed"
        /\ AfterParse(item).filled = tables
    BY <2>1, <2>2 DEF Item
  <2> QED
    BY <2>3 DEF IsOutcome, tables
<1> QED
  BY <1>4, <1>5

\* A source is a file with a place; what a request says of it has a type.
LEMMA TypesOf ==
  ASSUME asked \in Request, NEW s \in Source
  PROVE  s.file \in File /\ TypeOf(s.file) \in Types
<1>1. s.file \in File
  BY DEF Source, BrowserFile
<1>2. asked.override \in Types \cup {None}
  BY IntakeAssumption DEF Request
<1>3. "other" \in Types
  BY DEF Types
<1> QED
  BY <1>1, <1>2, <1>3, DetectTypes DEF TypeOf

LEMMA InitTypes == Init => TypeOK
<1> SUFFICES ASSUME Init PROVE TypeOK
  OBVIOUS
<1>1. asked \in Request
  BY DEF Init, Request
<1> QED
  BY <1>1 DEF Init, TypeOK, Idle

\* A request takes sources, and a scan files that are on the machine.
LEMMA BeginTypes ==
  ASSUME TypeOK, NEW sources \in SUBSET Source, NEW override \in Overrides \cup {None},
         NEW disk \in SUBSET Disk, NEW failed \in SUBSET Failing,
         Begin(sources, override, disk, failed)
  PROVE  TypeOK'
<1>1. job' \in Loop /\ job'.at = "next"
  BY DEF Begin, Loop
<1>2. asked' \in Request
  BY DEF Begin, Request
<1> QED
  BY <1>1, <1>2 DEF Begin, TypeOK

LEMMA StepTypes == TypeOK /\ [Next]_vars => TypeOK'
<1> SUFFICES ASSUME TypeOK, [Next]_vars PROVE TypeOK'
  OBVIOUS
<1>1. /\ plan \in Plans /\ journal \subseteq {p \in Disk : p.file.journal}
      /\ store \subseteq [src : Source, part : {"file", "wal"}]
      /\ items \subseteq Item /\ asked \in Request
      /\ answers \subseteq [src : Source, status : Statuses]
  BY DEF TypeOK
<1>2. \/ job = Idle
      \/ job.at = "next"   /\ job \in Loop
      \/ job.at = "stored" /\ job \in Stored
      \/ job.at = "parse"  /\ job \in Parse
  BY DEF TypeOK
<1>3. ASSUME NEW p \in Disk, Commit(p) PROVE TypeOK'
  BY <1>1, <1>2, <1>3 DEF Commit, TypeOK, request
<1>4. ASSUME NEW p \in Disk, Checkpoint(p) PROVE TypeOK'
  BY <1>1, <1>2, <1>4 DEF Checkpoint, TypeOK, request
<1>5. CASE UploadBegin
  <2>1. PICK b \in Batches, o \in Overrides : Begin({Given(f) : f \in b}, o, {}, {})
    BY <1>5 DEF UploadBegin
  <2>2. {Given(f) : f \in b} \subseteq Source
    BY GivenIsSource, IntakeAssumption
  <2> QED
    BY <2>1, <2>2, BeginTypes
<1>6. CASE ScanBegin
  <2>1. PICK d \in SUBSET Disk, failed \in SUBSET Failing :
          Begin(DetectAll(d, failed), None, d, failed)
    BY <1>6 DEF ScanBegin
  <2>2. DetectAll(d, failed) \subseteq Source
    BY FoundOnDisk, IntakeAssumption DEF Source
  <2> QED
    BY <2>1, <2>2, BeginTypes
<1>7. ASSUME NEW s \in asked.todo, Blocked(s) PROVE TypeOK'
  <2>1. s \in Source
    BY <1>1 DEF Request
  <2>2. [src |-> s, status |-> "blocked"] \in [src : Source, status : Statuses]
    BY <2>1 DEF Statuses
  <2> QED
    BY <1>1, <1>7, <2>2 DEF Blocked, Answer, TypeOK
<1>8. ASSUME NEW s \in asked.todo, Copy(s) PROVE TypeOK'
  <2>1. s \in Source
    BY <1>1 DEF Request
  <2>2. Kept(s) \in [src : Source, part : {"file", "wal"}]
    BY <2>1 DEF Kept
  <2>3. job.todo \in SUBSET Source
    BY <1>2, <1>8 DEF Copy, IsNext, Loop, Idle
  <2>4. job' \in Stored /\ job'.at = "stored"
    BY <1>8, <2>1, <2>3 DEF Copy, Stored
  <2> QED
    BY <1>1, <1>8, <2>2, <2>4 DEF Copy, TypeOK
<1>9. ASSUME NEW s \in asked.todo, Unreadable(s) PROVE TypeOK'
  <2>1. s \in Source
    BY <1>1 DEF Request
  <2>2. [src |-> s, status |-> "unreadable"] \in [src : Source, status : Statuses]
    BY <2>1 DEF Statuses
  <2>3. job.todo \in SUBSET Source
    BY <1>2, <1>9 DEF Unreadable, IsNext, Loop, Idle
  <2>4. job' \in Loop /\ job'.at = "next"
    BY <1>9, <2>3 DEF Unreadable, Continue, Loop
  <2> QED
    BY <1>1, <1>9, <2>2, <2>4 DEF Unreadable, Answer, TypeOK
<1>10. ASSUME job.at = "stored"
       PROVE  /\ job.todo \in SUBSET Source /\ job.src \in Source /\ job.whole \in BOOLEAN
              /\ Probed(job.src) \subseteq [src : Source, part : {"file", "wal"}]
  <2>1. job.todo \in SUBSET Source /\ job.src \in Source /\ job.whole \in BOOLEAN
    BY <1>2, <1>10 DEF Idle, Stored
  <2> QED
    BY <2>1 DEF Probed, Wal
<1>11. CASE Refused
  <2>1. [src |-> job.src, status |-> "rejected"] \in [src : Source, status : Statuses]
    BY <1>10, <1>11 DEF Refused, IsRefused, Statuses
  <2>2. job' \in Loop /\ job'.at = "next"
    BY <1>10, <1>11 DEF Refused, IsRefused, Continue, Loop
  <2> QED
    BY <1>1, <1>10, <1>11, <2>1, <2>2 DEF Refused, IsRefused, Answer, TypeOK
<1>12. CASE Record
  <2> DEFINE type == TypeOf(job.src.file)
             item == [src |-> job.src, type |-> type, whole |-> job.whole,
                      status |-> "uploaded",
                      auto |-> asked.override = None /\ type # "other", filled |-> {}]
  <2>1. type \in Types
    BY <1>1, <1>10, <1>12, TypesOf DEF Record
  <2>2. item \in Item
    <3> HIDE DEF type
    <3> QED
      BY <1>10, <1>12, <2>1 DEF Record, Item
  <2>3. [src |-> job.src, status |-> "created"] \in [src : Source, status : Statuses]
    BY <1>10, <1>12 DEF Record, Statuses
  <2>4. /\ items' = items \cup {item}
        /\ IF type = "other" THEN Continue(job.todo)
           ELSE job' = [at |-> "parse", todo |-> job.todo, item |-> item]
        /\ store' = store \cup Probed(job.src)
        /\ Answer(job.src, "created")
        /\ UNCHANGED <<plan, journal, asked>>
    BY <1>12 DEF Record
  <2> HIDE DEF type, item
  <2>5. job.todo \in SUBSET Source
    BY <1>10, <1>12 DEF Record
  <2>6. CASE type = "other"
    <3>1. job' \in Loop /\ job'.at = "next"
      BY <2>4, <2>5, <2>6 DEF Continue, Loop
    <3> QED
      BY <1>1, <1>10, <1>12, <2>2, <2>3, <2>4, <3>1 DEF Record, Answer, TypeOK
  <2>7. CASE type # "other"
    <3>1. job' \in Parse /\ job'.at = "parse"
      BY <2>2, <2>4, <2>5, <2>7 DEF Parse
    <3> QED
      BY <1>1, <1>10, <1>12, <2>2, <2>3, <2>4, <3>1 DEF Record, Answer, TypeOK
  <2> QED
    BY <2>6, <2>7
<1>13. CASE ParseNew
  <2>1. job.todo \in SUBSET Source /\ job.item \in Item
    BY <1>2, <1>13 DEF ParseNew, Parse, Idle
  <2>2. AfterParse(job.item) \in Item
    BY <2>1, ParsedItem
  <2>3. job' \in Loop /\ job'.at = "next"
    BY <1>13, <2>1 DEF ParseNew, Continue, Loop
  <2> QED
    BY <1>1, <1>13, <2>2, <2>3 DEF ParseNew, TypeOK
<1>14. CASE Finish
  BY <1>1, <1>14 DEF Finish, TypeOK
<1>15. ASSUME NEW i \in items, Reparse(i) PROVE TypeOK'
  <2>1. AfterParse(i) \in Item
    BY <1>1, ParsedItem
  <2> QED
    BY <1>1, <1>2, <1>15, <2>1 DEF Reparse, request, TypeOK
<1>16. ASSUME NEW i \in items, Delete(i) PROVE TypeOK'
  BY <1>1, <1>2, <1>16 DEF Delete, request, TypeOK
<1>17. CASE DeleteCase
  BY <1>1, <1>2, <1>17 DEF DeleteCase, request, TypeOK
<1>18. CASE UNCHANGED vars
  BY <1>1, <1>2, <1>18 DEF vars, request, TypeOK
<1> QED
  BY <1>3, <1>4, <1>5, <1>6, <1>7, <1>8, <1>9, <1>11, <1>12, <1>13, <1>14, <1>15, <1>16,
     <1>17, <1>18 DEF Next

\* Every row, copy, answer and request of an intake has its type (the type
\* invariant; _ingest_evidence_file and parse_evidence write nothing else).
THEOREM TypeCorrect == Spec => []TypeOK
BY InitTypes, StepTypes, PTL DEF Spec

-----------------------------------------------------------------------------
(* Every file is answered *)

\* How each step of a request changes the files of which it has to answer.
LEMMA BeginPends ==
  ASSUME NEW sources, NEW override, NEW disk, NEW failed,
         Begin(sources, override, disk, failed)
  PROVE  Pending' = sources /\ asked'.todo = sources /\ job' # Idle /\ job'.at = "next"
<1>1. /\ job' = [at |-> "next", todo |-> sources]
      /\ asked' = [todo |-> sources, override |-> override, disk |-> disk, failed |-> failed]
  BY DEF Begin
<1>2. job'.at = "next" /\ job'.todo = sources
  BY <1>1
<1>3. job' # Idle
  BY <1>2 DEF Idle
<1> QED
  BY <1>1, <1>2, <1>3 DEF Pending

LEMMA NextPends ==
  ASSUME job.at = "next"
  PROVE  Pending = job.todo /\ job # Idle
BY DEF Pending, Idle

LEMMA ContinuePends ==
  ASSUME NEW todo, Continue(todo)
  PROVE  Pending' = todo /\ job' # Idle /\ job'.at = "next"
<1>1. job'.at = "next" /\ job'.todo = todo
  BY DEF Continue
<1>2. job' # Idle
  BY <1>1 DEF Idle
<1> QED
  BY <1>1, <1>2 DEF Pending

LEMMA CopyPends ==
  ASSUME NEW s, Copy(s)
  PROVE  /\ Pending' = Pending /\ job # Idle /\ job.at = "next"
         /\ job'.at = "stored" /\ job'.src = s /\ job'.todo = job.todo \ {s} /\ s \in Pending
<1>1. job.at = "next" /\ s \in job.todo
  BY DEF Copy, IsNext
<1>2. Pending = job.todo /\ job # Idle
  BY <1>1, NextPends
<1>3. job'.at = "stored" /\ job'.src = s /\ job'.todo = job.todo \ {s}
  BY DEF Copy
<1>4. job' # Idle
  BY <1>3 DEF Idle
<1>5. Pending' = job'.todo \cup {job'.src}
  BY <1>3, <1>4 DEF Pending
<1> QED
  BY <1>1, <1>2, <1>3, <1>5

LEMMA StoredPends ==
  ASSUME job.at = "stored"
  PROVE  Pending = job.todo \cup {job.src} /\ job # Idle
BY DEF Pending, Idle

LEMMA RecordPends ==
  ASSUME Record
  PROVE  /\ Pending' = job.todo /\ job' # Idle /\ job.at = "stored"
         /\ \E item :
              /\ items' = items \cup {item}
              /\ \/ job'.at = "next"
                 \/ job'.at = "parse" /\ job'.item = item
              /\ item.src = job.src /\ item.type = TypeOf(job.src.file)
              /\ item.auto = (asked.override = None /\ item.type # "other")
              /\ item.status = "uploaded" /\ item.filled = {}
<1> DEFINE type == TypeOf(job.src.file)
           item == [src |-> job.src, type |-> type, whole |-> job.whole,
                    status |-> "uploaded",
                    auto |-> asked.override = None /\ type # "other", filled |-> {}]
<1>1. /\ job.at = "stored"
      /\ items' = items \cup {item}
      /\ IF type = "other" THEN Continue(job.todo)
         ELSE job' = [at |-> "parse", todo |-> job.todo, item |-> item]
  BY DEF Record
<1>4. /\ item.src = job.src /\ item.type = TypeOf(job.src.file)
      /\ item.auto = (asked.override = None /\ item.type # "other")
      /\ item.status = "uploaded" /\ item.filled = {}
  OBVIOUS
<1> HIDE DEF type, item
<1>2. CASE Continue(job.todo)
  BY <1>1, <1>2, <1>4, ContinuePends
<1>3. CASE job' = [at |-> "parse", todo |-> job.todo, item |-> item]
  <2>1. job'.at = "parse" /\ job'.todo = job.todo /\ job'.item = item
    BY <1>3
  <2>2. job' # Idle
    BY <2>1 DEF Idle
  <2> QED
    BY <1>1, <1>4, <2>1, <2>2 DEF Pending
<1> QED
  BY <1>1, <1>2, <1>3

LEMMA ParsePends ==
  ASSUME ParseNew
  PROVE  /\ Pending' = Pending /\ job # Idle /\ job.at = "parse"
         /\ job' # Idle /\ job'.at = "next"
<1>1. job.at = "parse" /\ Continue(job.todo)
  BY DEF ParseNew
<1>2. Pending = job.todo /\ job # Idle
  BY <1>1 DEF Pending, Idle
<1> QED
  BY <1>1, <1>2, ContinuePends

LEMMA AnswerAdds ==
  ASSUME NEW s, NEW status, Answer(s, status)
  PROVE  /\ Answered' = Answered \cup {s}
         /\ answers' = answers \cup {[src |-> s, status |-> status]}
<1> DEFINE a == [src |-> s, status |-> status]
<1>1. a.src = s
  OBVIOUS
<1>2. answers' = answers \cup {a}
  BY DEF Answer
<1> HIDE DEF a
<1>3. {b.src : b \in answers \cup {a}} = {b.src : b \in answers} \cup {a.src}
  OBVIOUS
<1> QED
  BY <1>1, <1>2, <1>3 DEF Answered, a

LEMMA StepAnswers == AnswersInv /\ [Next]_vars => AnswersInv'
<1> SUFFICES ASSUME AnswersInv, [Next]_vars PROVE AnswersInv'
  OBVIOUS
<1>1. job # Idle => asked.todo \subseteq Answered \cup Pending
  BY DEF AnswersInv
<1>2. ASSUME UNCHANGED request PROVE AnswersInv'
  BY <1>2 DEF AnswersInv, request, Answered, Pending
<1>3. ASSUME NEW p \in Disk, Commit(p) \/ Checkpoint(p) PROVE AnswersInv'
  BY <1>2, <1>3 DEF Commit, Checkpoint
<1>4. CASE UploadBegin
  BY <1>4, BeginPends DEF UploadBegin, AnswersInv
<1>5. CASE ScanBegin
  BY <1>5, BeginPends DEF ScanBegin, AnswersInv
<1>6. ASSUME NEW s \in asked.todo, Blocked(s) PROVE AnswersInv'
  <2>1. job' = Idle /\ answers' = answers \cup {[src |-> s, status |-> "blocked"]}
    BY <1>6 DEF Blocked, Answer
  <2>2. [src |-> s, status |-> "blocked"].status = "blocked"
    OBVIOUS
  <2> QED
    BY <2>1, <2>2 DEF AnswersInv
<1>7. ASSUME NEW s \in asked.todo, Copy(s) PROVE AnswersInv'
  <2>1. asked' = asked /\ Answered' = Answered
    BY <1>7 DEF Copy, Answered
  <2> QED
    BY <1>1, <1>7, <2>1, CopyPends DEF AnswersInv
<1>8. ASSUME NEW s \in asked.todo, Unreadable(s) PROVE AnswersInv'
  <2>1. /\ job.at = "next" /\ Answer(s, "unreadable") /\ Continue(job.todo \ {s})
        /\ asked' = asked
    BY <1>8 DEF Unreadable, IsNext
  <2>2. Pending = job.todo /\ job # Idle
    BY <2>1, NextPends
  <2> QED
    BY <1>1, <2>1, <2>2, ContinuePends, AnswerAdds DEF AnswersInv
<1>9. CASE Refused
  <2>1. /\ job.at = "stored" /\ Answer(job.src, "rejected") /\ Continue(job.todo)
        /\ asked' = asked
    BY <1>9 DEF Refused, IsRefused
  <2> QED
    BY <1>1, <2>1, StoredPends, ContinuePends, AnswerAdds DEF AnswersInv
<1>10. CASE Record
  <2>1. Answer(job.src, "created") /\ asked' = asked
    BY <1>10 DEF Record
  <2> QED
    BY <1>1, <1>10, <2>1, RecordPends, StoredPends, AnswerAdds DEF AnswersInv
<1>11. CASE ParseNew
  <2>1. asked' = asked /\ Answered' = Answered
    BY <1>11 DEF ParseNew, Answered
  <2> QED
    BY <1>1, <1>11, <2>1, ParsePends DEF AnswersInv
<1>12. CASE Finish
  <2>1. job.at = "next" /\ job.todo = {} /\ asked' = asked /\ Answered' = Answered
    BY <1>12 DEF Finish, Answered
  <2> QED
    BY <1>1, <2>1, NextPends DEF AnswersInv
<1>13. ASSUME (\E i \in items : Reparse(i) \/ Delete(i)) \/ DeleteCase PROVE AnswersInv'
  BY <1>2, <1>13 DEF Reparse, Delete, DeleteCase
<1>14. CASE UNCHANGED vars
  BY <1>2, <1>14 DEF vars
<1> QED
  BY <1>3, <1>4, <1>5, <1>6, <1>7, <1>8, <1>9, <1>10, <1>11, <1>12, <1>13, <1>14 DEF Next

\* A request that has ended said what became of each file it set out to take,
\* or that it stopped at the limit: what is refused or cannot be read does not
\* end the batch (EvidenceUploadAPI.post, LocalScanAPI.post).
THEOREM FilesAreAnswered == Spec => []EveryFileIsAnswered
<1>1. Init => AnswersInv
  BY DEF Init, AnswersInv
<1>2. AnswersInv => EveryFileIsAnswered
  BY DEF AnswersInv, EveryFileIsAnswered, Answered, Pending
<1> QED
  BY <1>1, <1>2, StepAnswers, PTL DEF Spec

-----------------------------------------------------------------------------
(* One item of a file *)

LEMMA StepSources == TypeOK /\ SourcesInv /\ [Next]_vars => SourcesInv'
<1> SUFFICES ASSUME TypeOK, SourcesInv, [Next]_vars PROVE SourcesInv'
  OBVIOUS
<1>1. /\ Pending \subseteq asked.todo
      /\ Answered \subseteq asked.todo
      /\ \A i \in items : i.src \in asked.todo \ Pending
      /\ \A i, j \in items : i.src = j.src => i = j
      /\ job.at = "stored" => job.src \notin job.todo
      /\ job.at = "parse" => job.item \in items
  BY DEF SourcesInv
<1>2. ASSUME UNCHANGED <<request, items>> PROVE SourcesInv'
  BY <1>2 DEF SourcesInv, request, Answered, Pending
<1>3. ASSUME NEW p \in Disk, Commit(p) \/ Checkpoint(p) PROVE SourcesInv'
  BY <1>2, <1>3 DEF Commit, Checkpoint
<1>4. ASSUME IsOpen, NEW sources, NEW override, NEW disk, NEW failed,
             Begin(sources, override, disk, failed)
      PROVE  SourcesInv'
  <2>1. asked.todo = {} /\ items' = items /\ Answered' = Answered
    BY <1>4 DEF IsOpen, Begin, Answered
  <2>2. items = {} /\ Answered = {}
    BY <1>1, <2>1
  <2>3. Pending' = sources /\ asked'.todo = sources /\ job'.at = "next"
    BY <1>4, BeginPends
  <2> QED
    BY <2>1, <2>2, <2>3 DEF SourcesInv
<1>5. CASE UploadBegin
  BY <1>4, <1>5 DEF UploadBegin
<1>6. CASE ScanBegin
  BY <1>4, <1>6 DEF ScanBegin
<1>7. ASSUME NEW s \in asked.todo, Blocked(s) PROVE SourcesInv'
  <2>1. /\ job' = Idle /\ Answer(s, "blocked") /\ items' = items /\ asked' = asked
    BY <1>7 DEF Blocked
  <2>2. Pending' = {} /\ job'.at = "idle"
    BY <2>1 DEF Pending, Idle
  <2>3. Answered' \subseteq asked.todo
    BY <1>1, <2>1, AnswerAdds
  <2> QED
    BY <1>1, <2>1, <2>2, <2>3 DEF SourcesInv
<1>8. ASSUME NEW s \in asked.todo, Copy(s) PROVE SourcesInv'
  <2>1. asked' = asked /\ items' = items /\ Answered' = Answered
    BY <1>8 DEF Copy, Answered
  <2>2. /\ Pending' = Pending
        /\ job'.at = "stored" /\ job'.src \notin job'.todo
    BY <1>8, CopyPends
  <2> QED
    BY <1>1, <2>1, <2>2 DEF SourcesInv
<1>9. ASSUME NEW s \in asked.todo, Unreadable(s) PROVE SourcesInv'
  <2>1. /\ job.at = "next" /\ Answer(s, "unreadable") /\ Continue(job.todo \ {s})
        /\ asked' = asked /\ items' = items
    BY <1>9 DEF Unreadable, IsNext
  <2>2. /\ Pending = job.todo /\ Pending' = job.todo \ {s}
        /\ job'.at = "next" /\ Answered' = Answered \cup {s}
    BY <2>1, NextPends, ContinuePends, AnswerAdds
  <2> QED
    BY <1>1, <2>1, <2>2 DEF SourcesInv
<1>10. ASSUME job.at = "stored"
       PROVE  /\ Pending = job.todo \cup {job.src} /\ job.src \in asked.todo
              /\ job.src \notin job.todo /\ \A i \in items : i.src # job.src
  BY <1>1, <1>10, StoredPends
<1>11. CASE Refused
  <2>1. /\ job.at = "stored" /\ Answer(job.src, "rejected") /\ Continue(job.todo)
        /\ asked' = asked /\ items' = items
    BY <1>11 DEF Refused, IsRefused
  <2>2. Pending' = job.todo /\ job'.at = "next" /\ Answered' = Answered \cup {job.src}
    BY <2>1, ContinuePends, AnswerAdds
  <2> QED
    BY <1>1, <1>10, <2>1, <2>2 DEF SourcesInv
<1>12. CASE Record
  <2>1. /\ job.at = "stored" /\ Answer(job.src, "created") /\ asked' = asked
    BY <1>12 DEF Record
  <2>2. PICK item : /\ items' = items \cup {item} /\ item.src = job.src
                    /\ job'.at = "next" \/ (job'.at = "parse" /\ job'.item = item)
    BY <1>12, RecordPends
  <2>3. Pending' = job.todo /\ Answered' = Answered \cup {job.src}
    BY <1>12, <2>1, RecordPends, AnswerAdds
  <2>4. \/ job'.at = "next"
        \/ job'.at = "parse" /\ job'.item \in items'
    BY <2>2
  <2>5. \A i \in items' : i.src \in asked.todo \ job.todo
    BY <1>1, <1>10, <2>1, <2>2
  <2>6. \A i, j \in items' : i.src = j.src => i = j
    BY <1>1, <1>10, <2>1, <2>2
  <2> QED
    BY <1>1, <1>10, <2>1, <2>3, <2>4, <2>5, <2>6 DEF SourcesInv
<1>13. ASSUME NEW i \in items, items' = (items \ {i}) \cup {AfterParse(i)}
       PROVE  /\ \A j \in items' : \E k \in items : j.src = k.src
              /\ \A j, k \in items' : j.src = k.src => j = k
  <2>1. AfterParse(i).src = i.src
    BY <1>13, ParsedItem DEF TypeOK
  <2> QED
    BY <1>1, <1>13, <2>1
<1>14. CASE ParseNew
  <2>1. /\ job.at = "parse" /\ asked' = asked /\ Answered' = Answered
        /\ items' = (items \ {job.item}) \cup {AfterParse(job.item)}
    BY <1>14 DEF ParseNew, Answered
  <2>2. Pending' = Pending /\ job'.at = "next"
    BY <1>14, ParsePends
  <2>3. job.item \in items
    BY <1>1, <2>1
  <2> QED
    BY <1>1, <1>13, <2>1, <2>2, <2>3 DEF SourcesInv
<1>15. CASE Finish
  <2>1. job' = Idle /\ items' = items /\ asked' = asked /\ Answered' = Answered
    BY <1>15 DEF Finish, Answered
  <2>2. Pending' = {} /\ job'.at = "idle"
    BY <2>1 DEF Pending, Idle
  <2> QED
    BY <1>1, <2>1, <2>2 DEF SourcesInv
<1>16. ASSUME NEW i \in items, Reparse(i) PROVE SourcesInv'
  <2>1. /\ job = Idle /\ job' = job /\ asked' = asked /\ Answered' = Answered
        /\ items' = (items \ {i}) \cup {AfterParse(i)}
    BY <1>16 DEF Reparse, Answered, request
  <2>2. Pending = {} /\ Pending' = {} /\ job'.at = "idle"
    BY <2>1 DEF Pending, Idle
  <2> QED
    BY <1>1, <1>13, <2>1, <2>2 DEF SourcesInv
<1>17. ASSUME NEW i \in items, Delete(i) PROVE SourcesInv'
  <2>1. /\ job = Idle /\ job' = job /\ asked' = asked /\ Answered' = Answered
        /\ items' = items \ {i}
    BY <1>17 DEF Delete, Answered, request
  <2>2. Pending = {} /\ Pending' = {} /\ job'.at = "idle"
    BY <2>1 DEF Pending, Idle
  <2> QED
    BY <1>1, <2>1, <2>2 DEF SourcesInv
<1>18. CASE DeleteCase
  <2>1. /\ job = Idle /\ job' = job /\ asked' = asked /\ Answered' = Answered /\ items' = {}
    BY <1>18 DEF DeleteCase, Answered, request
  <2>2. Pending = {} /\ Pending' = {} /\ job'.at = "idle"
    BY <2>1 DEF Pending, Idle
  <2> QED
    BY <1>1, <2>1, <2>2 DEF SourcesInv
<1>19. CASE UNCHANGED vars
  BY <1>2, <1>19 DEF vars
<1> QED
  BY <1>3, <1>5, <1>6, <1>7, <1>8, <1>9, <1>11, <1>12, <1>14, <1>15, <1>16, <1>17, <1>18,
     <1>19 DEF Next

-----------------------------------------------------------------------------
(* The store holds the copies of the items *)

LEMMA KeptIs == ASSUME NEW s PROVE Kept(s).src = s /\ Kept(s).part = "file"
BY DEF Kept

LEMMA ProbedIs ==
  ASSUME NEW s, NEW e \in Probed(s)
  PROVE  e.part = "wal" /\ e.src.file.journal /\ SniffsTables(e.src.file)
BY DEF Probed, Wal, Sniffed

LEMMA StepStore == TypeOK /\ SourcesInv /\ StoreInv /\ [Next]_vars => StoreInv'
<1> SUFFICES ASSUME TypeOK, SourcesInv, StoreInv, [Next]_vars PROVE StoreInv'
  OBVIOUS
<1>1. /\ \A i \in items : Kept(i.src) \in store
      /\ job.at = "stored" => Kept(job.src) \in store
      /\ \A e \in store : IsOwned(e)
      /\ store \subseteq [src : Source, part : {"file", "wal"}]
      /\ items \subseteq Item
  BY DEF StoreInv, TypeOK
<1>2. ASSUME UNCHANGED <<job, store, items, answers>> PROVE StoreInv'
  BY <1>2 DEF StoreInv, IsOwned, Created
<1>3. ASSUME NEW p \in Disk, Commit(p) \/ Checkpoint(p) PROVE StoreInv'
  BY <1>2, <1>3 DEF Commit, Checkpoint, request
\* From a job that holds no copy to another one the items and the store stay.
<1>4. ASSUME UNCHANGED <<store, items>>, answers \subseteq answers',
             job.at # "stored", job'.at # "stored"
      PROVE  StoreInv'
  BY <1>1, <1>4 DEF StoreInv, IsOwned, Created
<1>5. job = Idle => job.at # "stored"
  BY DEF Idle
<1>6. CASE UploadBegin
  BY <1>4, <1>5, <1>6, BeginPends DEF UploadBegin, IsOpen, Begin
<1>7. CASE ScanBegin
  BY <1>4, <1>5, <1>7, BeginPends DEF ScanBegin, IsOpen, Begin
<1>8. ASSUME NEW s \in asked.todo, Blocked(s) PROVE StoreInv'
  BY <1>4, <1>8 DEF Blocked, IsNext, Idle, Answer
<1>9. ASSUME NEW s \in asked.todo, Copy(s) PROVE StoreInv'
  <2>1. /\ store' = store \cup {Kept(s)} /\ items' = items /\ answers' = answers
        /\ job.at = "next" /\ job'.at = "stored" /\ job'.src = s
    BY <1>9, CopyPends DEF Copy
  <2>2. \A e \in store' : IsOwned(e)'
    BY <1>1, <2>1, KeptIs DEF IsOwned, Created
  <2> QED
    BY <1>1, <2>1, <2>2 DEF StoreInv
<1>10. ASSUME NEW s \in asked.todo, Unreadable(s) PROVE StoreInv'
  <2>1. /\ job.at = "next" /\ job'.at = "next" /\ UNCHANGED <<store, items>>
        /\ answers \subseteq answers'
    BY <1>10, ContinuePends DEF Unreadable, IsNext, Answer
  <2> QED
    BY <1>4, <2>1
<1>11. CASE Refused
  <2>1. /\ job.at = "stored" /\ job'.at = "next" /\ items' = items
        /\ store' = (store \cup Probed(job.src)) \ {Kept(job.src)} /\ answers \subseteq answers'
    BY <1>11, ContinuePends DEF Refused, IsRefused, Answer
  <2>2. \A i \in items : i.src # job.src
    BY <2>1, StoredPends DEF SourcesInv
  <2>3. \A i \in items' : Kept(i.src) \in store'
    BY <1>1, <2>1, <2>2, KeptIs
  <2>4. ASSUME NEW e \in store' PROVE IsOwned(e)'
    <3>1. CASE e \in Probed(job.src)
      BY <3>1, ProbedIs DEF IsOwned
    <3>2. CASE e \in store /\ e # Kept(job.src)
      <4>1. e = [src |-> e.src, part |-> e.part]
        BY <1>1, <3>2
      <4>2. ~(e.part = "file" /\ job.src = e.src)
        BY <3>2, <4>1 DEF Kept
      <4> QED
        BY <1>1, <2>1, <3>2, <4>2 DEF IsOwned, Created
    <3> QED
      BY <2>1, <2>4, <3>1, <3>2
  <2> QED
    BY <2>1, <2>3, <2>4 DEF StoreInv
<1>12. CASE Record
  <2>1. /\ job.at = "stored" /\ store' = store \cup Probed(job.src)
        /\ answers \subseteq answers'
        /\ [src |-> job.src, status |-> "created"] \in answers'
    BY <1>12 DEF Record, Answer
  <2>2. PICK item : /\ items' = items \cup {item} /\ item.src = job.src
                    /\ job'.at = "next" \/ job'.at = "parse"
    BY <1>12, RecordPends
  <2>3. \A i \in items' : Kept(i.src) \in store'
    BY <1>1, <2>1, <2>2
  <2>4. ASSUME NEW e \in store' PROVE IsOwned(e)'
    <3>1. CASE e \in Probed(job.src)
      BY <3>1, ProbedIs DEF IsOwned
    <3>2. CASE e \in store
      BY <1>1, <2>1, <2>2, <3>2 DEF IsOwned, Created
    <3> QED
      BY <2>1, <2>4, <3>1, <3>2
  <2> QED
    BY <2>2, <2>3, <2>4 DEF StoreInv
<1>13. ASSUME NEW i \in items, items' = (items \ {i}) \cup {AfterParse(i)}, store' = store,
              answers' = answers, job.at # "stored", job'.at # "stored"
       PROVE  StoreInv'
  <2>1. AfterParse(i).src = i.src
    BY <1>1, <1>13, ParsedItem
  <2>2. \A j \in items' : Kept(j.src) \in store'
    BY <1>1, <1>13, <2>1
  <2>3. \A e \in store' : IsOwned(e)'
    BY <1>1, <1>13 DEF IsOwned, Created
  <2> QED
    BY <1>13, <2>2, <2>3 DEF StoreInv
<1>14. CASE ParseNew
  <2>1. /\ job.at = "parse" /\ job.item \in items /\ store' = store /\ answers' = answers
        /\ items' = (items \ {job.item}) \cup {AfterParse(job.item)} /\ job'.at = "next"
    BY <1>14, ParsePends DEF ParseNew, SourcesInv
  <2> QED
    BY <1>13, <2>1
<1>15. CASE Finish
  BY <1>4, <1>15 DEF Finish, Idle
<1>16. ASSUME NEW i \in items, Reparse(i) PROVE StoreInv'
  BY <1>5, <1>13, <1>16 DEF Reparse, request
<1>17. ASSUME NEW i \in items, Delete(i) PROVE StoreInv'
  <2>1. /\ items' = items \ {i} /\ store' \in {store, store \ {Kept(i.src)}}
        /\ job.at # "stored" /\ job' = job /\ answers' = answers
    BY <1>5, <1>17 DEF Delete, request
  <2>2. \A j \in items' : j.src # i.src
    BY <1>17, <2>1 DEF SourcesInv
  <2>3. \A j \in items' : Kept(j.src) \in store'
    BY <1>1, <2>1, <2>2, KeptIs
  <2>4. \A e \in store' : IsOwned(e)'
    BY <1>1, <2>1 DEF IsOwned, Created
  <2> QED
    BY <2>1, <2>3, <2>4 DEF StoreInv
<1>18. CASE DeleteCase
  <2>1. /\ items' = {} /\ store' = store
        /\ job.at # "stored" /\ job' = job /\ answers' = answers
    BY <1>5, <1>18 DEF DeleteCase, request
  <2> QED
    BY <1>1, <2>1 DEF StoreInv, IsOwned, Created
<1>19. CASE UNCHANGED vars
  BY <1>2, <1>19 DEF vars, request
<1> QED
  BY <1>3, <1>6, <1>7, <1>8, <1>9, <1>10, <1>11, <1>12, <1>14, <1>15, <1>16, <1>17, <1>18,
     <1>19 DEF Next

\* Between requests the store holds a copy of the file of every item, and else
\* only copies of files whose items were deleted and what probing a database in
\* WAL mode left behind: a file that is refused or cannot be copied leaves
\* nothing (_ingest_evidence_file; EvidenceDetailAPI.delete swallows what unlink
\* raises, and the deletion of a case leaves every copy).
THEOREM StoreIsKept == Spec => []StoreIsAccountedFor
<1>1. Init => TypeOK /\ SourcesInv /\ StoreInv
  <2>1. Init => SourcesInv
    BY DEF Init, SourcesInv, Pending, Answered, Idle
  <2> QED
    BY <2>1, InitTypes DEF Init, StoreInv, Idle
<1>2. TypeOK /\ StoreInv => StoreIsAccountedFor
  <2> SUFFICES ASSUME TypeOK, StoreInv, job = Idle PROVE StoreIsAccountedFor
    BY DEF StoreIsAccountedFor
  <2>1. job.at # "stored"
    BY DEF Idle
  <2>2. \A e \in store : IsOwned(e) /\ e.part \in {"file", "wal"}
    BY DEF StoreInv, TypeOK
  <2> QED
    BY <2>1, <2>2 DEF StoreInv, IsOwned, Created, StoreIsAccountedFor
<1> QED
  BY <1>1, <1>2, StepTypes, StepSources, StepStore, PTL DEF Spec

-----------------------------------------------------------------------------
(* What an item says is what its file holds *)

LEMMA SameRequest ==
  ASSUME asked' = asked
  PROVE  \A x : /\ IsTyped(x) => IsTyped(x)'
                /\ IsGrounded(x) => IsGrounded(x)'
BY DEF IsTyped, IsGrounded, TypeOf

LEMMA StepItems == TypeOK /\ SourcesInv /\ ItemsInv /\ [Next]_vars => ItemsInv'
<1> SUFFICES ASSUME TypeOK, SourcesInv, ItemsInv, [Next]_vars PROVE ItemsInv'
  OBVIOUS
<1>1. /\ \A i \in items : IsTyped(i) /\ IsOutcome(i)
      /\ \A a \in answers : IsGrounded(a)
      /\ items \subseteq Item
  BY DEF ItemsInv, TypeOK
<1>2. ASSUME UNCHANGED <<asked, items, answers>> PROVE ItemsInv'
  BY <1>1, <1>2, SameRequest DEF ItemsInv
<1>3. ASSUME NEW p \in Disk, Commit(p) \/ Checkpoint(p) PROVE ItemsInv'
  BY <1>2, <1>3 DEF Commit, Checkpoint, request
<1>4. ASSUME IsOpen, NEW sources, NEW override, NEW disk, NEW failed,
             Begin(sources, override, disk, failed)
      PROVE  ItemsInv'
  <2>1. asked.todo = {} /\ items' = items /\ answers' = answers
    BY <1>4 DEF IsOpen, Begin
  <2>2. items = {} /\ answers = {}
    BY <2>1 DEF SourcesInv, Answered
  <2> QED
    BY <2>1, <2>2 DEF ItemsInv
<1>5. CASE UploadBegin
  BY <1>4, <1>5 DEF UploadBegin
<1>6. CASE ScanBegin
  BY <1>4, <1>6 DEF ScanBegin
\* A new answer has its ground.
<1>7. ASSUME NEW s, NEW status, Answer(s, status), asked' = asked,
             status = "rejected" /\ IsUpload(s) => ~FormAccepts(TypeOf(s.file), s.file)
      PROVE  \A a \in answers' : IsGrounded(a)'
  <2> DEFINE a == [src |-> s, status |-> status]
  <2>1. answers' = answers \cup {a} /\ a.src = s /\ a.status = status
    BY <1>7 DEF Answer
  <2> HIDE DEF a
  <2>2. IsGrounded(a)
    BY <1>7, <2>1 DEF IsGrounded
  <2> QED
    BY <1>1, <1>7, <2>1, <2>2, SameRequest
<1>8. ASSUME NEW s \in asked.todo, Blocked(s) PROVE ItemsInv'
  <2>1. Answer(s, "blocked") /\ asked' = asked /\ items' = items
    BY <1>8 DEF Blocked
  <2>2. \A a \in answers' : IsGrounded(a)'
    BY <1>7, <2>1
  <2> QED
    BY <1>1, <2>1, <2>2, SameRequest DEF ItemsInv
<1>9. ASSUME NEW s \in asked.todo, Copy(s) PROVE ItemsInv'
  BY <1>2, <1>9 DEF Copy
<1>10. ASSUME NEW s \in asked.todo, Unreadable(s) PROVE ItemsInv'
  <2>1. Answer(s, "unreadable") /\ asked' = asked /\ items' = items
    BY <1>10 DEF Unreadable
  <2>2. \A a \in answers' : IsGrounded(a)'
    BY <1>7, <2>1
  <2> QED
    BY <1>1, <2>1, <2>2, SameRequest DEF ItemsInv
<1>11. CASE Refused
  <2>1. /\ Answer(job.src, "rejected") /\ asked' = asked /\ items' = items
        /\ ~FormAccepts(TypeOf(job.src.file), job.src.file)
    BY <1>11 DEF Refused, IsRefused
  <2>2. \A a \in answers' : IsGrounded(a)'
    BY <1>7, <2>1
  <2> QED
    BY <1>1, <2>1, <2>2, SameRequest DEF ItemsInv
<1>12. CASE Record
  <2>1. Answer(job.src, "created") /\ asked' = asked
    BY <1>12 DEF Record
  <2>2. \A a \in answers' : IsGrounded(a)'
    BY <1>7, <2>1
  <2>3. PICK item : /\ items' = items \cup {item}
                    /\ item.src = job.src /\ item.type = TypeOf(job.src.file)
                    /\ item.auto = (asked.override = None /\ item.type # "other")
                    /\ item.status = "uploaded" /\ item.filled = {}
    BY <1>12, RecordPends
  <2>4. IsTyped(item) /\ IsOutcome(item)
    BY <2>3 DEF IsTyped, IsOutcome
  <2> QED
    BY <1>1, <2>1, <2>2, <2>3, <2>4, SameRequest DEF ItemsInv
<1>13. ASSUME NEW i \in items, items' = (items \ {i}) \cup {AfterParse(i)},
              UNCHANGED <<asked, answers>>
       PROVE  ItemsInv'
  <2>1. /\ AfterParse(i).src = i.src /\ AfterParse(i).type = i.type
        /\ AfterParse(i).auto = i.auto /\ IsOutcome(AfterParse(i))
    BY <1>1, <1>13, ParsedItem
  <2>2. IsTyped(AfterParse(i))
    BY <1>1, <1>13, <2>1 DEF IsTyped
  <2>3. \A j \in items' : IsTyped(j) /\ IsOutcome(j)
    BY <1>1, <1>13, <2>1, <2>2
  <2> QED
    BY <1>1, <1>13, <2>3, SameRequest DEF ItemsInv
<1>14. CASE ParseNew
  <2>1. job.item \in items
    BY <1>14 DEF ParseNew, SourcesInv
  <2> QED
    BY <1>13, <1>14, <2>1 DEF ParseNew
<1>15. CASE Finish
  BY <1>2, <1>15 DEF Finish
<1>16. ASSUME NEW i \in items, Reparse(i) PROVE ItemsInv'
  BY <1>13, <1>16 DEF Reparse, request
<1>17. ASSUME NEW i \in items, Delete(i) PROVE ItemsInv'
  BY <1>1, <1>17, SameRequest DEF Delete, request, ItemsInv
<1>18. CASE DeleteCase
  BY <1>1, <1>18, SameRequest DEF DeleteCase, request, ItemsInv
<1>19. CASE UNCHANGED vars
  BY <1>2, <1>19 DEF vars, request
<1> QED
  BY <1>3, <1>5, <1>6, <1>8, <1>9, <1>10, <1>11, <1>12, <1>14, <1>15, <1>16, <1>17, <1>18,
     <1>19 DEF Next

LEMMA ItemsSpec == Spec => [](TypeOK /\ SourcesInv /\ ItemsInv)
<1>1. Init => TypeOK /\ SourcesInv /\ ItemsInv
  <2>1. Init => SourcesInv
    BY DEF Init, SourcesInv, Pending, Answered, Idle
  <2> QED
    BY <2>1, InitTypes DEF Init, ItemsInv
<1> QED
  BY <1>1, StepTypes, StepSources, StepItems, PTL DEF Spec

\* A file as a browser writes it is read: it is not refused for its name, gets
\* the type of its browser and has its rows in the table of its kind, unless its
\* columns have drifted (detect_evidence_type, EvidenceUploadForm, the parsers).
THEOREM BrowsersFilesAreRead == Spec => []NaturalFilesAreRead
<1>1. TypeOK /\ SourcesInv /\ ItemsInv => NaturalFilesAreRead
  <2> SUFFICES ASSUME TypeOK, SourcesInv, ItemsInv, NEW s \in asked.todo, NEW r \in Natural,
                      asked.override = None, IsNatural(s.file, r)
               PROVE  /\ IsUpload(s) => [src |-> s, status |-> "rejected"] \notin answers
                      /\ \A i \in items : i.src = s =>
                           /\ i.type = r.type
                           /\ i.status = "failed" => s.file.drift
                           /\ i.status = "parsed" => r.kind \in i.filled
    BY DEF NaturalFilesAreRead
  <2>1. s.file \in File
    BY TypesOf DEF TypeOK, Request
  <2>2. r.type # None
    BY <2>1, NaturalTypes, NoneIsNoAnswer
  <2>3. TypeOf(s.file) = r.type
    BY <2>1, <2>2, NaturalTypes DEF TypeOf
  <2>4. ASSUME IsUpload(s), [src |-> s, status |-> "rejected"] \in answers PROVE FALSE
    <3> DEFINE a == [src |-> s, status |-> "rejected"]
    <3>1. IsGrounded(a) /\ a.src = s /\ a.status = "rejected"
      BY <2>4 DEF ItemsInv
    <3> HIDE DEF a
    <3>2. ~FormAccepts(r.type, s.file)
      BY <2>3, <2>4, <3>1 DEF IsGrounded
    <3> QED
      BY <2>1, <3>2, NaturalNames
  <2>5. ASSUME NEW i \in items, i.src = s
        PROVE  /\ i.type = r.type
               /\ i.status = "failed" => s.file.drift
               /\ i.status = "parsed" => r.kind \in i.filled
    <3>1. i.type = r.type /\ IsOutcome(i)
      BY <2>3, <2>5 DEF ItemsInv, IsTyped
    <3>2. i.status = "failed" => ParsedTables(r.type, s.file) = None
      BY <2>5, <3>1 DEF IsOutcome
    <3>3. i.status = "parsed" => i.filled = ParsedTables(r.type, s.file) /\ i.filled # None
      <4>1. i.filled \in SUBSET Tables
        BY DEF TypeOK, Item
      <4> QED
        BY <2>5, <3>1, <4>1, NoneIsNoAnswer DEF IsOutcome
    <3> QED
      BY <2>1, <3>1, <3>2, <3>3, NaturalRows
  <2> QED
    BY <2>4, <2>5
<1> QED
  BY <1>1, ItemsSpec, PTL

\* A type taken from the content is one whose parser finds what it selects: the
\* item fails only over a missing column or logins of another shape, and once
\* parsed its table has its rows (detect.py:16-18).
THEOREM DetectedContentIsParsed == Spec => []ContentIsParsed
<1>1. TypeOK /\ ItemsInv => ContentIsParsed
  <2> SUFFICES ASSUME TypeOK, ItemsInv, NEW i \in items,
                      i.auto, NameHint(i.src.file) = None
               PROVE  /\ i.status = "failed" => i.src.file.drift
                      /\ i.status = "parsed" => ArtifactKind[i.type] \in i.filled
    BY DEF ContentIsParsed
  <2>1. i.src \in Source /\ i.src.file \in File /\ i.filled \in SUBSET Tables
    BY DEF TypeOK, Item, Source, BrowserFile
  <2> DEFINE f == i.src.file
  <2>2. i.type = Detect(f) /\ Detect(f) # None
    BY DEF ItemsInv, IsTyped, TypeOf
  <2>3. /\ ParsedTables(i.type, f) = None => f.drift
        /\ ParsedTables(i.type, f) # None => ArtifactKind[i.type] \in ParsedTables(i.type, f)
    <3>1. CASE SniffsAsLogins(f)
      <4>1. i.type = "firefox_logins"
        BY <2>2, <3>1 DEF Detect, SniffsTables
      <4>2. ParsedTables("firefox_logins", f) = IF f.drift THEN None ELSE {"login"}
        BY <3>1 DEF SniffsAsLogins, ParsedTables, ParseLogins
      <4>3. ArtifactKind["firefox_logins"] = "login"
        BY DEF ArtifactKind
      <4>4. {"login"} # None
        BY NoneIsNoAnswer DEF Tables
      <4> QED
        BY <4>1, <4>2, <4>3, <4>4
    <3>2. CASE ~SniffsAsLogins(f)
      <4>1. SniffsTables(f) /\ i.type = SniffTables(f.has)
        BY <2>2, <3>2 DEF Detect
      <4>2. i.type \in DatabaseTypes /\ Query(i.type).from \subseteq f.has
        BY <2>2, <4>1, TablesAreSelected
      <4>3. ~f.drift => Selects(i.type, f)
        BY <4>1, <4>2 DEF Selects, SniffsTables
      <4> QED
        BY <2>1, <4>2, <4>3, DatabasesAreRead
    <3> QED
      BY <3>1, <3>2
  <2>4. IsOutcome(i) /\ i.filled # None
    BY <2>1, NoneIsNoAnswer DEF ItemsInv
  <2> QED
    BY <2>3, <2>4 DEF IsOutcome
<1> QED
  BY <1>1, ItemsSpec, PTL

\* An item marked parsed has rows in the table of its type, but for the two
\* types whose readers take what they cannot read for something empty
\* (parse_evidence, firefox.parse_logins, cache.scan_cache_zip).
THEOREM ParsedItemsAreRead == Spec => []ParsedIsRead
<1>1. TypeOK /\ ItemsInv => ParsedIsRead
  <2> SUFFICES ASSUME TypeOK, ItemsInv, NEW i \in items, i.status = "parsed",
                      ArtifactKind[i.type] \notin i.filled
               PROVE  \/ i.type = "cache_archive" /\ i.src.file.form # "zip"
                      \/ /\ i.type = "firefox_logins"
                         /\ i.src.file.form = "json" => "logins" \notin i.src.file.has
    BY DEF ParsedIsRead
  <2> DEFINE f == i.src.file
  <2>1. /\ i.type \in Types /\ f \in File /\ i.filled \in SUBSET Tables
    BY DEF TypeOK, Item, Source, BrowserFile
  <2>2. i.filled = ParsedTables(i.type, f) /\ i.filled # None
    BY <2>1, NoneIsNoAnswer DEF ItemsInv, IsOutcome
  <2> HIDE DEF f
  <2>3. i.type \notin DatabaseTypes
    BY <2>1, <2>2, DatabasesAreRead
  <2>4. CASE i.type = "cache_archive"
    <3>1. ArtifactKind["cache_archive"] = "cache"
      BY DEF ArtifactKind
    <3>2. f.form # "zip"
      BY <2>2, <2>4, <3>1 DEF ParsedTables, ScanCacheZip
    <3> QED
      BY <2>4, <3>2 DEF f
  <2>5. CASE i.type = "firefox_logins"
    <3>1. ArtifactKind["firefox_logins"] = "login"
      BY DEF ArtifactKind
    <3>2. ParsedTables("firefox_logins", f) = ParseLogins(f)
      BY DEF ParsedTables
    <3>3. f.form = "json" => "logins" \notin f.has
      BY <2>2, <2>5, <3>1, <3>2 DEF ParseLogins
    <3> QED
      BY <2>5, <3>3 DEF f
  <2>6. CASE i.type = "other"
    BY <2>2, <2>6 DEF ParsedTables
  <2> QED
    BY <2>1, <2>3, <2>4, <2>5, <2>6 DEF DatabaseTypes
<1> QED
  BY <1>1, ItemsSpec, PTL

-----------------------------------------------------------------------------
(* Every profile is taken *)

\* Of the files of a browser the scan has what the search for it finds, if that
\* did not raise, whatever the other searches did.
LEMMA SearchesCount ==
  ASSUME NEW d, NEW failed
  PROVE  /\ "chromium" \notin failed =>
              \A p : IsChromium(p) =>
                (p \in DetectAll(d, failed) <=> p \in DetectChromiumFamily(d, failed))
         /\ "firefox" \notin failed =>
              \A p : p.app = "Firefox" => (p \in DetectAll(d, failed) <=> p \in DetectFirefox(d))
         /\ "safari" \notin failed =>
              \A p : p.app = "Safari" => (p \in DetectAll(d, failed) <=> p \in DetectSafari(d))
<1> DEFINE Found(n) == CASE n = "chromium" -> DetectChromiumFamily(d, failed)
                         [] n = "firefox"  -> DetectFirefox(d)
                         [] n = "safari"   -> DetectSafari(d)
<1>1. DetectAll(d, failed) = UNION {Found(n) : n \in Searches \ failed}
  BY DEF DetectAll
<1>2. /\ Found("chromium") = DetectChromiumFamily(d, failed)
      /\ Found("firefox") = DetectFirefox(d)
      /\ Found("safari") = DetectSafari(d)
  OBVIOUS
<1>3. /\ \A p \in DetectChromiumFamily(d, failed) : IsChromium(p)
      /\ \A p \in DetectFirefox(d) : p.app = "Firefox"
      /\ \A p \in DetectSafari(d) : p.app = "Safari"
  BY DEF DetectChromiumFamily, DetectFirefox, DetectSafari
<1>4. \A p : IsChromium(p) => p.app # "Firefox" /\ p.app # "Safari"
  BY DEF IsChromium
<1> HIDE DEF Found
<1>5. \A p : p \in DetectAll(d, failed) <=> \E m \in Searches \ failed : p \in Found(m)
  BY <1>1
<1>6. /\ "chromium" \in Searches /\ "firefox" \in Searches /\ "safari" \in Searches
      /\ \A m \in Searches : m = "chromium" \/ m = "firefox" \/ m = "safari"
  BY DEF Searches
<1>7. ASSUME "chromium" \notin failed, NEW p, IsChromium(p)
      PROVE  p \in DetectAll(d, failed) <=> p \in DetectChromiumFamily(d, failed)
  BY <1>2, <1>3, <1>4, <1>5, <1>6, <1>7
<1>8. ASSUME "firefox" \notin failed, NEW p, p.app = "Firefox"
      PROVE  p \in DetectAll(d, failed) <=> p \in DetectFirefox(d)
  BY <1>2, <1>3, <1>4, <1>5, <1>6, <1>8
<1>9. ASSUME "safari" \notin failed, NEW p, p.app = "Safari"
      PROVE  p \in DetectAll(d, failed) <=> p \in DetectSafari(d)
  <2>1. p.app # "Firefox"
    BY <1>9
  <2> QED
    BY <1>2, <1>3, <1>4, <1>5, <1>6, <1>9, <2>1
<1> QED
  BY <1>7, <1>8, <1>9

LEMMA KindsDiffer == 1 # 2 /\ 1 # 3 /\ 2 # 3 /\ 0 # 3
OBVIOUS

\* Two candidates of a kind without an extension have the same name.
LEMMA KindNames ==
  ASSUME NEW f, NEW g, f.ext = "", g.ext = "", KindOf(f) # 0, KindOf(f) = KindOf(g)
  PROVE  /\ Named(f, g.stem, g.ext)
         /\ KindOf(f) = 3 <=> Named(f, "cookies", "")
<1>1. \A h : h.ext = "" => /\ h.stem = "history" => KindOf(h) = 1
                           /\ h.stem = "login data" => KindOf(h) = 2
                           /\ h.stem = "cookies" => KindOf(h) = 3
                           /\ h.stem \notin {"history", "login data", "cookies"}
                                => KindOf(h) = 0
  BY DEF KindOf, Named
<1>2. 1 # 2 /\ 1 # 3 /\ 2 # 3 /\ 0 # 3
  BY KindsDiffer, Zenon
<1>3. f.stem = g.stem
  <2>1. f.stem \in {"history", "login data", "cookies"}
    BY <1>1
  <2>2. g.stem \in {"history", "login data", "cookies"}
    BY <1>1
  <2>3. CASE KindOf(f) = 1
    BY <1>1, <1>2, <2>1, <2>2, <2>3, Zenon
  <2>4. CASE KindOf(f) = 2
    BY <1>1, <1>2, <2>1, <2>2, <2>4, Zenon
  <2>5. CASE KindOf(f) = 3
    BY <1>1, <1>2, <2>1, <2>2, <2>5, Zenon
  <2> QED
    BY <1>1, <2>1, <2>3, <2>4, <2>5
<1>4. KindOf(f) = 3 <=> f.stem = "cookies"
  BY <1>1, <1>2, Zenon
<1> QED
  BY <1>3, <1>4 DEF Named

\* In the profile of a file that is there is one candidate of its kind.
LEMMA OneCandidate ==
  ASSUME NEW d, NEW failed, IsMachine(d), NEW p \in d, IsChromium(p), InProfile(p),
         p.app \notin failed,
         KindOf(p.file) # 0, p.file.ext = "", p.net => KindOf(p.file) = 3,
         p.net \in BOOLEAN, \A q \in d : q.net \in BOOLEAN
  PROVE  \E x : \A q : q = x <=> /\ q \in DetectChromiumFamily(d, failed)
                                /\ SameProfile(p, q) /\ KindOf(p.file) = KindOf(q.file)
<1>1. \A q \in d : SameProfile(p, q) => IsChromium(q) /\ InProfile(q) /\ q.app \notin failed
  BY DEF SameProfile, IsChromium, InProfile
<1>2. \A q \in DetectChromiumFamily(d, failed) :
        /\ q \in d /\ q.file.ext = ""
        /\ q.net => /\ KindOf(q.file) = 3
                    /\ ~\E r \in d : SameProfile(q, r) /\ ~r.net /\ Named(r.file, "cookies", "")
  BY DEF DetectChromiumFamily, IsCandidate
\* Of the two places of a file of that kind, only one has candidates.
<1>3. ASSUME NEW x \in DetectChromiumFamily(d, failed), SameProfile(p, x),
             KindOf(p.file) = KindOf(x.file),
             NEW q \in DetectChromiumFamily(d, failed), SameProfile(p, q),
             KindOf(p.file) = KindOf(q.file)
      PROVE  q = x
  <2>1. q \in d /\ x \in d /\ SameProfile(q, x) /\ SameProfile(x, q)
    BY <1>2, <1>3 DEF SameProfile
  <2>2. /\ Named(q.file, x.file.stem, x.file.ext)
        /\ KindOf(q.file) = 3 <=> Named(q.file, "cookies", "")
        /\ KindOf(x.file) = 3 <=> Named(x.file, "cookies", "")
    BY <1>2, <1>3, KindNames
  <2>3. q.net = x.net
    BY <1>2, <1>3, <2>1, <2>2
  <2> QED
    BY <2>1, <2>2, <2>3 DEF IsMachine
<1>4. \E x \in DetectChromiumFamily(d, failed) : SameProfile(p, x) /\ KindOf(p.file) = KindOf(x.file)
  <2>1. CASE \E r \in d : SameProfile(p, r) /\ ~r.net /\ Named(r.file, "cookies", "")
             /\ KindOf(p.file) = 3
    <3>1. PICK r \in d : /\ SameProfile(p, r) /\ ~r.net /\ Named(r.file, "cookies", "")
                         /\ KindOf(p.file) = 3
      BY <2>1
    <3>2. KindOf(r.file) = 3 /\ r.file.ext = ""
      BY <3>1 DEF KindOf, Named
    <3>3. r \in DetectChromiumFamily(d, failed)
      BY <1>1, <3>1, <3>2 DEF DetectChromiumFamily, IsCandidate
    <3> QED
      BY <3>1, <3>2, <3>3
  <2>2. CASE ~\E r \in d : /\ SameProfile(p, r) /\ ~r.net /\ Named(r.file, "cookies", "")
                           /\ KindOf(p.file) = 3
    <3>1. p \in DetectChromiumFamily(d, failed)
      BY <2>2 DEF DetectChromiumFamily, IsCandidate
    <3> QED
      BY <3>1 DEF SameProfile
  <2> QED
    BY <2>1, <2>2
<1> QED
  BY <1>3, <1>4

\* The names of the files of Firefox tell their kinds.
LEMMA FirefoxNames ==
  ASSUME NEW f, NEW g, f.ext # "", g.ext # "", KindOf(f) # 0, KindOf(f) = KindOf(g)
  PROVE  Named(f, g.stem, g.ext)
<1>1. \A h : h.ext # "" => /\ Named(h, "places", ".sqlite") => KindOf(h) = 1
                           /\ Named(h, "logins", ".json") => KindOf(h) = 2
                           /\ Named(h, "cookies", ".sqlite") => KindOf(h) = 3
                           /\ \/ Named(h, "places", ".sqlite") \/ Named(h, "logins", ".json")
                              \/ Named(h, "cookies", ".sqlite")
                              \/ KindOf(h) = 0
  BY DEF KindOf, Named
<1>2. 1 # 2 /\ 1 # 3 /\ 2 # 3
  BY KindsDiffer, Zenon
<1>3. /\ Named(f, "places", ".sqlite") \/ Named(f, "logins", ".json") \/ Named(f, "cookies", ".sqlite")
      /\ Named(g, "places", ".sqlite") \/ Named(g, "logins", ".json") \/ Named(g, "cookies", ".sqlite")
  BY <1>1
<1>4. \/ Named(f, "places", ".sqlite") /\ Named(g, "places", ".sqlite")
      \/ Named(f, "logins", ".json") /\ Named(g, "logins", ".json")
      \/ Named(f, "cookies", ".sqlite") /\ Named(g, "cookies", ".sqlite")
  BY <1>1, <1>2, <1>3, Zenon
<1> QED
  BY <1>4 DEF Named

LEMMA StepScan == ScanInv /\ [Next]_vars => ScanInv'
<1> SUFFICES ASSUME ScanInv, [Next]_vars PROVE ScanInv'
  OBVIOUS
<1>1. ASSUME asked' = asked PROVE ScanInv'
  BY <1>1 DEF ScanInv
<1>2. CASE UploadBegin
  <2>1. asked'.disk = {}
    BY <1>2 DEF UploadBegin, Begin
  <2> QED
    BY <2>1 DEF ScanInv, IsMachine
<1>3. CASE ScanBegin
  <2>1. PICK d \in SUBSET Disk, failed \in SUBSET Failing :
          IsMachine(d) /\ Begin(DetectAll(d, failed), None, d, failed)
    BY <1>3 DEF ScanBegin
  <2>2. asked'.disk = d /\ asked'.failed = failed /\ asked'.todo = DetectAll(d, failed)
    BY <2>1 DEF Begin
  <2> QED
    BY <2>1, <2>2 DEF ScanInv
<1>4. ~UploadBegin /\ ~ScanBegin => asked' = asked
  BY DEF Next, vars, request, Commit, Checkpoint, Blocked, Copy, Unreadable, Refused, Record,
         ParseNew, Finish, Reparse, Delete, DeleteCase
<1> QED
  BY <1>1, <1>2, <1>3, <1>4

\* Of every profile that could be looked at the scan takes each kind of file that
\* is there, once, wherever its Cookies are, whatever else could not be looked at
\* (detect_chromium_family, detect_firefox, detect_safari, detect_all).
THEOREM ProfilesAreScanned == Spec => []ProfilesAreTaken
<1>1. Init => TypeOK /\ ScanInv
  BY InitTypes DEF Init, ScanInv, IsMachine
<1>2. TypeOK /\ ScanInv => ProfilesAreTaken
  <2> SUFFICES ASSUME TypeOK, ScanInv, NEW p \in asked.disk, CouldLook(p), IsArtifact(p)
               PROVE  Cardinality({q \in asked.todo :
                         SameProfile(p, q) /\ KindOf(p.file) = KindOf(q.file)}) = 1
    BY DEF ProfilesAreTaken
  <2> DEFINE d == asked.disk
             failed == asked.failed
             todo == asked.todo
             taken == {q \in todo : SameProfile(p, q) /\ KindOf(p.file) = KindOf(q.file)}
  <2>1. todo = DetectAll(d, failed) /\ IsMachine(d) /\ p \in d
    BY DEF ScanInv
  <2>2. \A q \in d : q.net \in BOOLEAN
    BY IntakeAssumption DEF TypeOK, Request, BrowserFile
  <2>3. p.app \in {"Chrome", "Edge", "Brave", "Opera", "Firefox", "Safari"}
    BY IntakeAssumption DEF TypeOK, Request, BrowserFile
  <2>4. CouldLook(p) => /\ IsChromium(p) => "chromium" \notin failed /\ p.app \notin failed
                        /\ p.app = "Firefox" => "firefox" \notin failed
                        /\ p.app = "Safari" => "safari" \notin failed
    BY <2>3 DEF CouldLook, IsChromium
  <2>5. /\ IsChromium(p) => /\ InProfile(p) /\ KindOf(p.file) # 0 /\ p.file.ext = ""
                            /\ p.net => KindOf(p.file) = 3
        /\ p.app = "Firefox" => /\ p.dir \in Listed /\ ~p.net
                                /\ KindOf(p.file) # 0 /\ p.file.ext # ""
        /\ p.app = "Safari" => Mac /\ p.dir = "" /\ ~p.net /\ Named(p.file, "history", ".db")
    BY <2>3 DEF IsArtifact, IsChromium
  <2> HIDE DEF d, failed, todo
  <2>6. CASE IsChromium(p)
    <3>0. /\ InProfile(p) /\ p.app \notin failed /\ KindOf(p.file) # 0 /\ p.file.ext = ""
          /\ p.net => KindOf(p.file) = 3
          /\ p.net \in BOOLEAN /\ p \in d /\ IsMachine(d)
      BY <2>1, <2>2, <2>4, <2>5, <2>6
    <3>1. PICK x : \A q : q = x <=> /\ q \in DetectChromiumFamily(d, failed)
                                   /\ SameProfile(p, q) /\ KindOf(p.file) = KindOf(q.file)
      BY <2>2, <2>6, <3>0, OneCandidate, ZenonT(60)
    <3>2. \A q : SameProfile(p, q) => IsChromium(q)
      BY <2>6 DEF SameProfile, IsChromium
    <3>3. \A q : IsChromium(q) => (q \in todo <=> q \in DetectChromiumFamily(d, failed))
      BY <2>1, <2>4, <2>6, SearchesCount
    <3>4. taken = {x}
      BY <3>1, <3>2, <3>3
    <3> QED
      BY <3>4, FS_Singleton DEF todo
  <2>7. CASE p.app = "Firefox"
    <3>1. \A q : q.app = "Firefox" => (q \in todo <=> q \in DetectFirefox(d))
      BY <2>1, <2>4, <2>7, SearchesCount
    <3>2. p \in taken
      BY <2>1, <2>5, <2>7, <3>1 DEF DetectFirefox, SameProfile
    <3>3. ASSUME NEW q \in taken PROVE q = p
      <4>1. q \in DetectFirefox(d) /\ SameProfile(p, q) /\ KindOf(p.file) = KindOf(q.file)
        BY <2>7, <3>1 DEF SameProfile
      <4>2. q \in d /\ ~q.net /\ q.file.ext # ""
        BY <4>1 DEF DetectFirefox
      <4>3. Named(p.file, q.file.stem, q.file.ext)
        BY <2>5, <2>7, <4>1, <4>2, FirefoxNames
      <4>4. p.net = q.net
        BY <2>1, <2>2, <2>5, <2>7, <4>2
      <4> QED
        BY <2>1, <4>1, <4>2, <4>3, <4>4 DEF IsMachine
    <3>4. taken = {p}
      BY <3>2, <3>3
    <3> QED
      BY <3>4, FS_Singleton DEF todo
  <2>8. CASE p.app = "Safari"
    <3>1. \A q : q.app = "Safari" => (q \in todo <=> q \in DetectSafari(d))
      BY <2>1, <2>4, <2>8, SearchesCount
    <3>2. p \in taken
      BY <2>1, <2>5, <2>8, <3>1 DEF DetectSafari, SameProfile
    <3>3. ASSUME NEW q \in taken PROVE q = p
      <4>1. q \in DetectSafari(d) /\ SameProfile(p, q)
        BY <2>8, <3>1 DEF SameProfile
      <4>2. q \in d /\ ~q.net /\ Named(q.file, "history", ".db")
        BY <4>1 DEF DetectSafari
      <4>3. Named(p.file, q.file.stem, q.file.ext)
        BY <2>5, <2>8, <4>2 DEF Named
      <4>4. p.net = q.net
        BY <2>1, <2>2, <2>5, <2>8, <4>2
      <4> QED
        BY <2>1, <4>1, <4>2, <4>3, <4>4 DEF IsMachine
    <3>4. taken = {p}
      BY <3>2, <3>3
    <3> QED
      BY <3>4, FS_Singleton DEF todo
  <2> QED
    BY <2>3, <2>6, <2>7, <2>8 DEF IsChromium
<1> QED
  BY <1>1, <1>2, StepTypes, StepScan, PTL DEF Spec

=============================================================================
