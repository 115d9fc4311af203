----------------------------- MODULE Artifacts -----------------------------
(* Files that browsers leave behind: what the suite takes a file for, which  *)
(* types of evidence a name may be uploaded under, and what the parser of a  *)
(* type makes of a file.  No state: Intake uses these operators.             *)
(*                                                                           *)
(* A file is its name (stem and extension, in lower case) and what the       *)
(* readers tell apart of its content: the tables of an SQLite database, the  *)
(* keys of a JSON object, a zip, anything else.                              *)
EXTENDS Integers

CONSTANT None  \* no answer

\* drift: a table lacks a column its parser selects, or the logins of a JSON
\* object are no list of objects; journal: the browser keeps
\* what it commits in a -wal file beside this one until it checkpoints.
File == [stem : STRING, ext : STRING, form : {"sqlite", "json", "list", "zip", "other"},
         has : SUBSET STRING, drift : BOOLEAN, journal : BOOLEAN,
         size : {"empty", "fits", "huge"}]

\* EvidenceItem.EvidenceType.
Types == {"chromium_history", "chromium_logins", "chromium_cookies", "chromium_downloads",
          "firefox_history", "firefox_logins", "firefox_cookies", "safari_history",
          "cache_archive", "other"}

\* EvidenceItem.artifact_kind: the table an item's rows are looked for in.
ArtifactKind == [chromium_history |-> "history", firefox_history |-> "history",
                 safari_history |-> "history", chromium_logins |-> "login",
                 firefox_logins |-> "login", chromium_cookies |-> "cookie",
                 firefox_cookies |-> "cookie", chromium_downloads |-> "download",
                 cache_archive |-> "cache", other |-> None]

\* The tables for the rows of the parsers.
Tables == {"history", "login", "cookie", "download", "cache"}

\* It is no answer: neither a type nor a set of tables.
ASSUME NoneIsNoAnswer == None \notin Types /\ \A tables \in SUBSET Tables : tables # None

-----------------------------------------------------------------------------
(* detect_evidence_type *)

Named(f, stem, ext) == f.stem = stem /\ f.ext = ext

\* (mutant) Safari's History.db counts as a Chromium name too
NameHintOrDb(f) ==
  CASE f.ext = ".zip"                   -> "cache_archive"
    [] Named(f, "places", ".sqlite")    -> "firefox_history"
    [] Named(f, "cookies", ".sqlite")   -> "firefox_cookies"
    [] Named(f, "logins", ".json")      -> "firefox_logins"
    [] Named(f, "history", ".db")       -> "chromium_history"
    [] f.stem = "login data" /\ f.ext \in {"", ".db", ".sqlite"} -> "chromium_logins"
    [] Named(f, "cookies", "")          -> "chromium_cookies"
    [] OTHER                            -> None

\* The names that settle the type, whatever the file holds.
NameHint(f) ==
  CASE f.ext = ".zip"                   -> "cache_archive"
    [] Named(f, "places", ".sqlite")    -> "firefox_history"
    [] Named(f, "cookies", ".sqlite")   -> "firefox_cookies"
    [] Named(f, "logins", ".json")      -> "firefox_logins"
    [] f.stem = "login data" /\ f.ext \in {"", ".db", ".sqlite"} -> "chromium_logins"
    [] Named(f, "cookies", "")          -> "chromium_cookies"
    [] OTHER                            -> None

\* Any JSON object with logins, if the name allows it.
SniffsAsLogins(f) == f.ext \in {"", ".json"} /\ f.form = "json" /\ "logins" \in f.has

\* (mutant) a Safari database is known by half of its tables
SignaturesLoose == <<
  [tables |-> {"urls", "visits"},                  type |-> "chromium_history"],
  [tables |-> {"history_items"},                   type |-> "safari_history"],
  [tables |-> {"moz_places"},                      type |-> "firefox_history"],
  [tables |-> {"moz_cookies"},                     type |-> "firefox_cookies"],
  [tables |-> {"logins"},                          type |-> "chromium_logins"],
  [tables |-> {"cookies"},                         type |-> "chromium_cookies"] >>

\* The tables a database is known by, in the order they are tried.
Signatures == <<
  [tables |-> {"urls", "visits"},                  type |-> "chromium_history"],
  [tables |-> {"history_items", "history_visits"}, type |-> "safari_history"],
  [tables |-> {"moz_places"},                      type |-> "firefox_history"],
  [tables |-> {"moz_cookies"},                     type |-> "firefox_cookies"],
  [tables |-> {"logins"},                          type |-> "chromium_logins"],
  [tables |-> {"cookies"},                         type |-> "chromium_cookies"] >>

SniffTables(tables) ==
  LET hits == {n \in DOMAIN Signatures : Signatures[n].tables \subseteq tables}
  IN  IF hits = {} THEN None
      ELSE Signatures[CHOOSE n \in hits : \A m \in hits : n <= m].type

\* The file gets as far as having its tables listed.
SniffsTables(f) == NameHint(f) = None /\ ~SniffsAsLogins(f) /\ f.form = "sqlite"

Detect(f) == CASE NameHint(f) # None                         -> NameHint(f)
               [] NameHint(f) = None /\ SniffsAsLogins(f)    -> "firefox_logins"
               [] SniffsTables(f)                            -> SniffTables(f.has)
               [] OTHER                                      -> None

-----------------------------------------------------------------------------
(* EvidenceUploadForm *)

Expectations == [firefox_history |-> ".sqlite", firefox_cookies |-> ".sqlite",
                 firefox_logins |-> ".json", safari_history |-> ".db",
                 cache_archive |-> ".zip"]

FormAccepts(type, f) == /\ f.size = "fits"
                        /\ type \in DOMAIN Expectations => f.ext = Expectations[type]

-----------------------------------------------------------------------------
(* The parsers, as parse_evidence calls them *)

\* The tables each parser of a database selects from, and the one it feeds.
ChromiumQueries == [chromium_history   |-> [from |-> {"urls"},      into |-> "history"],
                    chromium_logins    |-> [from |-> {"logins"},    into |-> "login"],
                    chromium_cookies   |-> [from |-> {"cookies"},   into |-> "cookie"],
                    chromium_downloads |-> [from |-> {"downloads"}, into |-> "download"]]
FirefoxQueries  == [firefox_history |-> [from |-> {"moz_places"},  into |-> "history"],
                    firefox_cookies |-> [from |-> {"moz_cookies"}, into |-> "cookie"]]
SafariQueries   == [safari_history |-> [from |-> {"history_visits", "history_items"},
                                        into |-> "history"]]

Query(type) == CASE type \in DOMAIN ChromiumQueries -> ChromiumQueries[type]
                 [] type \in DOMAIN FirefoxQueries  -> FirefoxQueries[type]
                 [] type \in DOMAIN SafariQueries   -> SafariQueries[type]

Selects(type, f) == f.form = "sqlite" /\ ~f.drift /\ Query(type).from \subseteq f.has

\* The downloads of a Chromium History file; that there are none is no error.
Extra(type, f) == IF type = "chromium_history" /\ "downloads" \in f.has THEN {"download"} ELSE {}

\* (mutant) a missing table is no error, as it is none for the downloads
QueryTablesOrNone(type, f) ==
  IF f.form = "sqlite" /\ ~f.drift
    THEN {into \in {Query(type).into} : Selects(type, f)} \cup Extra(type, f) ELSE None

QueryTables(type, f) == IF Selects(type, f) THEN {Query(type).into} \cup Extra(type, f) ELSE None

\* Unreadable JSON counts as no logins; a list has no get and raises, and so do
\* logins of another shape.
ParseLogins(f) == CASE f.form = "list"                       -> None
                    [] f.form = "json" /\ "logins" \in f.has -> IF f.drift THEN None ELSE {"login"}
                    [] OTHER                                 -> {}

\* A file that is not a zip counts as an empty archive.
ScanCacheZip(f) == IF f.form = "zip" THEN {"cache"} ELSE {}

\* The artifact tables that rows of the file go to, or None if the parse fails.
ParsedTables(type, f) == CASE type = "cache_archive"  -> ScanCacheZip(f)
                           [] type = "firefox_logins" -> ParseLogins(f)
                           [] type = "other"          -> None
                           [] OTHER                   -> QueryTables(type, f)

-----------------------------------------------------------------------------
(* The reference: the files browsers write (README.md:263-267) *)

Natural == {
  [stem |-> "history",    ext |-> "",        form |-> "sqlite", has |-> {"urls", "visits"},
   type |-> "chromium_history", kind |-> "history"],
  [stem |-> "login data", ext |-> "",        form |-> "sqlite", has |-> {"logins"},
   type |-> "chromium_logins",  kind |-> "login"],
  [stem |-> "cookies",    ext |-> "",        form |-> "sqlite", has |-> {"cookies"},
   type |-> "chromium_cookies", kind |-> "cookie"],
  [stem |-> "places",     ext |-> ".sqlite", form |-> "sqlite", has |-> {"moz_places"},
   type |-> "firefox_history",  kind |-> "history"],
  [stem |-> "logins",     ext |-> ".json",   form |-> "json",   has |-> {"logins"},
   type |-> "firefox_logins",   kind |-> "login"],
  [stem |-> "cookies",    ext |-> ".sqlite", form |-> "sqlite", has |-> {"moz_cookies"},
   type |-> "firefox_cookies",  kind |-> "cookie"],
  [stem |-> "history",    ext |-> ".db",     form |-> "sqlite",
   has |-> {"history_items", "history_visits"},
   type |-> "safari_history",   kind |-> "history"]}

\* Tables that only one browser's files have.
Foreign(r) == {"urls", "history_items", "moz_places", "moz_cookies"} \ r.has

\* f is a file as row r of the table says, with tables of no other browser.
IsNatural(f, r) == /\ Named(f, r.stem, r.ext) /\ f.form = r.form /\ f.size = "fits"
                   /\ r.has \subseteq f.has /\ f.has \cap Foreign(r) = {}

=============================================================================
