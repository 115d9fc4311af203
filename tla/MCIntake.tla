------------------------------ MODULE MCIntake ------------------------------
(* Files under right and wrong names with the tables of one or two browsers, *)
(* and a machine with the profiles of five of them.                          *)
EXTENDS Intake

Plain(stem, ext, form, has) ==
  [stem |-> stem, ext |-> ext, form |-> form, has |-> has, drift |-> FALSE,
   journal |-> FALSE, size |-> "fits"]
Db(stem, ext, has) == Plain(stem, ext, "sqlite", has)

Stems == {"history", "places", "cookies", "logins", "login data", "export"}
Exts  == {"", ".sqlite", ".db", ".json", ".zip"}

\* What each browser writes, and databases that are only half of one.
Native == {{}, {"urls", "visits"}, {"urls", "visits", "downloads"}, {"urls"}, {"downloads"},
           {"history_items", "history_visits"}, {"history_items"}, {"moz_places"},
           {"moz_cookies"}, {"logins"}, {"cookies"}}

Databases == {Db(stem, ext, n \cup m) : stem \in Stems, ext \in Exts, n \in Native, m \in Native}
Texts     == {Plain(stem, ext, form, has) : stem \in Stems, ext \in Exts,
                 form \in {"json", "list", "zip", "other"}, has \in {{}, {"logins"}}}

History == Db("history", "", {"urls", "visits", "downloads"})
Places  == [Db("places", ".sqlite", {"moz_places"}) EXCEPT !.journal = TRUE]
Safari  == [Db("history", ".db", {"history_items", "history_visits"}) EXCEPT !.journal = TRUE]
Export  == Plain("export", "", "zip", {})

Logins  == Plain("logins", ".json", "json", {"logins"})

\* A column is missing, or the logins are no list; the database is in WAL mode; no byte, or too many.
Variants == {[f EXCEPT !.drift = TRUE] :
                 f \in {History, Places, Safari, Logins, [Logins EXCEPT !.stem = "export"]}}
  \cup {Places, Safari, [Places EXCEPT !.stem = "export"], [Safari EXCEPT !.ext = ".sqlite"]}
  \cup {[f EXCEPT !.size = sz] : f \in {History, Export}, sz \in {"empty", "huge"}}

MCBatches == {{f} : f \in Databases \cup Texts \cup Variants}
  \cup {{f, g} : f, g \in {History, Safari, Export, [Places EXCEPT !.ext = ".db"]}}

At(app, dir, f) == [app |-> app, dir |-> dir, net |-> FALSE, file |-> f]
Cookies == Db("cookies", "", {"cookies"})

MCDisk == {At("Chrome", "Default", History),
           At("Chrome", "Default", Cookies),
           [At("Chrome", "Default", Cookies) EXCEPT !.net = TRUE],
           At("Chrome", "System Profile", Db("login data", "", {"logins"})),
           At("Opera", "", Db("login data", "", {"logins"})),
           At("Firefox", "default-release", Places),
           At("Firefox", "left", Db("cookies", ".sqlite", {"moz_cookies"})),
           At("Safari", "", Safari)}

MCPlans == {[readOnly |-> FALSE, localScan |-> TRUE, max |-> 2],
            [readOnly |-> FALSE, localScan |-> FALSE, max |-> 0],
            [readOnly |-> FALSE, localScan |-> FALSE, max |-> 1],
            [readOnly |-> TRUE, localScan |-> TRUE, max |-> 1]}

=============================================================================
