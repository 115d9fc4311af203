--------------------------- MODULE AccountsProofs ---------------------------
(* Proofs about Accounts and the launcher beneath it, for any number of      *)
(* copies, threads, names and organizations.                                 *)
EXTENDS Accounts, TLAPS

-----------------------------------------------------------------------------
(* The inductive invariants *)

\* The type invariant, without the marks of the history.
CopiesOK == /\ keyFile \in Secrets \cup {"", None}
            /\ plans \subseteq PlanKeys
            /\ app \in [Copies -> AppRow]

RowsOK == /\ CopiesOK
          /\ user \in [Names -> UserRow \cup {None}]
          /\ org \in [OrgIds -> OrgRow \cup {None}]
          /\ session \in [Names -> Session \cup {None}]
          /\ req \in [Threads -> {Idle} \cup MakeJob \cup PatchJob \cup PassJob]
          /\ chosen \in [Names -> 0..Changes]
          /\ raced \subseteq Names

\* What is true of a copy at any place: it has a key, perhaps an empty one; its
\* server was started after the bootstrap; the seeding loop is at a plan.
CopiesAreSet ==
  \A c \in Copies : /\ app[c].at # "off" => app[c].key # None
                    /\ app[c].server # "none" => app[c].at = "window"
                    /\ app[c].at = "seed" => app[c].next \in DOMAIN PlanDefs

\* The statements of a signup, and those between which the user has no
\* organization of its own yet.
MakeSteps == {"user", "profile", "plan", "org", "link", "login"}
Half  == {"profile", "plan", "org", "link"}

IsMaking(t) == req[t].at \in Half \cup {"login"}
ByAdmin(r)  == r.at \in MakeSteps /\ r.super

\* A request r is served by a copy that is there to serve it, for a user who is
\* there, with what it has read; a and u stand for app and user.
Attended(r, a, u) ==
  /\ IF ByAdmin(r) THEN a[r.copy].at = "admin" ELSE a[r.copy].server = "up"
  /\ r.at # "user" => u[r.name] # None
  /\ r.at = "org" => r.plan \in PlanKeys
  /\ r.at = "link" => r.org \in OrgIds
  /\ r.at = "login" => ~r.super
  /\ r.at \in {"pass", "hash"} => a[r.copy].key \in Secrets

\* A superuser is made on a copy of its own.
RequestsAreServed ==
  /\ \A t \in Threads : req[t] # Idle => Attended(req[t], app, user)
  /\ \A s, t \in Threads : s # t /\ req[s] # Idle /\ req[t] # Idle /\ ByAdmin(req[t])
       => req[s].copy # req[t].copy

SessionsHaveUsers == \A n \in Names : session[n] # None => user[n] # None

ShapeInv == RowsOK /\ CopiesAreSet /\ RequestsAreServed /\ SessionsHaveUsers

\* A name is made by one request, which has not made its organization before it
\* is past that statement; nobody else owns one.
MakersAreOne ==
  /\ \A s, t \in Threads : IsMaking(s) /\ IsMaking(t) /\ req[s].name = req[t].name => s = t
  /\ \A t \in Threads, i \in OrgIds :
       req[t].at \in {"profile", "plan", "org"} /\ org[i] # None => org[i].owner # req[t].name
  /\ \A i \in OrgIds : org[i] # None => user[org[i].owner] # None

OneOrgInv == MakersAreOne /\ OneOrgEach

\* A profile edit that was not overtaken by a change of the password holds the
\* password that is in the row.
EditsAreFresh ==
  \A t \in Threads : req[t].at = "patch" /\ req[t].name \notin raced =>
    req[t].password = user[req[t].name].password

PasswordInv == /\ EditsAreFresh
               /\ PasswordStands
               /\ \A n \in Names : user[n] = None => chosen[n] = 0

\* The rows and files, and what the copies and requests are at, are well-formed;
\* so are the marks of the history of launches and accounts.
MarksOK == /\ met \in [Copies -> SUBSET {"key", "plans", "port"}]
           /\ rival \in BOOLEAN
           /\ broken \subseteq {"write", "seed"}
           /\ spoilt \subseteq Names
           /\ skimped \subseteq OrgIds

\* A server that is starting finds its port free and to itself, but for those
\* that were probed together.
PortInv ==
  /\ \A c \in Copies : app[c].server = "starting" /\ "port" \notin met[c] =>
       /\ ~Listening(app[c].port)
       /\ \A d \in Copies \ {c} : app[d].server = "starting" => app[d].port # app[c].port
  /\ WindowIsServed

\* An empty key file is being written, or somebody was killed at that; who draws
\* has a key, and who is past that has a key or has met the empty file.
KeyInv ==
  /\ keyFile = "" => "write" \in broken \/ \E d \in Copies : app[d].at = "write"
  /\ \A c \in Drawn : app[c].key \in Secrets
  /\ \A c \in Copies : app[c].at \notin {"off", "draw", "write"} =>
       "key" \in met[c] \/ app[c].key \in Secrets

\* Before there is a key file nobody is past drawing and nobody is logged in.
\* Without a second draw, whoever draws finds no key in use yet, and afterwards
\* the file's is the only one.
NoKeyYet == keyFile = None => /\ \A c \in Copies : app[c].at \in {"off", "draw"}
                              /\ \A n \in Names : session[n] = None
DrawnAlone ==
  \A c \in Drawn : /\ keyFile \in {None, ""}
                   /\ \A d \in Copies \ {c} : d \notin Drawn /\ app[d].key \in {"", None}
                   /\ \A n \in Names : session[n] = None
OneKey == /\ \A c \in Copies \ Drawn : app[c].key \in {"", None, keyFile}
          /\ \A n \in Names : session[n] # None => session[n].key = keyFile

SignInv == /\ NoKeyYet
           /\ \A c \in Copies : app[c].at = "off" => app[c].key = None
           /\ ~rival => DrawnAlone /\ OneKey

\* The rows the seeding loop has written before it comes to plan i.
Seeded(i) == {PlanDefs[j] : j \in 1 .. i - 1}

\* The table of plans is empty, full, being filled, or was left half-filled; who
\* is past that has found it full or has met it half-filled.
SeedInv ==
  /\ \/ plans \in {{}, PlanKeys}
     \/ "seed" \in broken
     \/ \E d \in Copies : app[d].at = "seed"
  /\ \A c \in Copies :
       /\ app[c].at = "seed" => Seeded(app[c].next) \subseteq plans
       /\ app[c].at \in {"ready", "admin", "window"} =>
            plans # {} /\ ("plans" \in met[c] \/ plans = PlanKeys)

\* Of a request that makes an account: its user has the standing it was made
\* with, and the plan it has read goes with it.
StandingIsKept ==
  \A t \in Threads : IsMaking(t) =>
    /\ user[req[t].name].super = req[t].super
    /\ req[t].at = "org" =>
         "plans" \in met[req[t].copy] \/ (req[t].plan = "enterprise") = req[t].super

StandingInv == StandingIsKept /\ PlansByStanding

\* The organization i is there and is n's own; the user n has one.
Owns(n, i) == i \in OrgIds /\ org[i] # None /\ org[i].owner = n
IsWhole(n) == Owns(n, user[n].profile)

\* What a request has in hand when it comes to write it.
HoldsOwn(t) == /\ req[t].at = "link" => Owns(req[t].name, req[t].org)
               /\ req[t].at \in {"patch", "label"} /\ req[t].name \notin spoilt =>
                    Owns(req[t].name, req[t].row)

\* A user is whole but for the time between the statements of its signup, and so
\* is what a profile edit has read and will write back, unless the account was
\* spoilt.
WholeInv ==
  /\ \A n \in Names \ spoilt : user[n] # None => IsWhole(n) \/ InTheMaking(n)
  /\ \A t \in Threads : HoldsOwn(t)

-----------------------------------------------------------------------------
(* Copies *)

\* The record of a copy, as far as its type goes.
LEMMA CopyShape ==
  ASSUME CopiesOK, NEW c \in Copies
  PROVE  /\ app[c] \in AppRow
         /\ app[c].at \in Points
         /\ app[c].key \in Secrets \cup {"", None}
         /\ app[c].port \in Ports \cup {None}
         /\ app[c].server \in {"none", "starting", "up", "failed"}
         /\ app[c].next \in 0 .. Len(PlanDefs)
         /\ DOMAIN app[c] = {"at", "key", "port", "server", "next"}
  BY DEF CopiesOK, AppRow

LEMMA PlanKeysAre == PlanKeys = {"free", "pro", "enterprise"} /\ Len(PlanDefs) = 3
<1>1. DOMAIN PlanDefs = 1 .. 3 /\ Len(PlanDefs) = 3
  BY DEF PlanDefs
<1> QED
  BY <1>1 DEF PlanKeys, PlanDefs

\* The seeding loop: where it may be.
LEMMA SeedingLoop ==
  /\ 0 \in 0 .. Len(PlanDefs) /\ 1 \in DOMAIN PlanDefs
  /\ \A i \in DOMAIN PlanDefs : /\ i \in 0 .. Len(PlanDefs)
                               /\ PlanDefs[i] \in PlanKeys
                               /\ i < Len(PlanDefs) => i + 1 \in DOMAIN PlanDefs
<1>1. DOMAIN PlanDefs = 1 .. 3 /\ Len(PlanDefs) = 3
  BY DEF PlanDefs
<1>2. \A i \in DOMAIN PlanDefs : PlanDefs[i] \in PlanKeys
  BY DEF PlanKeys
<1> QED
  BY <1>1, <1>2

LEMMA OffIsACopy == Off \in AppRow
  BY SeedingLoop DEF Off, AppRow, Points

\* A copy that becomes r, whatever the launcher's code does to get there.
LEMMA CopyBecomes ==
  ASSUME CopiesOK, CopiesAreSet, NEW c \in Copies, NEW r \in AppRow,
         app' = [app EXCEPT ![c] = r],
         r.at # "off" => r.key # None,
         r.server # "none" => r.at = "window",
         r.at = "seed" => r.next \in DOMAIN PlanDefs,
         keyFile' \in Secrets \cup {"", None}, plans' \subseteq PlanKeys
  PROVE  /\ CopiesOK' /\ CopiesAreSet'
         /\ \A d \in Copies \ {c} : app'[d] = app[d]
         /\ app'[c] = r
<1>1. app \in [Copies -> AppRow]
  BY DEF CopiesOK
<1>2. app' \in [Copies -> AppRow] /\ app'[c] = r /\ \A d \in Copies \ {c} : app'[d] = app[d]
  BY <1>1
<1>3. CopiesOK'
  BY <1>2 DEF CopiesOK
<1>4. CopiesAreSet'
  BY <1>2 DEF CopiesAreSet
<1> QED
  BY <1>2, <1>3, <1>4

\* One step of main() or of the server thread of c: other copies do not move, a
\* server that is up stays up under its key, and at the prompt nothing moves.
LEMMA LaunchMoves ==
  ASSUME CopiesOK, CopiesAreSet, NEW c \in Copies, LaunchStep(c)
  PROVE  /\ CopiesOK' /\ CopiesAreSet'
         /\ \A d \in Copies \ {c} : app'[d] = app[d]
         /\ app[c].server = "up" => app'[c].server = "up" /\ app'[c].key = app[c].key
         /\ app[c].at # "admin"
<1> DEFINE r == app[c]
           Moved == /\ CopiesOK' /\ CopiesAreSet'
                    /\ \A d \in Copies \ {c} : app'[d] = app[d]
                    /\ r.server = "up" => app'[c].server = "up" /\ app'[c].key = r.key
                    /\ r.at # "admin"
<1>0. /\ app \in [Copies -> AppRow] /\ keyFile \in Secrets \cup {"", None}
      /\ plans \subseteq PlanKeys
      /\ Points = {"off", "admin", "draw", "write", "boot", "seed", "ready", "window"}
      /\ r \in AppRow /\ r.at \in Points /\ r.key \in Secrets \cup {"", None}
      /\ DOMAIN r = {"at", "key", "port", "server", "next"}
      /\ r.at # "off" => r.key # None
      /\ r.server # "none" => r.at = "window"
      /\ r.at = "seed" => r.next \in DOMAIN PlanDefs
      /\ AppRow = [at : Points, key : Secrets \cup {"", None}, port : Ports \cup {None},
                   server : {"none", "starting", "up", "failed"}, next : 0 .. Len(PlanDefs)]
  BY CopyShape DEF CopiesOK, Points, Booting, CopiesAreSet, AppRow
<1> SUFFICES Moved
  OBVIOUS
<1> HIDE DEF r
<1>a. ASSUME NEW n \in AppRow, app' = [app EXCEPT ![c] = n],
             n.at # "off" => n.key # None, n.server # "none" => n.at = "window",
             n.at = "seed" => n.next \in DOMAIN PlanDefs,
             keyFile' \in Secrets \cup {"", None}, plans' \subseteq PlanKeys,
             r.server = "up" => n.server = "up" /\ n.key = r.key, r.at # "admin"
      PROVE  Moved
  BY <1>a, CopyBecomes
<1>1. ASSUME NEW at \in Points, at # "seed", Go(c, at), r.server # "none" => at = "window",
             r.at # "off", r.at # "admin", keyFile' \in Secrets \cup {"", None},
             plans' \subseteq PlanKeys
      PROVE  Moved
  <2> DEFINE n == [r EXCEPT !.at = at]
  <2>1. app' = [app EXCEPT ![c] = n]
    BY <1>0, <1>1 DEF Go, r
  <2>2. n \in AppRow
    BY <1>0
  <2>3. n.at = at /\ n.key = r.key /\ n.server = r.server
    BY <1>0
  <2> HIDE DEF n
  <2> QED
    BY <1>0, <1>1, <1>a, <2>1, <2>2, <2>3
<1>2. ASSUME NEW at \in {"boot", "draw"}, NEW k \in Secrets \cup {""},
             app' = [app EXCEPT ![c].at = at, ![c].key = k], r.at = "off",
             UNCHANGED <<keyFile, plans>>
      PROVE  Moved
  <2> DEFINE n == [r EXCEPT !.at = at, !.key = k]
  <2>1. app' = [app EXCEPT ![c] = n]
    BY <1>0, <1>2 DEF r
  <2>2. n \in AppRow
    BY <1>0
  <2>3. n.at = at /\ n.key = k /\ n.server = r.server
    BY <1>0
  <2>4. k # None
    BY LaunchAssumption
  <2> HIDE DEF n
  <2> QED
    BY <1>0, <1>2, <1>a, <2>1, <2>2, <2>3, <2>4
<1>3. CASE FindKey(c) \/ DrawKey(c)
  BY <1>0, <1>2, <1>3 DEF FindKey, DrawKey, Draws, r
<1>4. CASE OpenKeyFile(c)
  BY <1>0, <1>1, <1>4 DEF OpenKeyFile, r
<1>5. CASE WriteKeyFile(c)
  BY <1>0, <1>1, <1>5 DEF WriteKeyFile, r
<1>6. ASSUME NEW at \in {"seed"}, NEW i \in DOMAIN PlanDefs,
             app' = [app EXCEPT ![c].at = at, ![c].next = i], r.at \in {"boot", "seed"},
             keyFile' = keyFile, plans' \subseteq PlanKeys
      PROVE  Moved
  <2> DEFINE n == [r EXCEPT !.at = at, !.next = i]
  <2>1. app' = [app EXCEPT ![c] = n]
    BY <1>0, <1>6 DEF r
  <2>2. n \in AppRow
    <3> DEFINE Nexts == 0 .. Len(PlanDefs)
    <3>1. i \in Nexts
      BY SeedingLoop
    <3>2. at \in Points
      BY <1>0
    <3>3. AppRow = [at : Points, key : Secrets \cup {"", None}, port : Ports \cup {None},
                    server : {"none", "starting", "up", "failed"}, next : Nexts]
      BY <1>0
    <3>4. r \in AppRow
      BY <1>0
    <3> HIDE DEF Nexts
    <3> QED
      BY <3>1, <3>2, <3>3, <3>4
  <2>3. n.at = at /\ n.key = r.key /\ n.server = r.server /\ n.next = i
    BY <1>0
  <2> HIDE DEF n
  <2> QED
    BY <1>0, <1>6, <1>a, <2>1, <2>2, <2>3
<1>7. CASE SeedCheck(c)
  <2>1. CASE app' = [app EXCEPT ![c].at = "seed", ![c].next = 1]
    BY <1>0, <1>6, <1>7, <2>1, SeedingLoop DEF SeedCheck, r
  <2> QED
    BY <1>0, <1>1, <1>7, <2>1 DEF SeedCheck, r
<1>12. CASE SeedPlan(c)
  <2>1. r.at = "seed" /\ plans' = plans \cup {PlanDefs[r.next]} /\ r.next \in DOMAIN PlanDefs
        /\ keyFile' = keyFile
    BY <1>0, <1>12 DEF SeedPlan, r
  <2>2. plans' \subseteq PlanKeys
    <3>1. PlanDefs[r.next] \in PlanKeys
      BY <2>1 DEF PlanKeys
    <3> QED
      BY <1>0, <2>1, <3>1
  <2>3. CASE r.next < Len(PlanDefs) /\ app' = [app EXCEPT ![c].next = @ + 1]
    <3>1. r.next + 1 \in DOMAIN PlanDefs
      BY <2>1, <2>3, SeedingLoop
    <3>2. app' = [app EXCEPT ![c].at = "seed", ![c].next = r.next + 1]
      BY <1>0, <2>1, <2>3 DEF r
    <3> QED
      BY <1>6, <2>1, <2>2, <3>1, <3>2
  <2>4. CASE Go(c, "ready")
    BY <1>0, <1>1, <2>1, <2>2, <2>4
  <2> QED
    BY <1>12, <2>3, <2>4 DEF SeedPlan, r
<1>8. CASE Prompt(c)
  BY <1>0, <1>1, <1>8 DEF Prompt, r
<1>9. CASE ProbePort(c)
  <2>1. PICK p \in Ports :
          app' = [app EXCEPT ![c].at = "window", ![c].port = p, ![c].server = "starting"]
    BY <1>9 DEF ProbePort
  <2> DEFINE n == [r EXCEPT !.at = "window", !.port = p, !.server = "starting"]
  <2>2. app' = [app EXCEPT ![c] = n]
    BY <1>0, <2>1 DEF r
  <2>3. n \in AppRow
    BY <1>0
  <2>4. n.at = "window" /\ n.key = r.key /\ n.server = "starting"
    BY <1>0
  <2>5. r.at = "ready" /\ UNCHANGED <<keyFile, plans>>
    BY <1>9 DEF ProbePort, r
  <2> HIDE DEF n
  <2> QED
    BY <1>0, <1>a, <2>2, <2>3, <2>4, <2>5
<1>10. CASE Serve(c)
  <2>1. PICK s \in {"failed", "up"} : app' = [app EXCEPT ![c].server = s]
    BY <1>10 DEF Serve
  <2> DEFINE n == [r EXCEPT !.server = s]
  <2>2. app' = [app EXCEPT ![c] = n]
    BY <1>0, <2>1 DEF r
  <2>3. n \in AppRow
    BY <1>0
  <2>4. n.at = r.at /\ n.key = r.key /\ n.server = s /\ n.next = r.next
    BY <1>0
  <2>5. r.server = "starting" /\ UNCHANGED <<keyFile, plans>>
    BY <1>10 DEF Serve, r
  <2> HIDE DEF n
  <2> QED
    BY <1>0, <1>a, <2>2, <2>3, <2>4, <2>5
<1> QED
  BY <1>3, <1>4, <1>5, <1>6, <1>7, <1>8, <1>9, <1>10, <1>12 DEF LaunchStep

\* The end of a copy.
LEMMA EndMoves ==
  ASSUME CopiesOK, CopiesAreSet, NEW c \in Copies, End(c), UNCHANGED <<keyFile, plans>>
  PROVE  /\ CopiesOK' /\ CopiesAreSet'
         /\ \A d \in Copies \ {c} : app'[d] = app[d]
         /\ app'[c] = Off
  BY OffIsACopy DEF End, CopiesOK, CopiesAreSet, Off

-----------------------------------------------------------------------------
(* Requests *)

Jobs == {Idle} \cup MakeJob \cup PatchJob \cup PassJob

\* The statement a request is at tells what it carries.
LEMMA JobShape ==
  ASSUME NEW r \in Jobs
  PROVE  /\ r # Idle <=> r.at # "idle"
         /\ r.at \in {"idle", "patch", "label", "pass", "hash"} \cup MakeSteps
         /\ r # Idle => r.copy \in Copies /\ r.name \in Names
         /\ r.at \in MakeSteps =>
              /\ r \in MakeJob
              /\ r.super \in BOOLEAN
              /\ r.plan \in PlanKeys \cup {None}
              /\ r.org \in OrgIds \cup {None}
         /\ r.at \in {"patch", "label"} =>
              r \in PatchJob /\ r.row \in OrgIds \cup {None} /\ r.password \in 0 .. Changes
         /\ r.at \in {"pass", "hash"} => r \in PassJob /\ r.password \in 0 .. Changes
<1>1. CASE r = Idle
  BY <1>1 DEF Idle, MakeSteps
<1>2. CASE r \in MakeJob
  BY <1>2 DEF Idle, MakeJob, MakeSteps
<1>3. CASE r \in PatchJob
  BY <1>3 DEF Idle, PatchJob, MakeSteps
<1>4. CASE r \in PassJob
  BY <1>4 DEF Idle, PassJob, MakeSteps
<1> QED
  BY <1>1, <1>2, <1>3, <1>4 DEF Jobs

\* Where a request goes from each place: to a statement of its own kind.
LEMMA JobMoves ==
  ASSUME NEW r \in Jobs, NEW at, \/ r.at \in MakeSteps /\ at \in MakeSteps
                                 \/ r.at = "patch" /\ at = "label"
                                 \/ r.at = "pass" /\ at = "hash"
  PROVE  LET m == [r EXCEPT !.at = at]
         IN  /\ m \in Jobs /\ m.at = at /\ m.copy = r.copy /\ m.name = r.name
             /\ r.at \in MakeSteps => m.super = r.super /\ m.plan = r.plan /\ m.org = r.org
             /\ r.at = "patch" => m.row = r.row
             /\ r.at \notin MakeSteps => m.password = r.password
<1>1. CASE r.at \in MakeSteps
  <2>1. r \in MakeJob /\ at \in MakeSteps
    BY <1>1, JobShape DEF MakeSteps
  <2> QED
    BY <1>1, <2>1 DEF MakeJob, MakeSteps, Jobs
<1>2. CASE r.at = "patch"
  <2>1. r \in PatchJob /\ at = "label"
    BY <1>2, JobShape DEF MakeSteps
  <2> QED
    BY <1>2, <2>1 DEF PatchJob, MakeSteps, Jobs
<1>3. CASE r.at = "pass"
  <2>1. r \in PassJob /\ at = "hash"
    BY <1>3, JobShape DEF MakeSteps
  <2> QED
    BY <1>3, <2>1 DEF PassJob, MakeSteps, Jobs
<1> QED
  BY <1>1, <1>2, <1>3

LEMMA Requests ==
  ASSUME RowsOK
  PROVE  req \in [Threads -> Jobs]
  BY DEF RowsOK, Jobs

\* The request of t becomes r and nobody else's changes.
Becomes(t, r) == /\ req' \in [Threads -> Jobs]
                 /\ req'[t] = r
                 /\ \A s \in Threads \ {t} : req'[s] = req[s]

LEMMA Moves ==
  ASSUME RowsOK, NEW t \in Threads, NEW r \in Jobs, req' = [req EXCEPT ![t] = r]
  PROVE  Becomes(t, r)
  BY Requests DEF Becomes

\* Between two statements.
LEMMA Proceeds ==
  ASSUME RowsOK, NEW t \in Threads, NEW at, Proceed(t, at),
         \/ req[t].at \in MakeSteps /\ at \in MakeSteps
         \/ req[t].at = "patch" /\ at = "label"
         \/ req[t].at = "pass" /\ at = "hash"
  PROVE  /\ Becomes(t, [req[t] EXCEPT !.at = at])
         /\ req'[t].at = at /\ req'[t].copy = req[t].copy /\ req'[t].name = req[t].name
         /\ req[t].at \in MakeSteps =>
              req'[t].super = req[t].super /\ req'[t].plan = req[t].plan /\ req'[t].org = req[t].org
         /\ req[t].at = "patch" => req'[t].row = req[t].row
         /\ req[t].at \notin MakeSteps => req'[t].password = req[t].password
<1> DEFINE r == req[t]
           m == [r EXCEPT !.at = at]
<1>1. r \in Jobs
  BY Requests
<1>2. /\ m \in Jobs /\ m.at = at /\ m.copy = r.copy /\ m.name = r.name
      /\ r.at \in MakeSteps => m.super = r.super /\ m.plan = r.plan /\ m.org = r.org
      /\ r.at = "patch" => m.row = r.row
      /\ r.at \notin MakeSteps => m.password = r.password
  <2> HIDE DEF r
  <2> QED
    BY <1>1, JobMoves DEF r
<1>3. req' = [req EXCEPT ![t] = m]
  BY Requests DEF Proceed
<1>4. Becomes(t, m)
  BY <1>2, <1>3, Moves
<1> QED
  BY <1>2, <1>4 DEF Becomes

\* The end of a request.
LEMMA Ends ==
  ASSUME RowsOK, NEW t \in Threads, Done(t)
  PROVE  Becomes(t, Idle)
  BY Moves DEF Done, Jobs

\* Users stay where they are when the row of one of them is written.
RowSet(n, row) == /\ user' \in [Names -> UserRow \cup {None}]
                  /\ user'[n] = row /\ row \in UserRow /\ row # None
                  /\ \A m \in Names \ {n} : user'[m] = user[m]

LEMMA UserWritten ==
  ASSUME RowsOK, NEW n \in Names, NEW row \in UserRow, user' = [user EXCEPT ![n] = row]
  PROVE  RowSet(n, row)
  BY NoneIsNoRow DEF RowsOK, RowSet

LEMMA ProfileWritten ==
  ASSUME RowsOK, NEW n \in Names, user[n] # None, NEW x \in OrgIds \cup {None, "none"},
         user' = [user EXCEPT ![n].profile = x]
  PROVE  /\ RowSet(n, user'[n])
         /\ user'[n].profile = x
         /\ user'[n].super = user[n].super /\ user'[n].password = user[n].password
<1> DEFINE row == [user[n] EXCEPT !.profile = x]
<1>1. user[n] \in UserRow
  BY DEF RowsOK
<1>2. /\ row \in UserRow /\ row.profile = x
      /\ row.super = user[n].super /\ row.password = user[n].password
  BY <1>1 DEF UserRow
<1>3. user' = [user EXCEPT ![n] = row]
  BY DEF RowsOK
<1> HIDE DEF row
<1>4. RowSet(n, row)
  BY <1>2, <1>3, UserWritten
<1> QED
  BY <1>2, <1>4 DEF RowSet

LEMMA PasswordWritten ==
  ASSUME RowsOK, NEW n \in Names, user[n] # None, NEW p \in 0 .. Changes,
         user' = [user EXCEPT ![n].password = p]
  PROVE  /\ RowSet(n, user'[n])
         /\ user'[n].password = p
         /\ user'[n].super = user[n].super /\ user'[n].profile = user[n].profile
<1> DEFINE row == [user[n] EXCEPT !.password = p]
<1>1. user[n] \in UserRow
  BY DEF RowsOK
<1>2. /\ row \in UserRow /\ row.password = p
      /\ row.super = user[n].super /\ row.profile = user[n].profile
  BY <1>1 DEF UserRow
<1>3. user' = [user EXCEPT ![n] = row]
  BY DEF RowsOK
<1> HIDE DEF row
<1>4. RowSet(n, row)
  BY <1>2, <1>3, UserWritten
<1> QED
  BY <1>2, <1>4 DEF RowSet

-----------------------------------------------------------------------------
(* Type correctness *)

\* The request of t becomes r, the copies stay as they are.
LEMMA StillServed ==
  ASSUME ShapeInv, NEW t \in Threads, NEW r \in Jobs, Becomes(t, r), UNCHANGED app,
         \A n \in Names : user[n] # None => user'[n] # None,
         r # Idle => Attended(r, app, user'),
         r # Idle /\ ByAdmin(r) => \A s \in Threads \ {t} : req[s] # Idle => req[s].copy # r.copy
  PROVE  RequestsAreServed'
<1>1. req \in [Threads -> Jobs] /\ CopiesAreSet /\ RequestsAreServed
  BY Requests DEF ShapeInv
<1>2. \A s \in Threads \ {t} : req[s] # Idle => Attended(req[s], app, user')
  <2>1. \A s \in Threads : req[s] # Idle => req[s].name \in Names
    BY <1>1, JobShape
  <2> QED
    BY <1>1, <2>1 DEF RequestsAreServed, Attended
<1>3. \A s \in Threads : req'[s] # Idle => Attended(req'[s], app', user')
  BY <1>2 DEF Becomes
<1>4. ASSUME r # Idle, NEW s \in Threads \ {t}, req[s] # Idle, ByAdmin(req[s])
      PROVE  r.copy # req[s].copy
  <2>1. app[req[s].copy].at = "admin" /\ r.copy \in Copies
    BY <1>1, <1>4, JobShape DEF RequestsAreServed, Attended
  <2>2. CASE ByAdmin(r)
    BY <1>4, <2>2
  <2>3. CASE ~ByAdmin(r)
    BY <1>1, <1>4, <2>1, <2>3 DEF Attended, CopiesAreSet
  <2> QED
    BY <2>2, <2>3
<1>5. \A s, u \in Threads : s # u /\ req'[s] # Idle /\ req'[u] # Idle /\ ByAdmin(req'[u])
        => req'[s].copy # req'[u].copy
  BY <1>1, <1>4 DEF Becomes, RequestsAreServed
<1> QED
  BY <1>3, <1>5 DEF RequestsAreServed

\* The copy c changes, no longer serving anybody.
LEMMA OthersServed ==
  ASSUME ShapeInv, NEW c \in Copies, \A d \in Copies \ {c} : app'[d] = app[d],
         \A n \in Names : user[n] # None => user'[n] # None,
         \A s \in Threads : \/ req'[s] = Idle
                            \/ req'[s] = req[s] /\ (req[s] # Idle => req[s].copy # c)
  PROVE  RequestsAreServed'
<1>1. req \in [Threads -> Jobs] /\ RequestsAreServed
  BY Requests DEF ShapeInv
<1>2. \A s \in Threads : req[s] # Idle => req[s].copy \in Copies /\ req[s].name \in Names
  BY <1>1, JobShape
<1>3. \A s \in Threads : req'[s] # Idle => Attended(req'[s], app', user')
  BY <1>1, <1>2 DEF RequestsAreServed, Attended
<1>4. \A s, u \in Threads : s # u /\ req'[s] # Idle /\ req'[u] # Idle /\ ByAdmin(req'[u])
        => req'[s].copy # req'[u].copy
  BY <1>1 DEF RequestsAreServed
<1> QED
  BY <1>3, <1>4 DEF RequestsAreServed

\* The end of a superuser's command and of its copy.
LEMMA CommandEnds ==
  ASSUME ShapeInv, NEW t \in Threads, req[t].at \in MakeSteps, MakeEnd(t),
         UNCHANGED <<keyFile, plans>>
  PROVE  /\ Becomes(t, Idle)
         /\ CopiesOK' /\ CopiesAreSet'
         /\ \/ UNCHANGED app
            \/ /\ req[t].super /\ req[t].copy \in Copies /\ app[req[t].copy].at = "admin"
               /\ End(req[t].copy)
               /\ \A s \in Threads \ {t} : req[s] # Idle => req[s].copy # req[t].copy
<1>1. Becomes(t, Idle)
  BY Ends DEF MakeEnd, ShapeInv
<1>2. req[t] \in Jobs /\ req[t] # Idle /\ req[t].copy \in Copies
  BY Requests, JobShape DEF ShapeInv, MakeSteps, Idle
<1>3. CASE req[t].super
  <2>1. /\ End(req[t].copy) /\ app[req[t].copy].at = "admin"
        /\ \A s \in Threads \ {t} : req[s] # Idle => req[s].copy # req[t].copy
    BY <1>2, <1>3 DEF MakeEnd, ShapeInv, RequestsAreServed, Attended, ByAdmin
  <2> QED
    BY <1>1, <1>2, <1>3, <2>1, EndMoves DEF ShapeInv, RowsOK
<1>4. CASE ~req[t].super
  BY <1>1, <1>4 DEF MakeEnd, ShapeInv, RowsOK, CopiesOK, CopiesAreSet
<1> QED
  BY <1>3, <1>4

\* What is left to show of a step for the shape of the state.
LEMMA ShapeKept ==
  ASSUME ShapeInv, CopiesOK', CopiesAreSet', RequestsAreServed',
         req' \in [Threads -> Jobs],
         user' \in [Names -> UserRow \cup {None}],
         \A n \in Names : user[n] # None => user'[n] # None,
         org' \in [OrgIds -> OrgRow \cup {None}],
         session' \in [Names -> Session \cup {None}],
         \A n \in Names : session'[n] # None => session[n] # None \/ user[n] # None,
         chosen' \in [Names -> 0 .. Changes], raced' \subseteq Names
  PROVE  ShapeInv'
  BY DEF ShapeInv, RowsOK, Jobs, SessionsHaveUsers

\* The same for a statement of a request that changes no copy.
LEMMA ShapeOfStatement ==
  ASSUME ShapeInv, NEW t \in Threads, NEW r \in Jobs, Becomes(t, r), UNCHANGED <<keyFile, app>>,
         plans' \subseteq PlanKeys,
         r # Idle => Attended(r, app, user'),
         r # Idle /\ ByAdmin(r) => \A s \in Threads \ {t} : req[s] # Idle => req[s].copy # r.copy,
         user' \in [Names -> UserRow \cup {None}],
         \A n \in Names : user[n] # None => user'[n] # None,
         org' \in [OrgIds -> OrgRow \cup {None}],
         session' \in [Names -> Session \cup {None}],
         \A n \in Names : session'[n] # None => session[n] # None \/ user[n] # None,
         chosen' \in [Names -> 0 .. Changes], raced' \subseteq Names
  PROVE  ShapeInv'
<1>1. RequestsAreServed'
  BY StillServed
<1>2. CopiesOK' /\ CopiesAreSet'
  BY DEF ShapeInv, RowsOK, CopiesOK, CopiesAreSet
<1>3. req' \in [Threads -> Jobs]
  BY DEF Becomes
<1> QED
  BY <1>1, <1>2, <1>3, ShapeKept

\* What is known of the request of t in a state of that shape.
LEMMA Request ==
  ASSUME ShapeInv, NEW t \in Threads
  PROVE  /\ RowsOK /\ req[t] \in Jobs
         /\ req[t].at \in {"idle", "patch", "label", "pass", "hash"} \cup MakeSteps
         /\ req[t] # Idle <=> req[t].at # "idle"
         /\ req[t] # Idle =>
              /\ req[t].copy \in Copies /\ req[t].name \in Names
              /\ Attended(req[t], app, user)
              /\ ByAdmin(req[t]) =>
                    \A s \in Threads \ {t} : req[s] # Idle => req[s].copy # req[t].copy
         /\ req[t].at \in MakeSteps =>
              /\ req[t].super \in BOOLEAN
              /\ req[t].plan \in PlanKeys \cup {None} /\ req[t].org \in OrgIds \cup {None}
         /\ req[t].at \in {"patch", "label"} =>
              req[t].row \in OrgIds \cup {None} /\ req[t].password \in 0 .. Changes
         /\ req[t].at \in {"pass", "hash"} => req[t].password \in 0 .. Changes
<1>1. RowsOK /\ req[t] \in Jobs
  BY Requests DEF ShapeInv
<1> DEFINE r == req[t]
<1>2. /\ r # Idle <=> r.at # "idle"
      /\ r.at \in {"idle", "patch", "label", "pass", "hash"} \cup MakeSteps
      /\ r # Idle => r.copy \in Copies /\ r.name \in Names
      /\ r.at \in MakeSteps => /\ r.super \in BOOLEAN
                           /\ r.plan \in PlanKeys \cup {None} /\ r.org \in OrgIds \cup {None}
      /\ r.at \in {"patch", "label"} => r.row \in OrgIds \cup {None} /\ r.password \in 0 .. Changes
      /\ r.at \in {"pass", "hash"} => r.password \in 0 .. Changes
  <2> HIDE DEF r
  <2> QED
    BY <1>1, JobShape DEF r
<1>3. r # Idle => /\ Attended(r, app, user)
                  /\ ByAdmin(r) => \A s \in Threads \ {t} : req[s] # Idle => req[s].copy # r.copy
  BY DEF ShapeInv, RequestsAreServed
<1> QED
  BY <1>1, <1>2, <1>3

\* The tables and the history, as a state of that shape has them.
LEMMA Tables ==
  ASSUME ShapeInv
  PROVE  /\ user \in [Names -> UserRow \cup {None}]
         /\ org \in [OrgIds -> OrgRow \cup {None}]
         /\ session \in [Names -> Session \cup {None}]
         /\ chosen \in [Names -> 0 .. Changes] /\ raced \subseteq Names
         /\ plans \subseteq PlanKeys /\ CopiesOK /\ CopiesAreSet /\ RowsOK
         /\ \A n \in Names : session[n] # None => user[n] # None
  BY DEF ShapeInv, RowsOK, CopiesOK, SessionsHaveUsers

\* The statements, each with what it does to the state.
LEMMA InsertUserDoes ==
  ASSUME ShapeInv, NEW t \in Threads, InsertUser(t)
  PROVE  /\ ShapeInv'
         /\ UNCHANGED <<keyFile, plans, org, session, chosen, raced>>
         /\ req[t].at = "user" /\ req[t].name \in Names
         /\ \/ /\ Becomes(t, Idle) /\ UNCHANGED user
               /\ UNCHANGED app \/ /\ req[t].copy \in Copies /\ app[req[t].copy].at = "admin"
                                   /\ End(req[t].copy)
            \/ /\ UNCHANGED app
               /\ user[req[t].name] = None /\ RowSet(req[t].name, NewUser(t))
               /\ Becomes(t, [req[t] EXCEPT !.at = "profile"])
               /\ req'[t].at = "profile" /\ req'[t].name = req[t].name
               /\ req'[t].super = req[t].super
<1> DEFINE n == req[t].name
<1>0. /\ UNCHANGED <<keyFile, plans, org, session, chosen, raced>>
      /\ req[t].at = "user" /\ req[t] # Idle /\ n \in Names
  BY Request DEF InsertUser, history, Idle
<1>1. CASE user[n] # None /\ MakeEnd(t) /\ UNCHANGED user
  <2>1. /\ Becomes(t, Idle)
        /\ CopiesOK' /\ CopiesAreSet'
        /\ \/ UNCHANGED app
           \/ /\ req[t].super /\ req[t].copy \in Copies /\ app[req[t].copy].at = "admin"
              /\ End(req[t].copy)
              /\ \A s \in Threads \ {t} : req[s] # Idle => req[s].copy # req[t].copy
    BY <1>0, <1>1, CommandEnds DEF MakeSteps
  <2>2. CASE UNCHANGED app
    <3>1. RequestsAreServed'
      BY <1>1, <2>1, <2>2, StillServed DEF Jobs
    <3> QED
      BY <1>0, <1>1, <2>1, <2>2, <3>1, Tables, ShapeKept DEF Becomes
  <2>3. CASE /\ req[t].copy \in Copies /\ app[req[t].copy].at = "admin" /\ End(req[t].copy)
             /\ \A s \in Threads \ {t} : req[s] # Idle => req[s].copy # req[t].copy
    <3>1. \A d \in Copies \ {req[t].copy} : app'[d] = app[d]
      BY <2>3, Tables DEF End, CopiesOK
    <3>2. RequestsAreServed'
      BY <1>1, <2>1, <2>3, <3>1, OthersServed DEF Becomes
    <3> QED
      BY <1>0, <1>1, <2>1, <2>3, <3>2, Tables, ShapeKept DEF Becomes
  <2> QED
    BY <2>1, <2>2, <2>3
<1>2. CASE user[n] = None /\ user' = [user EXCEPT ![n] = NewUser(t)] /\ Proceed(t, "profile")
           /\ UNCHANGED app
  <2>1. NewUser(t) \in UserRow
    BY <1>0, Request, AccountsAssumption DEF NewUser, UserRow, MakeSteps
  <2>2. RowSet(n, NewUser(t))
    BY <1>0, <1>2, <2>1, UserWritten, Tables
  <2> DEFINE r == [req[t] EXCEPT !.at = "profile"]
  <2>3. /\ Becomes(t, r)
        /\ req'[t].at = "profile" /\ req'[t].copy = req[t].copy /\ req'[t].name = n
        /\ req'[t].super = req[t].super
    BY <1>0, <1>2, Proceeds, Tables DEF MakeSteps
  <2>4. r \in Jobs /\ r = req'[t]
    BY <2>3 DEF Becomes
  <2> HIDE DEF r
  <2>5. Attended(r, app, user')
    BY <1>0, <2>2, <2>3, <2>4, Request DEF Attended, ByAdmin, MakeSteps, RowSet
  <2>6. ByAdmin(r) => \A s \in Threads \ {t} : req[s] # Idle => req[s].copy # r.copy
    BY <1>0, <2>3, <2>4, Request DEF ByAdmin, MakeSteps
  <2>7. \A m \in Names : user[m] # None => user'[m] # None
    BY <2>2 DEF RowSet
  <2>8. ShapeInv'
    BY <1>0, <1>2, <2>2, <2>3, <2>4, <2>5, <2>6, <2>7, Tables, ShapeOfStatement DEF RowSet
  <2> QED
    BY <1>0, <1>2, <2>2, <2>3, <2>8 DEF r
<1> QED
  BY <1>1, <1>2 DEF InsertUser

LEMMA InsertProfileDoes ==
  ASSUME ShapeInv, NEW t \in Threads, InsertProfile(t)
  PROVE  /\ ShapeInv'
         /\ UNCHANGED <<launchVars, org, session, chosen, raced>>
         /\ req[t].at = "profile" /\ req[t].name \in Names /\ user[req[t].name] # None
         /\ RowSet(req[t].name, user'[req[t].name])
         /\ user'[req[t].name].super = user[req[t].name].super
         /\ user'[req[t].name].password = user[req[t].name].password
         /\ Becomes(t, req'[t])
         /\ req'[t].at = "plan" /\ req'[t].name = req[t].name /\ req'[t].super = req[t].super
<1> DEFINE n == req[t].name
           x == IF user[n].profile = "none" THEN None ELSE user[n].profile
           r == [req[t] EXCEPT !.at = "plan"]
<1>1. /\ UNCHANGED <<launchVars, org, session, chosen, raced>>
      /\ req[t].at = "profile" /\ req[t] # Idle /\ n \in Names /\ user[n] # None
  BY Request DEF InsertProfile, history, Idle, Attended
<1>2. x \in OrgIds \cup {None, "none"} /\ user' = [user EXCEPT ![n].profile = x]
  BY <1>1, Tables DEF InsertProfile, UserRow
<1> HIDE DEF x
<1>3. /\ RowSet(n, user'[n])
      /\ user'[n].super = user[n].super /\ user'[n].password = user[n].password
  BY <1>1, <1>2, ProfileWritten, Tables
<1>4. Proceed(t, "plan")
  BY DEF InsertProfile
<1>5. /\ Becomes(t, r)
      /\ req'[t].at = "plan" /\ req'[t].copy = req[t].copy /\ req'[t].name = n
      /\ req'[t].super = req[t].super
  BY <1>1, <1>4, Proceeds, Tables DEF MakeSteps
<1>6. r \in Jobs /\ r = req'[t]
  BY <1>5 DEF Becomes
<1> HIDE DEF r
<1>7. Attended(r, app, user')
  BY <1>1, <1>3, <1>5, <1>6, Request DEF Attended, ByAdmin, MakeSteps, RowSet
<1>8. ByAdmin(r) => \A s \in Threads \ {t} : req[s] # Idle => req[s].copy # r.copy
  BY <1>1, <1>5, <1>6, Request DEF ByAdmin, MakeSteps
<1>9. \A m \in Names : user[m] # None => user'[m] # None
  BY <1>3 DEF RowSet
<1>10. ShapeInv'
  BY <1>1, <1>3, <1>5, <1>6, <1>7, <1>8, <1>9, Tables, ShapeOfStatement DEF RowSet, launchVars
<1> QED
  BY <1>1, <1>3, <1>5, <1>6, <1>10

LEMMA ReadPlanDoes ==
  ASSUME ShapeInv, NEW t \in Threads, ReadPlan(t)
  PROVE  /\ ShapeInv'
         /\ UNCHANGED <<keyFile, app, tables, chosen, raced>>
         /\ req[t].at = "plan" /\ req[t].name \in Names
         /\ plans' = plans \cup {PlanFor(req[t].super)}
         /\ Becomes(t, req'[t])
         /\ req'[t].at = "org" /\ req'[t].name = req[t].name /\ req'[t].super = req[t].super
         /\ req'[t].plan = PlanFor(req[t].super)
<1> DEFINE p == PlanFor(req[t].super)
           q == [req[t] EXCEPT !.at = "org"]
           r == [q EXCEPT !.plan = p]
<1>1. /\ UNCHANGED <<keyFile, app, tables, chosen, raced>>
      /\ req[t].at = "plan" /\ req[t] # Idle /\ req[t].name \in Names
      /\ plans' = plans \cup {p}
  BY Request DEF ReadPlan, history, Idle
<1>2. p \in PlanKeys
  BY PlanKeysAre DEF PlanFor
<1> HIDE DEF p
<1>3. req[t] \in MakeJob
  BY <1>1, Request, JobShape DEF MakeSteps
<1>4. /\ r \in MakeJob /\ r.at = "org" /\ r.copy = req[t].copy /\ r.name = req[t].name
      /\ r.super = req[t].super /\ r.plan = p
  BY <1>2, <1>3 DEF MakeJob
<1>5. req' = [req EXCEPT ![t] = r]
  BY <1>3, Requests, Tables DEF ReadPlan, p
<1>6. r \in Jobs
  BY <1>4 DEF Jobs
<1> HIDE DEF r
<1>7. Becomes(t, r) /\ req'[t] = r
  BY <1>5, <1>6, Moves, Tables DEF Becomes
<1>8. Attended(r, app, user')
  BY <1>1, <1>2, <1>4, Request DEF Attended, ByAdmin, MakeSteps, tables
<1>9. ByAdmin(r) => \A s \in Threads \ {t} : req[s] # Idle => req[s].copy # r.copy
  BY <1>1, <1>4, Request DEF ByAdmin, MakeSteps
<1>10. ShapeInv'
  BY <1>1, <1>2, <1>6, <1>7, <1>8, <1>9, Tables, ShapeOfStatement DEF tables
<1> QED
  BY <1>1, <1>4, <1>7, <1>10 DEF p

LEMMA InsertOrgDoes ==
  ASSUME ShapeInv, NEW t \in Threads, InsertOrg(t)
  PROVE  /\ ShapeInv'
         /\ UNCHANGED <<launchVars, user, session, chosen, raced>>
         /\ req[t].at = "org" /\ req[t].name \in Names /\ user[req[t].name] # None
         /\ \E i \in OrgIds :
              /\ org[i] = None /\ org'[i] # None
              /\ org'[i].owner = req[t].name /\ org'[i].plan = req[t].plan
              /\ \A j \in OrgIds \ {i} : org'[j] = org[j]
              /\ req'[t].org = i
         /\ Becomes(t, req'[t])
         /\ req'[t].at = "link" /\ req'[t].name = req[t].name /\ req'[t].super = req[t].super
<1>1. /\ UNCHANGED <<launchVars, user, session, chosen, raced>>
      /\ req[t].at = "org" /\ req[t] # Idle /\ req[t].name \in Names /\ user[req[t].name] # None
      /\ req[t].plan \in PlanKeys
  BY Request DEF InsertOrg, history, Idle, Attended
<1>2. PICK i \in OrgIds :
        /\ org[i] = None
        /\ org' = [org EXCEPT ![i] = [owner |-> req[t].name, plan |-> req[t].plan]]
        /\ req' = [req EXCEPT ![t].at = "link", ![t].org = i]
  BY DEF InsertOrg
<1> DEFINE o == [owner |-> req[t].name, plan |-> req[t].plan]
           q == [req[t] EXCEPT !.at = "link"]
           r == [q EXCEPT !.org = i]
<1>3. o \in OrgRow /\ o # None /\ o.owner = req[t].name /\ o.plan = req[t].plan
  BY <1>1, NoneIsNoRow DEF OrgRow
<1>4. req[t] \in MakeJob
  BY <1>1, Request, JobShape DEF MakeSteps
<1>5. /\ r \in MakeJob /\ r.at = "link" /\ r.copy = req[t].copy /\ r.name = req[t].name
      /\ r.super = req[t].super /\ r.org = i
  BY <1>4 DEF MakeJob
<1>6. req' = [req EXCEPT ![t] = r]
  BY <1>2, <1>4, Requests, Tables
<1>7. r \in Jobs
  BY <1>5 DEF Jobs
<1> HIDE DEF r, o
<1>8. Becomes(t, r) /\ req'[t] = r
  BY <1>6, <1>7, Moves, Tables DEF Becomes
<1>9. /\ org' \in [OrgIds -> OrgRow \cup {None}] /\ org'[i] = o
      /\ \A j \in OrgIds \ {i} : org'[j] = org[j]
  BY <1>2, <1>3, Tables DEF o
<1>10. Attended(r, app, user')
  BY <1>1, <1>5, Request DEF Attended, ByAdmin, MakeSteps
<1>11. ByAdmin(r) => \A s \in Threads \ {t} : req[s] # Idle => req[s].copy # r.copy
  BY <1>1, <1>5, Request DEF ByAdmin, MakeSteps
<1>12. ShapeInv'
  BY <1>1, <1>7, <1>8, <1>9, <1>10, <1>11, Tables, ShapeOfStatement DEF launchVars
<1> QED
  BY <1>1, <1>2, <1>3, <1>5, <1>8, <1>9, <1>12

LEMMA LinkProfileDoes ==
  ASSUME ShapeInv, NEW t \in Threads, LinkProfile(t)
  PROVE  /\ ShapeInv'
         /\ UNCHANGED <<keyFile, plans, org, session, chosen, raced>>
         /\ req[t].at = "link" /\ req[t].name \in Names /\ req[t].org \in OrgIds
         /\ user[req[t].name] # None
         /\ RowSet(req[t].name, user'[req[t].name])
         /\ user'[req[t].name].profile = req[t].org
         /\ user'[req[t].name].super = user[req[t].name].super
         /\ user'[req[t].name].password = user[req[t].name].password
         /\ \/ /\ Becomes(t, Idle)
               /\ UNCHANGED app \/ /\ req[t].copy \in Copies /\ app[req[t].copy].at = "admin"
                                   /\ End(req[t].copy)
            \/ /\ UNCHANGED app
               /\ Becomes(t, req'[t])
               /\ req'[t].at = "login" /\ req'[t].name = req[t].name
               /\ req'[t].super = req[t].super
<1> DEFINE n == req[t].name
<1>1. /\ UNCHANGED <<keyFile, plans, org, session, chosen, raced>>
      /\ req[t].at = "link" /\ req[t] # Idle /\ n \in Names /\ user[n] # None
      /\ req[t].org \in OrgIds
      /\ user' = [user EXCEPT ![n].profile = req[t].org]
  BY Request DEF LinkProfile, history, Idle, Attended
<1>2. /\ RowSet(n, user'[n]) /\ user'[n].profile = req[t].org
      /\ user'[n].super = user[n].super /\ user'[n].password = user[n].password
  BY <1>1, ProfileWritten, Tables
<1>3. \A m \in Names : user[m] # None => user'[m] # None
  BY <1>2 DEF RowSet
<1>4. CASE req[t].super /\ MakeEnd(t)
  <2>1. /\ Becomes(t, Idle) /\ CopiesOK' /\ CopiesAreSet'
        /\ \/ UNCHANGED app
           \/ /\ req[t].super /\ req[t].copy \in Copies /\ app[req[t].copy].at = "admin"
              /\ End(req[t].copy)
              /\ \A s \in Threads \ {t} : req[s] # Idle => req[s].copy # req[t].copy
    BY <1>1, <1>4, CommandEnds DEF MakeSteps
  <2>2. CASE UNCHANGED app
    <3>1. RequestsAreServed'
      BY <1>3, <2>1, <2>2, StillServed DEF Jobs
    <3> QED
      BY <1>1, <1>2, <1>3, <2>1, <2>2, <3>1, Tables, ShapeKept DEF Becomes, RowSet
  <2>3. CASE /\ req[t].copy \in Copies /\ app[req[t].copy].at = "admin" /\ End(req[t].copy)
             /\ \A s \in Threads \ {t} : req[s] # Idle => req[s].copy # req[t].copy
    <3>1. \A d \in Copies \ {req[t].copy} : app'[d] = app[d]
      BY <2>3, Tables DEF End, CopiesOK
    <3>2. RequestsAreServed'
      BY <1>3, <2>1, <2>3, <3>1, OthersServed DEF Becomes
    <3> QED
      BY <1>1, <1>2, <1>3, <2>1, <2>3, <3>2, Tables, ShapeKept DEF Becomes, RowSet
  <2> QED
    BY <1>1, <1>2, <2>1, <2>2, <2>3
<1>5. CASE ~req[t].super /\ Proceed(t, "login") /\ UNCHANGED app
  <2> DEFINE r == [req[t] EXCEPT !.at = "login"]
  <2>1. /\ Becomes(t, r)
        /\ req'[t].at = "login" /\ req'[t].copy = req[t].copy /\ req'[t].name = n
        /\ req'[t].super = req[t].super
    BY <1>1, <1>5, Proceeds, Tables DEF MakeSteps
  <2>2. r \in Jobs /\ r = req'[t]
    BY <2>1 DEF Becomes
  <2> HIDE DEF r
  <2>3. Attended(r, app, user')
    BY <1>1, <1>2, <1>5, <2>1, <2>2, Request DEF Attended, ByAdmin, MakeSteps, RowSet
  <2>4. ShapeInv'
    BY <1>1, <1>2, <1>3, <1>5, <2>1, <2>2, <2>3, Tables, ShapeOfStatement DEF RowSet, ByAdmin
  <2> QED
    BY <1>1, <1>2, <1>5, <2>1, <2>2, <2>4
<1> QED
  BY <1>4, <1>5 DEF LinkProfile

\* A login writes a session of its user, or none at all.
SessionMade(c, n) == /\ session' \in [Names -> Session \cup {None}]
                     /\ \A m \in Names \ {n} : session'[m] = session[m]
                     /\ \/ session'[n] = session[n]
                        \/ session'[n] # None /\ session'[n].key = app[c].key

LEMMA LoginDoes ==
  ASSUME ShapeInv, NEW c \in Copies, NEW n \in Names, app[c].server = "up", user[n] # None,
         Login(c, n)
  PROVE  SessionMade(c, n)
<1> DEFINE new == [key |-> app[c].key, password |-> user[n].password]
<1>1. app[c].key \in Secrets \cup {""}
  BY Tables, CopyShape DEF CopiesAreSet
<1>2. user[n].password \in 0 .. Changes
  BY Tables DEF UserRow
<1>3. CASE app[c].key = ""
  BY <1>3, Tables DEF Login, SessionMade
<1>4. CASE app[c].key # ""
  <2>0. app[c].key \in Secrets
    BY <1>1, <1>4
  <2>1. new \in Session /\ new # None /\ new.key = app[c].key
    BY <1>2, <2>0, NoneIsNoRow DEF Session
  <2>2. session' = [session EXCEPT ![n] = new]
    BY <1>4 DEF Login
  <2> HIDE DEF new
  <2> QED
    BY <2>1, <2>2, Tables DEF SessionMade
<1> QED
  BY <1>3, <1>4

LEMMA SignupLoginDoes ==
  ASSUME ShapeInv, NEW t \in Threads, SignupLogin(t)
  PROVE  /\ ShapeInv'
         /\ UNCHANGED <<launchVars, user, org, chosen, raced>>
         /\ req[t].at = "login" /\ req[t].name \in Names /\ req[t].copy \in Copies
         /\ app[req[t].copy].server = "up" /\ user[req[t].name] # None
         /\ SessionMade(req[t].copy, req[t].name)
         /\ Becomes(t, Idle)
<1>1. /\ UNCHANGED <<launchVars, user, org, chosen, raced>>
      /\ req[t].at = "login" /\ req[t] # Idle /\ req[t].name \in Names /\ req[t].copy \in Copies
      /\ user[req[t].name] # None /\ app[req[t].copy].server = "up"
  BY Request DEF SignupLogin, history, Idle, Attended, ByAdmin
<1>2. SessionMade(req[t].copy, req[t].name)
  BY <1>1, LoginDoes DEF SignupLogin
<1>3. Becomes(t, Idle)
  BY Ends, Tables DEF SignupLogin
<1>4. ShapeInv'
  BY <1>1, <1>2, <1>3, Tables, ShapeOfStatement DEF launchVars, SessionMade, Jobs
<1> QED
  BY <1>1, <1>2, <1>3, <1>4

LEMMA PatchSaveUserDoes ==
  ASSUME ShapeInv, NEW t \in Threads, PatchSaveUser(t)
  PROVE  /\ ShapeInv'
         /\ UNCHANGED <<launchVars, org, session, chosen, raced>>
         /\ req[t].at = "patch" /\ req[t].name \in Names /\ user[req[t].name] # None
         /\ RowSet(req[t].name, user'[req[t].name])
         /\ user'[req[t].name].password = req[t].password
         /\ user'[req[t].name].super = user[req[t].name].super
         /\ user'[req[t].name].profile = user[req[t].name].profile
         /\ Becomes(t, req'[t])
         /\ req'[t].at = "label" /\ req'[t].name = req[t].name /\ req'[t].row = req[t].row
<1> DEFINE n == req[t].name
           r == [req[t] EXCEPT !.at = "label"]
<1>1. /\ UNCHANGED <<launchVars, org, session, chosen, raced>>
      /\ req[t].at = "patch" /\ req[t] # Idle /\ n \in Names /\ user[n] # None
      /\ app[req[t].copy].server = "up" /\ req[t].password \in 0 .. Changes
  BY Request DEF PatchSaveUser, history, Idle, Attended, ByAdmin, MakeSteps
<1>2. user' = [user EXCEPT ![n].password = req[t].password] /\ Proceed(t, "label")
  BY DEF PatchSaveUser
<1>3. /\ RowSet(n, user'[n]) /\ user'[n].password = req[t].password
      /\ user'[n].super = user[n].super /\ user'[n].profile = user[n].profile
  BY <1>1, <1>2, PasswordWritten, Tables
<1>4. /\ Becomes(t, r)
      /\ req'[t].at = "label" /\ req'[t].copy = req[t].copy /\ req'[t].name = n
      /\ req'[t].row = req[t].row
  BY <1>1, <1>2, Proceeds, Tables DEF MakeSteps
<1>5. r \in Jobs /\ r = req'[t]
  BY <1>4 DEF Becomes
<1> HIDE DEF r
<1>6. Attended(r, app, user') /\ ~ByAdmin(r)
  BY <1>1, <1>3, <1>4, <1>5 DEF Attended, ByAdmin, MakeSteps, RowSet
<1>7. \A m \in Names : user[m] # None => user'[m] # None
  BY <1>3 DEF RowSet
<1>8. ShapeInv'
  BY <1>1, <1>3, <1>4, <1>5, <1>6, <1>7, Tables, ShapeOfStatement DEF RowSet, launchVars
<1> QED
  BY <1>1, <1>3, <1>4, <1>5, <1>8

LEMMA PatchSaveDoes ==
  ASSUME ShapeInv, NEW t \in Threads, PatchSave(t)
  PROVE  /\ ShapeInv'
         /\ UNCHANGED <<launchVars, org, session, chosen, raced>>
         /\ req[t].at = "label" /\ req[t].name \in Names /\ user[req[t].name] # None
         /\ RowSet(req[t].name, user'[req[t].name])
         /\ user'[req[t].name].profile = req[t].row
         /\ user'[req[t].name].super = user[req[t].name].super
         /\ user'[req[t].name].password = user[req[t].name].password
         /\ Becomes(t, Idle)
<1> DEFINE n == req[t].name
<1>1. /\ UNCHANGED <<launchVars, org, session, chosen, raced>>
      /\ req[t].at = "label" /\ req[t] # Idle /\ n \in Names /\ user[n] # None
      /\ req[t].row \in OrgIds \cup {None}
  BY Request DEF PatchSave, history, Idle, Attended, ByAdmin, MakeSteps
<1>2. user' = [user EXCEPT ![n].profile = req[t].row] /\ Done(t)
  BY DEF PatchSave
<1>3. /\ RowSet(n, user'[n]) /\ user'[n].profile = req[t].row
      /\ user'[n].super = user[n].super /\ user'[n].password = user[n].password
  BY <1>1, <1>2, ProfileWritten, Tables
<1>4. Becomes(t, Idle)
  BY <1>2, Ends, Tables
<1>5. \A m \in Names : user[m] # None => user'[m] # None
  BY <1>3 DEF RowSet
<1>6. ShapeInv'
  BY <1>1, <1>3, <1>4, <1>5, Tables, ShapeOfStatement DEF RowSet, launchVars, Jobs
<1> QED
  BY <1>1, <1>3, <1>4, <1>6

LEMMA PassSaveDoes ==
  ASSUME ShapeInv, NEW t \in Threads, PassSave(t)
  PROVE  /\ ShapeInv'
         /\ UNCHANGED <<launchVars, org, session>>
         /\ req[t].at = "pass" /\ req[t].name \in Names /\ user[req[t].name] # None
         /\ RowSet(req[t].name, user'[req[t].name])
         /\ user'[req[t].name].password = req[t].password
         /\ user'[req[t].name].super = user[req[t].name].super
         /\ user'[req[t].name].profile = user[req[t].name].profile
         /\ chosen' = [chosen EXCEPT ![req[t].name] = req[t].password]
         /\ raced \subseteq raced'
         /\ \A s \in Threads : Edits(s, req[t].name) => req[t].name \in raced'
         /\ Becomes(t, req'[t])
         /\ req'[t].at = "hash" /\ req'[t].name = req[t].name
<1> DEFINE n == req[t].name
           r == [req[t] EXCEPT !.at = "hash"]
<1>1. /\ UNCHANGED <<launchVars, org, session>>
      /\ req[t].at = "pass" /\ req[t] # Idle /\ n \in Names /\ user[n] # None
      /\ app[req[t].copy].server = "up" /\ app[req[t].copy].key \in Secrets
      /\ req[t].password \in 0 .. Changes
  BY Request DEF PassSave, Idle, Attended, ByAdmin, MakeSteps
<1>2. /\ user' = [user EXCEPT ![n].password = req[t].password] /\ Proceed(t, "hash")
      /\ chosen' = [chosen EXCEPT ![n] = req[t].password]
      /\ raced' = IF \E s \in Threads : Edits(s, n) THEN raced \cup {n} ELSE raced
  BY DEF PassSave
<1>3. /\ RowSet(n, user'[n]) /\ user'[n].password = req[t].password
      /\ user'[n].super = user[n].super /\ user'[n].profile = user[n].profile
  BY <1>1, <1>2, PasswordWritten, Tables
<1>4. /\ Becomes(t, r)
      /\ req'[t].at = "hash" /\ req'[t].copy = req[t].copy /\ req'[t].name = n
  BY <1>1, <1>2, Proceeds, Tables DEF MakeSteps
<1>5. r \in Jobs /\ r = req'[t]
  BY <1>4 DEF Becomes
<1> HIDE DEF r
<1>6. Attended(r, app, user') /\ ~ByAdmin(r)
  BY <1>1, <1>3, <1>4, <1>5 DEF Attended, ByAdmin, MakeSteps, RowSet
<1>7. \A m \in Names : user[m] # None => user'[m] # None
  BY <1>3 DEF RowSet
<1>8. chosen' \in [Names -> 0 .. Changes] /\ raced' \subseteq Names
  BY <1>1, <1>2, Tables
<1>9. ShapeInv'
  BY <1>1, <1>3, <1>4, <1>5, <1>6, <1>7, <1>8, Tables, ShapeOfStatement DEF RowSet, launchVars
<1> QED
  BY <1>1, <1>2, <1>3, <1>4, <1>5, <1>9

LEMMA PassRehashDoes ==
  ASSUME ShapeInv, NEW t \in Threads, PassRehash(t)
  PROVE  /\ ShapeInv'
         /\ UNCHANGED <<launchVars, user, org, chosen, raced>>
         /\ req[t].at = "hash" /\ req[t].name \in Names /\ req[t].copy \in Copies
         /\ app[req[t].copy].server = "up" /\ user[req[t].name] # None
         /\ SessionMade(req[t].copy, req[t].name)
         /\ Becomes(t, Idle)
<1> DEFINE n == req[t].name
           new == [key |-> app[req[t].copy].key, password |-> req[t].password]
<1>1. /\ UNCHANGED <<launchVars, user, org, chosen, raced>>
      /\ req[t].at = "hash" /\ req[t] # Idle /\ n \in Names /\ user[n] # None
      /\ app[req[t].copy].server = "up" /\ app[req[t].copy].key \in Secrets
      /\ req[t].password \in 0 .. Changes /\ req[t].copy \in Copies
  BY Request DEF PassRehash, Idle, Attended, ByAdmin, MakeSteps, history
<1>2. new \in Session /\ new # None /\ new.key = app[req[t].copy].key
  BY <1>1, NoneIsNoRow DEF Session
<1>3. session' = [session EXCEPT ![n] = new]
  BY DEF PassRehash
<1> HIDE DEF new
<1>4. SessionMade(req[t].copy, n)
  BY <1>1, <1>2, <1>3, Tables DEF SessionMade
<1>5. Becomes(t, Idle)
  BY Ends, Tables DEF PassRehash
<1>6. ShapeInv'
  BY <1>1, <1>4, <1>5, Tables, ShapeOfStatement DEF launchVars, SessionMade, Jobs
<1> QED
  BY <1>1, <1>4, <1>5, <1>6

\* The requests that begin.
LEMMA MakeBeginDoes ==
  ASSUME ShapeInv, NEW t \in Threads, NEW c \in Copies, NEW n \in Names, NEW super \in BOOLEAN,
         MakeBegin(t, c, n, super)
  PROVE  /\ ShapeInv'
         /\ UNCHANGED <<launchVars, tables, chosen, raced>>
         /\ req[t] = Idle
         /\ Becomes(t, req'[t]) /\ req'[t].at = "user"
<1> DEFINE r == [at |-> "user", copy |-> c, name |-> n, super |-> super, plan |-> None,
                 org |-> None]
<1>1. /\ UNCHANGED <<launchVars, tables, chosen, raced>>
      /\ req[t] = Idle
      /\ IF super THEN app[c].at = "admin" /\ \A s \in Threads : req[s] # Idle => req[s].copy # c
                  ELSE app[c].server = "up"
      /\ req' = [req EXCEPT ![t] = r]
  BY DEF MakeBegin, history, Take
<1>2. r \in Jobs /\ r.at = "user" /\ r.copy = c /\ r.super = super
  BY DEF Jobs, MakeJob
<1> HIDE DEF r
<1>3. Becomes(t, r) /\ r = req'[t]
  BY <1>1, <1>2, Moves, Tables DEF Becomes
<1>4. Attended(r, app, user')
  BY <1>1, <1>2 DEF Attended, ByAdmin, MakeSteps
<1>5. ByAdmin(r) => \A s \in Threads \ {t} : req[s] # Idle => req[s].copy # r.copy
  BY <1>1, <1>2 DEF ByAdmin, MakeSteps
<1>6. ShapeInv'
  BY <1>1, <1>2, <1>3, <1>4, <1>5, Tables, ShapeOfStatement DEF launchVars, tables
<1> QED
  BY <1>1, <1>2, <1>3, <1>6

LEMMA PatchReadDoes ==
  ASSUME ShapeInv, NEW t \in Threads, NEW c \in Copies, NEW n \in Names, PatchRead(t, c, n)
  PROVE  /\ ShapeInv'
         /\ UNCHANGED <<launchVars, tables, chosen, raced>>
         /\ req[t] = Idle /\ session[n] # None
         /\ Becomes(t, req'[t])
         /\ req'[t].at = "patch" /\ req'[t].name = n /\ req'[t].row = user[n].profile
         /\ req'[t].password = user[n].password
<1> DEFINE r == [at |-> "patch", copy |-> c, name |-> n, row |-> user[n].profile,
                 password |-> user[n].password]
<1>1. /\ UNCHANGED <<launchVars, tables, chosen, raced>>
      /\ req[t] = Idle /\ session[n] # None /\ app[c].server = "up" /\ user[n].profile # "none"
      /\ req' = [req EXCEPT ![t] = r]
  BY DEF PatchRead, history, Take, LoggedIn
<1>2. user[n] # None /\ user[n].profile \in OrgIds \cup {None} /\ user[n].password \in 0 .. Changes
  BY <1>1, Tables DEF UserRow
<1>3. /\ r \in Jobs /\ r.at = "patch" /\ r.copy = c /\ r.name = n
      /\ r.row = user[n].profile /\ r.password = user[n].password
  BY <1>2 DEF Jobs, PatchJob
<1> HIDE DEF r
<1>4. Becomes(t, r) /\ r = req'[t]
  BY <1>1, <1>3, Moves, Tables DEF Becomes
<1>5. Attended(r, app, user') /\ ~ByAdmin(r)
  BY <1>1, <1>2, <1>3 DEF Attended, ByAdmin, MakeSteps, tables
<1>6. ShapeInv'
  BY <1>1, <1>3, <1>4, <1>5, Tables, ShapeOfStatement DEF launchVars, tables
<1> QED
  BY <1>1, <1>3, <1>4, <1>6

LEMMA PassReadDoes ==
  ASSUME ShapeInv, NEW t \in Threads, NEW c \in Copies, NEW n \in Names, PassRead(t, c, n)
  PROVE  /\ ShapeInv'
         /\ UNCHANGED <<launchVars, tables, chosen, raced>>
         /\ req[t] = Idle /\ session[n] # None
         /\ Becomes(t, req'[t])
         /\ req'[t].at = "pass" /\ req'[t].name = n
<1> DEFINE r == [at |-> "pass", copy |-> c, name |-> n, password |-> user[n].password + 1]
<1>1. /\ UNCHANGED <<launchVars, tables, chosen, raced>>
      /\ req[t] = Idle /\ session[n] # None /\ app[c].server = "up" /\ user[n].password < Changes
      /\ session[n].key = app[c].key
      /\ req' = [req EXCEPT ![t] = r]
  BY DEF PassRead, history, Take, LoggedIn
<1>2. user[n] # None /\ user[n].password \in 0 .. Changes /\ app[c].key \in Secrets
  BY <1>1, Tables DEF UserRow, Session
<1>3. user[n].password + 1 \in 0 .. Changes
  BY <1>1, <1>2, AccountsAssumption
<1>4. r \in Jobs /\ r.at = "pass" /\ r.copy = c /\ r.name = n
  BY <1>3 DEF Jobs, PassJob
<1> HIDE DEF r
<1>5. Becomes(t, r) /\ r = req'[t]
  BY <1>1, <1>4, Moves, Tables DEF Becomes
<1>6. Attended(r, app, user') /\ ~ByAdmin(r)
  BY <1>1, <1>2, <1>4 DEF Attended, ByAdmin, MakeSteps, tables
<1>7. ShapeInv'
  BY <1>1, <1>4, <1>5, <1>6, Tables, ShapeOfStatement DEF launchVars, tables
<1> QED
  BY <1>1, <1>4, <1>5, <1>7

\* Login and logout, which are one statement each.
LEMMA SessionDoes ==
  ASSUME ShapeInv, NEW c \in Copies, NEW n \in Names, LoginPost(c, n) \/ LogoutPost(c, n)
  PROVE  /\ ShapeInv'
         /\ UNCHANGED <<launchVars, user, org, req, chosen, raced>>
         /\ \A m \in Names \ {n} : session'[m] = session[m]
         /\ \/ session'[n] \in {None, session[n]}
            \/ /\ session'[n] # None /\ session'[n].key = app[c].key
               /\ app[c].server = "up" /\ user[n] # None
<1> DEFINE Kept == /\ session' \in [Names -> Session \cup {None}]
                   /\ \A m \in Names : session'[m] # None => session[m] # None \/ user[m] # None
<1>1. UNCHANGED <<launchVars, user, org, req, chosen, raced>>
  BY DEF LoginPost, LogoutPost, history
<1>2. ASSUME Kept
      PROVE  ShapeInv'
  <2>1. CopiesOK' /\ CopiesAreSet' /\ RequestsAreServed'
    BY <1>1 DEF ShapeInv, RowsOK, CopiesOK, CopiesAreSet, RequestsAreServed, launchVars,
                Attended, ByAdmin
  <2> QED
    BY <1>1, <1>2, <2>1, Tables, Requests, ShapeKept DEF launchVars
<1>3. CASE LoginPost(c, n)
  <2>1. /\ SessionMade(c, n) /\ app[c].server = "up" /\ user[n] # None
    BY <1>3, LoginDoes DEF LoginPost
  <2> QED
    BY <1>1, <1>2, <2>1 DEF SessionMade
<1>4. CASE LogoutPost(c, n)
  <2>1. session' = [session EXCEPT ![n] = None]
    BY <1>4 DEF LogoutPost
  <2> QED
    BY <1>1, <1>2, <2>1, Tables
<1> QED
  BY <1>3, <1>4

\* The launcher's steps, and the end of a copy with its requests.
LEMMA LaunchDoes ==
  ASSUME ShapeInv, NEW c \in Copies, LaunchStep(c), UNCHANGED accVars
  PROVE  /\ ShapeInv'
         /\ UNCHANGED <<tables, req, chosen, raced>>
<1>1. UNCHANGED <<tables, req, chosen, raced>>
  BY DEF accVars, history
<1>2. /\ CopiesOK' /\ CopiesAreSet'
      /\ \A d \in Copies \ {c} : app'[d] = app[d]
      /\ app[c].server = "up" => app'[c].server = "up" /\ app'[c].key = app[c].key
      /\ app[c].at # "admin"
  BY LaunchMoves, Tables
<1>3. \A s \in Threads : req[s] # Idle => Attended(req[s], app, user) /\ req[s].copy \in Copies
  BY Request
<1>4. \A s \in Threads : req[s] # Idle => Attended(req[s], app', user')
  BY <1>1, <1>2, <1>3 DEF Attended, tables
<1>5. RequestsAreServed'
  BY <1>1, <1>4 DEF ShapeInv, RequestsAreServed
<1> QED
  BY <1>1, <1>2, <1>5, Tables, Requests, ShapeKept DEF tables

LEMMA StopDoes ==
  ASSUME ShapeInv, NEW c \in Copies, Stop(c)
  PROVE  /\ ShapeInv'
         /\ UNCHANGED <<keyFile, plans, tables, chosen, raced>>
         /\ End(c) /\ MayEnd(c)
         /\ \A s \in Threads : req'[s] = req[s] \/ (req'[s] = Idle /\ req[s].at \in CutPoints)
<1>1. /\ UNCHANGED <<keyFile, plans, tables, chosen, raced>>
      /\ End(c) /\ MayEnd(c)
      /\ req' = [t \in Threads |-> IF req[t] # Idle /\ req[t].copy = c THEN Idle ELSE req[t]]
      /\ \A t \in Threads : req[t] # Idle /\ req[t].copy = c => req[t].at \in CutPoints
  BY DEF Stop, history
<1>2. /\ CopiesOK' /\ CopiesAreSet'
      /\ \A d \in Copies \ {c} : app'[d] = app[d]
  BY <1>1, EndMoves, Tables
<1>3. \A s \in Threads : \/ req'[s] = Idle /\ req[s].at \in CutPoints
                         \/ req'[s] = req[s] /\ (req[s] # Idle => req[s].copy # c)
  BY <1>1
<1>4. req' \in [Threads -> Jobs]
  BY <1>1, Requests, Tables DEF Jobs
<1>5. RequestsAreServed'
  BY <1>1, <1>2, <1>3, OthersServed DEF tables
<1>6. UNCHANGED <<user, org, session>>
  BY <1>1 DEF tables
<1>7. ShapeInv'
  BY <1>1, <1>2, <1>4, <1>5, <1>6, Tables, ShapeKept
<1>8. \A s \in Threads : req'[s] = req[s] \/ (req'[s] = Idle /\ req[s].at \in CutPoints)
  BY <1>3
<1> QED
  BY <1>1, <1>7, <1>8

\* Every step, by what it does.
LEMMA ShapeStep ==
  ASSUME ShapeInv, [Next]_vars
  PROVE  ShapeInv'
<1>1. CASE UNCHANGED vars
  BY <1>1 DEF vars, launchVars, accVars, tables, history, ShapeInv, RowsOK, CopiesOK, CopiesAreSet,
              RequestsAreServed, SessionsHaveUsers, Attended, ByAdmin
<1>2. ASSUME NEW t \in Threads, Serves(t)
      PROVE  ShapeInv'
  BY <1>2, InsertUserDoes, InsertProfileDoes, ReadPlanDoes, InsertOrgDoes, LinkProfileDoes,
     SignupLoginDoes, PatchSaveUserDoes, PatchSaveDoes, PassSaveDoes, PassRehashDoes DEF Serves
<1> QED
  BY <1>1, <1>2, LaunchDoes, StopDoes, MakeBeginDoes, PatchReadDoes, PassReadDoes, SessionDoes
  DEF Next

LEMMA ShapeInit ==
  ASSUME Init
  PROVE  ShapeInv
<1>1. CopiesOK /\ CopiesAreSet /\ app = [c \in Copies |-> Off]
  BY OffIsACopy DEF Init, LaunchInit, CopiesOK, CopiesAreSet, Off
<1>2. RowsOK
  BY <1>1, AccountsAssumption DEF Init, RowsOK
<1> QED
  BY <1>1, <1>2 DEF Init, ShapeInv, RequestsAreServed, SessionsHaveUsers

-----------------------------------------------------------------------------
(* The history *)

\* A request changes of the history of launches only what the end of its process
\* does, and marks at most the organization it makes.
LEMMA ServesMarks ==
  ASSUME ShapeInv, NEW t \in Threads, Serves(t)
  PROVE  /\ UNCHANGED <<rival, broken, spoilt>>
         /\ \/ UNCHANGED <<app, met>>
            \/ req[t].copy \in Copies /\ app[req[t].copy].at = "admin" /\ End(req[t].copy)
         /\ UNCHANGED skimped \/ \E i \in OrgIds : skimped' = skimped \cup {i}
<1>1. CASE InsertUser(t) \/ LinkProfile(t)
  <2>1. UNCHANGED <<rival, broken, spoilt, skimped>>
    BY <1>1 DEF InsertUser, LinkProfile, history
  <2>2. req[t].at \in MakeSteps /\ (MakeEnd(t) \/ UNCHANGED <<app, met>>)
    BY <1>1 DEF InsertUser, LinkProfile, MakeSteps
  <2>3. CASE MakeEnd(t) /\ req[t].super
    BY <2>1, <2>2, <2>3, Request DEF MakeEnd, MakeSteps, Idle, Attended, ByAdmin
  <2> QED
    BY <2>1, <2>2, <2>3 DEF MakeEnd
<1>2. CASE InsertOrg(t)
  BY <1>2 DEF InsertOrg, launchVars, launchHistory
<1>3. CASE InsertProfile(t) \/ ReadPlan(t) \/ SignupLogin(t) \/ PatchSaveUser(t) \/ PatchSave(t)
  BY <1>3 DEF InsertProfile, ReadPlan, SignupLogin, PatchSaveUser, PatchSave, launchVars,
              launchHistory, history
<1>4. CASE PassSave(t) \/ PassRehash(t)
  BY <1>4 DEF PassSave, PassRehash, launchVars, launchHistory, history
<1> QED
  BY <1>1, <1>2, <1>3, <1>4 DEF Serves

\* What a step of the launcher adds to what the copies have met; nothing to a
\* copy that serves.
LEMMA LaunchMarks ==
  ASSUME ShapeInv, MarksOK, NEW c \in Copies, LaunchStep(c)
  PROVE  /\ met' \in [Copies -> SUBSET {"key", "plans", "port"}]
         /\ rival' \in BOOLEAN
         /\ broken' \subseteq broken
         /\ \A d \in Copies : /\ met[d] \subseteq met'[d]
                              /\ app[d].at \in {"admin", "window"} =>
                                   met'[d] \subseteq met[d] \cup {"port"}
                              /\ met'[d] \ met[d] \subseteq {"key", "plans"} => d = c \/ met'[d] = met[d]
<1>1. met \in [Copies -> SUBSET {"key", "plans", "port"}] /\ rival \in BOOLEAN
  BY DEF MarksOK
<1>2. CASE FindKey(c) \/ SeedCheck(c)
  <2>1. PICK what \in {"key", "plans"} : \/ met' = met
                                         \/ met' = [met EXCEPT ![c] = @ \cup {what}]
    BY <1>2 DEF FindKey, SeedCheck, Meets
  <2>2. app[c].at \notin {"admin", "window"} /\ UNCHANGED <<rival, broken>>
    BY <1>2 DEF FindKey, SeedCheck
  <2> QED
    BY <1>1, <2>1, <2>2
<1>3. CASE ProbePort(c)
  <2>1. PICK X \in SUBSET Copies :
          met' = [d \in Copies |-> IF d \in X THEN met[d] \cup {"port"} ELSE met[d]]
    <3>1. PICK p \in Ports :
            met' = [d \in Copies |-> IF Probing(p) # {} /\ d \in Probing(p) \cup {c}
                                     THEN met[d] \cup {"port"} ELSE met[d]]
      BY <1>3 DEF ProbePort
    <3> DEFINE X == {d \in Copies : Probing(p) # {} /\ d \in Probing(p) \cup {c}}
    <3>2. met' = [d \in Copies |-> IF d \in X THEN met[d] \cup {"port"} ELSE met[d]]
      BY <3>1
    <3>3. X \in SUBSET Copies
      OBVIOUS
    <3> HIDE DEF X
    <3> QED
      BY <3>2, <3>3
  <2>2. UNCHANGED <<rival, broken>>
    BY <1>3 DEF ProbePort
  <2> QED
    BY <1>1, <2>1, <2>2
<1>4. CASE DrawKey(c)
  BY <1>1, <1>4 DEF DrawKey, Draws
<1>5. CASE OpenKeyFile(c) \/ WriteKeyFile(c) \/ SeedPlan(c) \/ Prompt(c) \/ Serve(c)
  BY <1>1, <1>5 DEF OpenKeyFile, WriteKeyFile, SeedPlan, Prompt, Serve, launchHistory
<1> QED
  BY <1>2, <1>3, <1>4, <1>5 DEF LaunchStep

\* The kinds of steps, for what is said of the launches: a step of a launcher, the
\* end of a copy, one that signs sessions at most, one that adds a plan.
Launches == \E c \in Copies : LaunchStep(c) /\ UNCHANGED accVars

Ending(c) == /\ End(c)
             /\ broken' = broken \cup ({app[c].at} \cap {"write", "seed"})
             /\ UNCHANGED <<keyFile, plans, rival, session>>

Signing == /\ UNCHANGED launchVars
           /\ \A n \in Names :
                \/ session'[n] \in {None, session[n]}
                \/ \E c \in Copies : app[c].server = "up" /\ session'[n].key = app[c].key

Planning == /\ UNCHANGED <<keyFile, app, launchHistory, session>>
            /\ \E c \in Copies, p \in PlanKeys :
                 app[c].at \in {"admin", "window"} /\ plans' = plans \cup {p}

LEMMA StepKinds ==
  ASSUME ShapeInv, [Next]_vars
  PROVE  Launches \/ (\E c \in Copies : Ending(c)) \/ Signing \/ Planning
<1>1. CASE UNCHANGED vars
  BY <1>1 DEF vars, accVars, tables, Signing
<1>2. ASSUME NEW c \in Copies, Stop(c)
      PROVE  Ending(c)
  BY <1>2 DEF Stop, Ending, tables
<1>3. ASSUME NEW t \in Threads, NEW c \in Copies, NEW n \in Names,
             \/ \E super \in BOOLEAN : MakeBegin(t, c, n, super)
             \/ PatchRead(t, c, n) \/ PassRead(t, c, n)
      PROVE  Signing
  BY <1>3 DEF MakeBegin, PatchRead, PassRead, Signing, tables
<1>4. ASSUME NEW c \in Copies, NEW n \in Names, LoginPost(c, n) \/ LogoutPost(c, n)
      PROVE  Signing
  BY <1>4, SessionDoes DEF Signing
<1>5. ASSUME NEW t \in Threads, Serves(t)
      PROVE  (\E c \in Copies : Ending(c)) \/ Signing \/ Planning
  <2>1. CASE InsertUser(t) \/ LinkProfile(t)
    <3>1. UNCHANGED <<keyFile, plans, session>>
      BY <2>1, InsertUserDoes, LinkProfileDoes
    <3>2. CASE UNCHANGED <<app, met>>
      BY <1>5, <3>1, <3>2, ServesMarks DEF Signing, launchVars, launchHistory
    <3>3. CASE req[t].copy \in Copies /\ app[req[t].copy].at = "admin" /\ End(req[t].copy)
      BY <1>5, <3>1, <3>3, ServesMarks DEF Ending
    <3> QED
      BY <1>5, <3>2, <3>3, ServesMarks
  <2>2. CASE InsertProfile(t) \/ InsertOrg(t) \/ PatchSaveUser(t) \/ PatchSave(t) \/ PassSave(t)
    <3>1. UNCHANGED <<launchVars, session>>
      BY <2>2, InsertProfileDoes, InsertOrgDoes, PatchSaveUserDoes, PatchSaveDoes, PassSaveDoes
    <3> QED
      BY <3>1 DEF Signing
  <2>3. CASE SignupLogin(t) \/ PassRehash(t)
    <3>1. /\ UNCHANGED launchVars /\ req[t].copy \in Copies /\ app[req[t].copy].server = "up"
          /\ SessionMade(req[t].copy, req[t].name)
      BY <2>3, SignupLoginDoes, PassRehashDoes
    <3> QED
      BY <3>1 DEF Signing, SessionMade
  <2>4. CASE ReadPlan(t)
    <3>1. /\ UNCHANGED <<keyFile, app, launchHistory, session>>
          /\ plans' = plans \cup {PlanFor(req[t].super)} /\ req[t].at = "plan"
      BY <2>4, ReadPlanDoes DEF ReadPlan, tables
    <3>2. req[t].copy \in Copies /\ app[req[t].copy].at \in {"admin", "window"}
      BY <3>1, Request, Tables DEF Idle, Attended, CopiesAreSet
    <3>3. PlanFor(req[t].super) \in PlanKeys
      BY PlanKeysAre DEF PlanFor
    <3> QED
      BY <3>1, <3>2, <3>3 DEF Planning
  <2> QED
    BY <1>5, <2>1, <2>2, <2>3, <2>4 DEF Serves
<1> QED
  BY <1>1, <1>2, <1>3, <1>4, <1>5 DEF Next, Launches

LEMMA MarksStep ==
  ASSUME ShapeInv, MarksOK, [Next]_vars
  PROVE  MarksOK'
<1>1. /\ met \in [Copies -> SUBSET {"key", "plans", "port"}] /\ rival \in BOOLEAN
      /\ broken \subseteq {"write", "seed"}
  BY DEF MarksOK
<1>2. /\ met' \in [Copies -> SUBSET {"key", "plans", "port"}]
      /\ rival' \in BOOLEAN /\ broken' \subseteq {"write", "seed"}
  <2>1. CASE Launches
    BY <1>1, <2>1, LaunchMarks DEF Launches
  <2>2. CASE \E c \in Copies : Ending(c)
    BY <1>1, <2>2 DEF Ending, End
  <2>3. CASE Signing \/ Planning
    BY <1>1, <2>3 DEF Signing, Planning, launchVars, launchHistory
  <2> QED
    BY <2>1, <2>2, <2>3, StepKinds
<1>3. spoilt' \subseteq Names /\ skimped' \subseteq OrgIds
  <2>0. spoilt \subseteq Names /\ skimped \subseteq OrgIds
    BY DEF MarksOK
  <2>1. CASE UNCHANGED <<spoilt, skimped>>
    BY <2>0, <2>1
  <2>2. ASSUME NEW t \in Threads, Serves(t)
        PROVE  spoilt' \subseteq Names /\ skimped' \subseteq OrgIds
    BY <2>0, <2>2, ServesMarks
  <2>3. ASSUME NEW c \in Copies, Stop(c)
        PROVE  spoilt' \subseteq Names /\ skimped' \subseteq OrgIds
    BY <2>0, <2>3 DEF Stop
  <2>4. ASSUME NEW t \in Threads, NEW c \in Copies, NEW n \in Names, PatchRead(t, c, n)
        PROVE  spoilt' \subseteq Names /\ skimped' \subseteq OrgIds
    BY <2>0, <2>4 DEF PatchRead
  <2>5. ASSUME NEW t \in Threads, NEW c \in Copies, NEW n \in Names,
               (\E super \in BOOLEAN : MakeBegin(t, c, n, super)) \/ PassRead(t, c, n)
        PROVE  UNCHANGED <<spoilt, skimped>>
    BY <2>5 DEF MakeBegin, PassRead, history
  <2>6. ASSUME NEW c \in Copies, NEW n \in Names, LoginPost(c, n) \/ LogoutPost(c, n)
        PROVE  UNCHANGED <<spoilt, skimped>>
    BY <2>6 DEF LoginPost, LogoutPost, history
  <2> QED
    BY <2>1, <2>2, <2>3, <2>4, <2>5, <2>6 DEF Next, vars, accVars, history
<1> QED
  BY <1>2, <1>3 DEF MarksOK

LEMMA MarksInit ==
  ASSUME Init
  PROVE  MarksOK
  BY DEF Init, LaunchInit, MarksOK

\* Accounts, sessions, requests, the key file, the plans and the copies are at all
\* times of the kinds the launcher and the views make (desktop_app.py,
\* accounts/models.py, accounts/api.py).
THEOREM TypeCorrect == Spec => []TypeOK
<1>1. Spec => [](ShapeInv /\ MarksOK)
  BY ShapeInit, ShapeStep, MarksInit, MarksStep, PTL DEF Spec
<1>2. ShapeInv /\ MarksOK => TypeOK
  BY DEF ShapeInv, MarksOK, RowsOK, CopiesOK, TypeOK, LaunchTypeOK
<1> QED
  BY <1>1, <1>2, PTL

-----------------------------------------------------------------------------
(* One organization each *)

\* A request goes on making, or begins to when there is no such user, or ends.
LEMMA MakersStay ==
  ASSUME ShapeInv, OneOrgInv, UNCHANGED org,
         \A n \in Names : user[n] # None => user'[n] # None,
         \A t \in Threads : IsMaking(t)' =>
           /\ req'[t].name = req[t].name
           /\ \/ /\ IsMaking(t)
                 /\ req'[t].at \in {"profile", "plan", "org"} =>
                      req[t].at \in {"profile", "plan", "org"}
              \/ /\ req[t].at = "user" /\ user[req[t].name] = None
                 /\ \A s \in Threads \ {t} : req'[s] = req[s]
  PROVE  OneOrgInv'
<1>1. \A t \in Threads : req[t].at \in MakeSteps =>
        req[t].name \in Names /\ (IsMaking(t) => user[req[t].name] # None)
  BY Request DEF MakeSteps, Idle, IsMaking, Half, Attended
<1>2. \A i \in OrgIds : org[i] # None => org[i].owner \in Names
  BY Tables DEF OrgRow
<1>3. \A s, t \in Threads : IsMaking(s)' /\ IsMaking(t)' /\ req'[s].name = req'[t].name => s = t
  <2> SUFFICES ASSUME NEW s \in Threads, NEW t \in Threads, IsMaking(s)', IsMaking(t)',
                      req'[s].name = req'[t].name, s # t
               PROVE  FALSE
    OBVIOUS
  <2>1. req[s].name = req[t].name
    OBVIOUS
  <2>2. CASE IsMaking(s) /\ IsMaking(t)
    BY <2>1, <2>2 DEF OneOrgInv, MakersAreOne
  <2>3. CASE ~IsMaking(s)
    <3>1. IsMaking(t) /\ user[req[s].name] = None
      BY <2>3 DEF IsMaking
    <3> QED
      BY <1>1, <2>1, <3>1 DEF IsMaking, MakeSteps, Half
  <2>4. CASE ~IsMaking(t)
    <3>1. IsMaking(s) /\ user[req[t].name] = None
      BY <2>4 DEF IsMaking
    <3> QED
      BY <1>1, <2>1, <3>1 DEF IsMaking, MakeSteps, Half
  <2> QED
    BY <2>2, <2>3, <2>4
<1>4. \A t \in Threads, i \in OrgIds :
        req'[t].at \in {"profile", "plan", "org"} /\ org'[i] # None => org'[i].owner # req'[t].name
  <2> SUFFICES ASSUME NEW t \in Threads, NEW i \in OrgIds, org[i] # None,
                      req'[t].at \in {"profile", "plan", "org"}
               PROVE  org[i].owner # req'[t].name
    OBVIOUS
  <2>1. IsMaking(t)'
    BY DEF IsMaking, Half
  <2> QED
    BY <2>1 DEF OneOrgInv, MakersAreOne
<1>5. \A i \in OrgIds : org'[i] # None => user'[org'[i].owner] # None
  BY <1>2 DEF OneOrgInv, MakersAreOne
<1>6. OneOrgEach'
  BY DEF OneOrgInv, OneOrgEach
<1>7. MakersAreOne'
  BY <1>3, <1>4, <1>5 DEF MakersAreOne
<1> QED
  BY <1>6, <1>7 DEF OneOrgInv

LEMMA OneOrgStep ==
  ASSUME ShapeInv, OneOrgInv, [Next]_vars
  PROVE  OneOrgInv'
<1> USE DEF IsMaking, Half, Becomes, Idle
<1>1. CASE UNCHANGED vars
  BY <1>1, MakersStay DEF vars, accVars, tables
<1>2. ASSUME NEW c \in Copies, LaunchStep(c), UNCHANGED accVars
      PROVE  OneOrgInv'
  BY <1>2, MakersStay, LaunchDoes DEF tables
<1>3. ASSUME NEW c \in Copies, Stop(c)
      PROVE  OneOrgInv'
  BY <1>3, MakersStay, StopDoes DEF tables
<1>4. ASSUME NEW t \in Threads, NEW c \in Copies, NEW n \in Names,
             \/ \E super \in BOOLEAN : MakeBegin(t, c, n, super)
             \/ PatchRead(t, c, n) \/ PassRead(t, c, n)
      PROVE  OneOrgInv'
  <2>1. /\ UNCHANGED tables /\ req'[t].at \in {"user", "patch", "pass"}
        /\ \A s \in Threads \ {t} : req'[s] = req[s]
    BY <1>4, MakeBeginDoes, PatchReadDoes, PassReadDoes
  <2> QED
    BY <2>1, MakersStay DEF tables
<1>5. ASSUME NEW c \in Copies, NEW n \in Names, LoginPost(c, n) \/ LogoutPost(c, n)
      PROVE  OneOrgInv'
  BY <1>5, MakersStay, SessionDoes
<1>6. ASSUME NEW t \in Threads, Serves(t)
      PROVE  OneOrgInv'
  <2>1. CASE InsertUser(t)
    <3>1. /\ UNCHANGED org /\ req[t].at = "user" /\ req[t].name \in Names
          /\ \/ Becomes(t, Idle) /\ UNCHANGED user
             \/ /\ user[req[t].name] = None /\ RowSet(req[t].name, NewUser(t))
                /\ Becomes(t, req'[t]) /\ req'[t].name = req[t].name
      BY <2>1, InsertUserDoes
    <3>2. \A n \in Names : user[n] # None => user'[n] # None
      BY <3>1 DEF RowSet
    <3> QED
      BY <3>1, <3>2, MakersStay
  <2>2. CASE InsertProfile(t)
    <3>1. \A n \in Names : user[n] # None => user'[n] # None
      BY <2>2, InsertProfileDoes DEF RowSet
    <3> QED
      BY <2>2, <3>1, InsertProfileDoes, MakersStay
  <2>3. CASE ReadPlan(t)
    BY <2>3, ReadPlanDoes, MakersStay DEF tables
  <2>4. CASE LinkProfile(t)
    <3>1. \A n \in Names : user[n] # None => user'[n] # None
      BY <2>4, LinkProfileDoes DEF RowSet
    <3> QED
      BY <2>4, <3>1, LinkProfileDoes, MakersStay
  <2>5. CASE SignupLogin(t)
    BY <2>5, SignupLoginDoes, MakersStay
  <2>6. CASE PatchSaveUser(t)
    <3>1. \A n \in Names : user[n] # None => user'[n] # None
      BY <2>6, PatchSaveUserDoes DEF RowSet
    <3> QED
      BY <2>6, <3>1, PatchSaveUserDoes, MakersStay
  <2>7. CASE PatchSave(t)
    <3>1. \A n \in Names : user[n] # None => user'[n] # None
      BY <2>7, PatchSaveDoes DEF RowSet
    <3> QED
      BY <2>7, <3>1, PatchSaveDoes, MakersStay
  <2>8. CASE PassSave(t)
    <3>1. \A n \in Names : user[n] # None => user'[n] # None
      BY <2>8, PassSaveDoes DEF RowSet
    <3> QED
      BY <2>8, <3>1, PassSaveDoes, MakersStay
  <2>9. CASE PassRehash(t)
    BY <2>9, PassRehashDoes, MakersStay
  <2>10. CASE InsertOrg(t)
    <3>1. PICK i \in OrgIds :
            /\ org[i] = None /\ org'[i] # None /\ org'[i].owner = req[t].name
            /\ \A j \in OrgIds \ {i} : org'[j] = org[j]
      BY <2>10, InsertOrgDoes
    <3>2. /\ UNCHANGED user /\ req[t].at = "org" /\ user[req[t].name] # None
          /\ Becomes(t, req'[t]) /\ req'[t].at = "link" /\ req'[t].name = req[t].name
      BY <2>10, InsertOrgDoes
    <3>3. \A j \in OrgIds : org[j] # None => org[j].owner # req[t].name
      BY <3>2 DEF OneOrgInv, MakersAreOne
    <3>4. OneOrgEach'
      BY <3>1, <3>3 DEF OneOrgInv, OneOrgEach
    <3>5. \A s, u \in Threads :
            IsMaking(s)' /\ IsMaking(u)' /\ req'[s].name = req'[u].name => s = u
      BY <3>2 DEF OneOrgInv, MakersAreOne
    <3>6. \A s \in Threads, j \in OrgIds :
            req'[s].at \in {"profile", "plan", "org"} /\ org'[j] # None
              => org'[j].owner # req'[s].name
      BY <3>1, <3>2 DEF OneOrgInv, MakersAreOne
    <3>7. \A j \in OrgIds : org'[j] # None => user'[org'[j].owner] # None
      BY <3>1, <3>2 DEF OneOrgInv, MakersAreOne
    <3> QED
      BY <3>4, <3>5, <3>6, <3>7 DEF OneOrgInv, MakersAreOne
  <2> QED
    BY <1>6, <2>1, <2>2, <2>3, <2>4, <2>5, <2>6, <2>7, <2>8, <2>9, <2>10 DEF Serves
<1> QED
  BY <1>1, <1>2, <1>3, <1>4, <1>5, <1>6 DEF Next

\* Two signups for one name pass the check of the form together, and the unique
\* index lets one of them through; whatever else goes on, nobody comes to own two
\* organizations (accounts/serializers.py:47-50, 71-75).
THEOREM OneOrganizationEach == Spec => []OneOrgEach
<1>1. Init => OneOrgInv
  BY DEF Init, OneOrgInv, OneOrgEach, MakersAreOne, IsMaking, Half, Idle
<1>2. Spec => [](ShapeInv /\ OneOrgInv)
  BY <1>1, ShapeInit, ShapeStep, OneOrgStep, PTL DEF Spec
<1>3. OneOrgInv => OneOrgEach
  BY DEF OneOrgInv
<1> QED
  BY <1>2, <1>3, PTL

-----------------------------------------------------------------------------
(* Passwords *)

\* A step that changes no password, and begins an edit only with what it reads.
LEMMA PasswordsStay ==
  ASSUME ShapeInv, PasswordInv, UNCHANGED <<chosen, raced>>,
         \A n \in Names : \/ user'[n] = user[n]
                          \/ user[n] = None /\ user'[n].password = 0
                          \/ user[n] # None /\ user'[n] # None
                             /\ user'[n].password = user[n].password,
         \A t \in Threads : req'[t].at = "patch" =>
           \/ req'[t] = req[t]
           \/ /\ req'[t].name \in Names /\ user[req'[t].name] # None
              /\ req'[t].password = user[req'[t].name].password
  PROVE  PasswordInv'
<1>1. ASSUME NEW t \in Threads, req'[t].at = "patch", req'[t].name \notin raced
      PROVE  req'[t].password = user'[req'[t].name].password
  <2>1. CASE req'[t] = req[t]
    <3>1. req[t].name \in Names /\ user[req[t].name] # None
      BY <1>1, <2>1, Request DEF Idle, Attended
    <3>2. req[t].password = user[req[t].name].password
      BY <1>1, <2>1 DEF PasswordInv, EditsAreFresh
    <3> QED
      BY <2>1, <3>1, <3>2
  <2>2. CASE req'[t] # req[t]
    BY <1>1, <2>2
  <2> QED
    BY <2>1, <2>2
<1>2. EditsAreFresh'
  BY <1>1 DEF EditsAreFresh
<1>3. PasswordStands'
  BY DEF PasswordInv, PasswordStands
<1>4. \A n \in Names : user'[n] = None => chosen'[n] = 0
  BY DEF PasswordInv
<1> QED
  BY <1>2, <1>3, <1>4 DEF PasswordInv

LEMMA PasswordStep ==
  ASSUME ShapeInv, PasswordInv, [Next]_vars
  PROVE  PasswordInv'
<1> USE DEF Becomes, Idle
<1>1. CASE UNCHANGED vars
  BY <1>1, PasswordsStay DEF vars, accVars, tables, history
<1>2. ASSUME NEW c \in Copies, LaunchStep(c), UNCHANGED accVars
      PROVE  PasswordInv'
  BY <1>2, PasswordsStay, LaunchDoes DEF tables
<1>3. ASSUME NEW c \in Copies, Stop(c)
      PROVE  PasswordInv'
  BY <1>3, PasswordsStay, StopDoes DEF tables
<1>4. ASSUME NEW t \in Threads, NEW c \in Copies, NEW n \in Names,
             \/ \E super \in BOOLEAN : MakeBegin(t, c, n, super)
             \/ PassRead(t, c, n)
      PROVE  PasswordInv'
  <2>1. /\ UNCHANGED <<tables, chosen, raced>> /\ req'[t].at \in {"user", "pass"}
        /\ \A s \in Threads \ {t} : req'[s] = req[s]
    BY <1>4, MakeBeginDoes, PassReadDoes
  <2> QED
    BY <2>1, PasswordsStay DEF tables
<1>5. ASSUME NEW t \in Threads, NEW c \in Copies, NEW n \in Names, PatchRead(t, c, n)
      PROVE  PasswordInv'
  <2>1. /\ UNCHANGED <<tables, chosen, raced>> /\ session[n] # None
        /\ req'[t].name = n /\ req'[t].password = user[n].password
        /\ \A s \in Threads \ {t} : req'[s] = req[s]
    BY <1>5, PatchReadDoes
  <2>2. user[n] # None
    BY <2>1, Tables
  <2> QED
    BY <2>1, <2>2, PasswordsStay DEF tables
<1>6. ASSUME NEW c \in Copies, NEW n \in Names, LoginPost(c, n) \/ LogoutPost(c, n)
      PROVE  PasswordInv'
  BY <1>6, PasswordsStay, SessionDoes
<1>7. ASSUME NEW t \in Threads, Serves(t)
      PROVE  PasswordInv'
  <2>1. CASE InsertUser(t)
    <3>1. CASE Becomes(t, Idle) /\ UNCHANGED user
      BY <2>1, <3>1, InsertUserDoes, PasswordsStay
    <3>2. CASE user[req[t].name] = None /\ RowSet(req[t].name, NewUser(t)) /\ req'[t].at = "profile"
               /\ Becomes(t, req'[t])
      <4>1. /\ UNCHANGED <<chosen, raced>>
            /\ \A m \in Names : \/ user'[m] = user[m]
                                \/ user[m] = None /\ user'[m].password = 0
        BY <2>1, <3>2, InsertUserDoes DEF RowSet, NewUser
      <4> QED
        BY <3>2, <4>1, PasswordsStay
    <3> QED
      BY <2>1, <3>1, <3>2, InsertUserDoes
  <2>2. CASE InsertProfile(t)
    <3>1. \A n \in Names : \/ user'[n] = user[n]
                           \/ user[n] # None /\ user'[n] # None
                              /\ user'[n].password = user[n].password
      BY <2>2, InsertProfileDoes DEF RowSet
    <3> QED
      BY <2>2, <3>1, InsertProfileDoes, PasswordsStay
  <2>3. CASE ReadPlan(t)
    BY <2>3, ReadPlanDoes, PasswordsStay DEF tables
  <2>4. CASE InsertOrg(t)
    BY <2>4, InsertOrgDoes, PasswordsStay
  <2>5. CASE LinkProfile(t)
    <3>1. \A n \in Names : \/ user'[n] = user[n]
                           \/ user[n] # None /\ user'[n] # None
                              /\ user'[n].password = user[n].password
      BY <2>5, LinkProfileDoes DEF RowSet
    <3> QED
      BY <2>5, <3>1, LinkProfileDoes, PasswordsStay
  <2>6. CASE SignupLogin(t)
    BY <2>6, SignupLoginDoes, PasswordsStay
  <2>7. CASE PatchSave(t)
    <3>1. \A n \in Names : \/ user'[n] = user[n]
                           \/ user[n] # None /\ user'[n] # None
                              /\ user'[n].password = user[n].password
      BY <2>7, PatchSaveDoes DEF RowSet
    <3> QED
      BY <2>7, <3>1, PatchSaveDoes, PasswordsStay
  <2>8. CASE PassRehash(t)
    BY <2>8, PassRehashDoes, PasswordsStay
  <2>9. CASE PatchSaveUser(t)
    <3> DEFINE n == req[t].name
    <3>1. /\ UNCHANGED <<chosen, raced>> /\ req[t].at = "patch" /\ n \in Names /\ user[n] # None
          /\ RowSet(n, user'[n]) /\ user'[n].password = req[t].password
          /\ req'[t].at = "label" /\ \A s \in Threads \ {t} : req'[s] = req[s]
      BY <2>9, PatchSaveUserDoes
    <3>2. n \notin raced => user'[n].password = user[n].password
      BY <3>1 DEF PasswordInv, EditsAreFresh
    <3>3. EditsAreFresh'
      BY <3>1, <3>2, Request DEF PasswordInv, EditsAreFresh, RowSet
    <3>4. PasswordStands'
      BY <3>1, <3>2 DEF PasswordInv, PasswordStands, RowSet
    <3>5. \A m \in Names : user'[m] = None => chosen'[m] = 0
      BY <3>1 DEF PasswordInv, RowSet
    <3> QED
      BY <3>3, <3>4, <3>5 DEF PasswordInv
  <2>10. CASE PassSave(t)
    <3> DEFINE n == req[t].name
    <3>1. /\ req[t].at = "pass" /\ n \in Names /\ user[n] # None
          /\ RowSet(n, user'[n]) /\ user'[n].password = req[t].password
          /\ chosen' = [chosen EXCEPT ![n] = req[t].password]
          /\ raced \subseteq raced' /\ \A s \in Threads : Edits(s, n) => n \in raced'
          /\ req'[t].at = "hash" /\ \A s \in Threads \ {t} : req'[s] = req[s]
      BY <2>10, PassSaveDoes
    <3>2. chosen'[n] = req[t].password /\ \A m \in Names \ {n} : chosen'[m] = chosen[m]
      BY <3>1, Tables
    <3>3. EditsAreFresh'
      BY <3>1, Request DEF PasswordInv, EditsAreFresh, RowSet, Edits
    <3>4. PasswordStands'
      BY <3>1, <3>2 DEF PasswordInv, PasswordStands, RowSet
    <3>5. \A m \in Names : user'[m] = None => chosen'[m] = 0
      BY <3>1, <3>2 DEF PasswordInv, RowSet
    <3> QED
      BY <3>3, <3>4, <3>5 DEF PasswordInv
  <2> QED
    BY <1>7, <2>1, <2>2, <2>3, <2>4, <2>5, <2>6, <2>7, <2>8, <2>9, <2>10 DEF Serves
<1> QED
  BY <1>1, <1>2, <1>3, <1>4, <1>5, <1>6, <1>7 DEF Next

\* A changed password is not undone by anything but a profile edit that had
\* loaded the user before: not by a signup, a login, another copy or the end of
\* one (accounts/serializers.py:28-37, accounts/api.py PasswordChangeAPI.post).
THEOREM PasswordsStand == Spec => []PasswordStands
<1>1. Init => PasswordInv
  BY DEF Init, PasswordInv, PasswordStands, EditsAreFresh, Idle
<1>2. Spec => [](ShapeInv /\ PasswordInv)
  BY <1>1, ShapeInit, ShapeStep, PasswordStep, PTL DEF Spec
<1>3. PasswordInv => PasswordStands
  BY DEF PasswordInv
<1> QED
  BY <1>2, <1>3, PTL

-----------------------------------------------------------------------------
(* What the launcher's steps do to a copy *)

\* The copy c moves to `at` and keeps everything else.
LEMMA GoFields ==
  ASSUME CopiesOK, NEW c \in Copies, NEW at, Go(c, at)
  PROVE  /\ app'[c].at = at /\ app'[c].key = app[c].key /\ app'[c].port = app[c].port
         /\ app'[c].server = app[c].server /\ app'[c].next = app[c].next
         /\ \A d \in Copies \ {c} : app'[d] = app[d]
  BY CopyShape DEF Go, CopiesOK

LEMMA StepFields ==
  ASSUME CopiesOK, NEW c \in Copies
  PROVE  LET r == app[c]
             n == app'[c]
         IN  /\ FindKey(c) => /\ n.at = "boot" /\ n.key = keyFile
                              /\ n.port = r.port /\ n.server = r.server
             /\ \A k : Draws(c, k) => /\ n.at = "draw" /\ n.key = k
                                      /\ n.port = r.port /\ n.server = r.server
             /\ app' = [app EXCEPT ![c].at = "seed", ![c].next = 1] =>
                  /\ n.at = "seed" /\ n.next = 1 /\ n.key = r.key
                  /\ n.port = r.port /\ n.server = r.server
             /\ app' = [app EXCEPT ![c].next = @ + 1] =>
                  /\ n.at = r.at /\ n.next = r.next + 1 /\ n.key = r.key
                  /\ n.port = r.port /\ n.server = r.server
             /\ \A p : app' = [app EXCEPT ![c].at = "window", ![c].port = p, ![c].server = "starting"]
                  => n.at = "window" /\ n.key = r.key /\ n.port = p /\ n.server = "starting"
             /\ Serve(c) => /\ n.at = r.at /\ n.key = r.key /\ n.port = r.port
                            /\ n.server = IF Listening(r.port) THEN "failed" ELSE "up"
<1>1. app \in [Copies -> AppRow] /\ DOMAIN app[c] = {"at", "key", "port", "server", "next"}
  BY CopyShape DEF CopiesOK
<1>2. FindKey(c) => /\ app'[c].at = "boot" /\ app'[c].key = keyFile
                    /\ app'[c].port = app[c].port /\ app'[c].server = app[c].server
  BY <1>1 DEF FindKey
<1>3. \A k : Draws(c, k) => /\ app'[c].at = "draw" /\ app'[c].key = k
                            /\ app'[c].port = app[c].port /\ app'[c].server = app[c].server
  BY <1>1 DEF Draws
<1>4. app' = [app EXCEPT ![c].at = "seed", ![c].next = 1] =>
        /\ app'[c].at = "seed" /\ app'[c].next = 1 /\ app'[c].key = app[c].key
        /\ app'[c].port = app[c].port /\ app'[c].server = app[c].server
  BY <1>1
<1>5. app' = [app EXCEPT ![c].next = @ + 1] =>
        /\ app'[c].at = app[c].at /\ app'[c].next = app[c].next + 1 /\ app'[c].key = app[c].key
        /\ app'[c].port = app[c].port /\ app'[c].server = app[c].server
  BY <1>1
<1>6. \A p : app' = [app EXCEPT ![c].at = "window", ![c].port = p, ![c].server = "starting"] =>
        /\ app'[c].at = "window" /\ app'[c].key = app[c].key
        /\ app'[c].port = p /\ app'[c].server = "starting"
  BY <1>1
<1>7. Serve(c) => /\ app'[c].at = app[c].at /\ app'[c].key = app[c].key /\ app'[c].port = app[c].port
                  /\ app'[c].server = IF Listening(app[c].port) THEN "failed" ELSE "up"
  BY <1>1 DEF Serve
<1> QED
  BY <1>2, <1>3, <1>4, <1>5, <1>6, <1>7

\* Where a copy's step is, and what becomes of its server.
LEMMA StepServer ==
  ASSUME ShapeInv, NEW c \in Copies, LaunchStep(c)
  PROVE  \/ ProbePort(c) \/ Serve(c)
         \/ app'[c].server = "none" /\ app'[c].at # "window" /\ app[c].server = "none"
<1>1. CopiesOK /\ (app[c].server # "none" => app[c].at = "window")
  BY Tables DEF CopiesAreSet
<1>2. CASE FindKey(c) \/ DrawKey(c)
  <2>1. app[c].at = "off"
    BY <1>2 DEF FindKey, DrawKey
  <2>2. /\ FindKey(c) => app'[c].at = "boot" /\ app'[c].server = app[c].server
        /\ \A k : Draws(c, k) => app'[c].at = "draw" /\ app'[c].server = app[c].server
    BY <1>1, StepFields
  <2>3. DrawKey(c) => \E k \in Secrets : Draws(c, k)
    BY DEF DrawKey
  <2>4. app'[c].at \in {"boot", "draw"} /\ app'[c].server = app[c].server
    BY <1>2, <2>2, <2>3
  <2> QED
    BY <1>1, <2>1, <2>4
<1>3. CASE OpenKeyFile(c) \/ WriteKeyFile(c) \/ Prompt(c)
  <2>1. PICK at \in {"write", "boot", "admin"} : Go(c, at) /\ app[c].at # "window"
    BY <1>3 DEF OpenKeyFile, WriteKeyFile, Prompt
  <2>2. app'[c].at = at /\ app'[c].server = app[c].server
    BY <1>1, <2>1, GoFields
  <2> QED
    BY <1>1, <2>1, <2>2
<1>4. CASE SeedCheck(c)
  <2>1. app[c].at = "boot"
    BY <1>4 DEF SeedCheck
  <2>2. CASE app' = [app EXCEPT ![c].at = "seed", ![c].next = 1]
    BY <1>1, <2>1, <2>2, StepFields
  <2>3. CASE Go(c, "ready")
    BY <1>1, <2>1, <2>3, GoFields
  <2> QED
    BY <1>4, <2>2, <2>3 DEF SeedCheck
<1>5. CASE SeedPlan(c)
  <2>1. app[c].at = "seed"
    BY <1>5 DEF SeedPlan
  <2>2. CASE app' = [app EXCEPT ![c].next = @ + 1]
    BY <1>1, <2>1, <2>2, StepFields
  <2>3. CASE Go(c, "ready")
    BY <1>1, <2>1, <2>3, GoFields
  <2> QED
    BY <1>5, <2>2, <2>3 DEF SeedPlan
<1> QED
  BY <1>2, <1>3, <1>4, <1>5 DEF LaunchStep

\* The end of a copy: the others and what they have met stay.
LEMMA EndFields ==
  ASSUME ShapeInv, MarksOK, NEW c \in Copies, End(c)
  PROVE  /\ app'[c] = Off /\ met'[c] = {}
         /\ app'[c].at = "off" /\ app'[c].server = "none" /\ app'[c].key = None
         /\ \A d \in Copies \ {c} : app'[d] = app[d] /\ met'[d] = met[d]
  BY Tables DEF End, CopiesOK, MarksOK, Off

-----------------------------------------------------------------------------
(* Ports *)

LEMMA PortStep ==
  ASSUME ShapeInv, MarksOK, PortInv, [Next]_vars
  PROVE  PortInv'
<1>0. /\ \A d \in Copies : app[d].server = "starting" /\ "port" \notin met[d] =>
           /\ ~Listening(app[d].port)
           /\ \A e \in Copies \ {d} : app[e].server = "starting" => app[e].port # app[d].port
      /\ \A d \in Copies : app[d].at = "window" /\ "port" \notin met[d] =>
           app[d].server \in {"starting", "up"}
  BY DEF PortInv, WindowIsServed
<1>1. ASSUME NEW c \in Copies, LaunchStep(c)
      PROVE  PortInv'
  <2>1. /\ CopiesOK
        /\ \A d \in Copies \ {c} : app'[d] = app[d]
        /\ \A d \in Copies : met[d] \subseteq met'[d]
    BY <1>1, Tables, LaunchMoves, LaunchMarks
  <2>2. CASE app'[c].server = "none" /\ app'[c].at # "window" /\ app[c].server = "none"
    <3>1. \A p \in Ports \cup {None} : Listening(p)' => Listening(p)
      BY <2>1, <2>2 DEF Listening
    <3>2. \A d \in Copies : app'[d].server = "starting" => d # c /\ app[d].port \in Ports \cup {None}
      BY <2>1, <2>2, CopyShape
    <3>3. \A d \in Copies : app'[d].server = "starting" /\ "port" \notin met'[d] =>
            /\ ~Listening(app[d].port)'
            /\ \A e \in Copies \ {d} : app'[e].server = "starting" => app'[e].port # app'[d].port
      BY <1>0, <2>1, <2>2, <3>2 DEF Listening
    <3> QED
      BY <1>0, <2>1, <2>2, <3>3 DEF PortInv, WindowIsServed, Listening
  <2>3. CASE ProbePort(c)
    <3>1. PICK p \in Ports :
            /\ Probed(p)
            /\ app' = [app EXCEPT ![c].at = "window", ![c].port = p, ![c].server = "starting"]
            /\ met' = [d \in Copies |-> IF Probing(p) # {} /\ d \in Probing(p) \cup {c}
                                        THEN met[d] \cup {"port"} ELSE met[d]]
      BY <2>3 DEF ProbePort
    <3>2. app'[c].at = "window" /\ app'[c].port = p /\ app'[c].server = "starting"
      BY <2>1, <3>1, StepFields
    <3>3. app[c].server = "none"
      BY <2>3, Tables DEF ProbePort, CopiesAreSet
    <3>4. \A q : Listening(q)' <=> Listening(q)
      BY <2>1, <3>2, <3>3 DEF Listening
    <3>5. ~Listening(p)
      BY <3>1 DEF Probed
    <3>6. \A d \in Copies : d \in Probing(p) => "port" \in met'[d] /\ "port" \in met'[c]
      BY <3>1
    <3>7. \A d \in Copies : app'[d].server = "starting" /\ "port" \notin met'[d] =>
            /\ ~(\E e \in Copies : app'[e].server = "up" /\ app'[e].port = app'[d].port)
            /\ \A e \in Copies \ {d} : app'[e].server = "starting" => app'[e].port # app'[d].port
      <4> SUFFICES ASSUME NEW d \in Copies, app'[d].server = "starting", "port" \notin met'[d]
                   PROVE  /\ ~Listening(app'[d].port)
                          /\ \A e \in Copies \ {d} : app'[e].server = "starting" =>
                               app'[e].port # app'[d].port
        BY <2>1, <3>2, <3>3 DEF Listening
      <4>1. CASE d = c
        BY <2>1, <3>2, <3>5, <3>6, <4>1 DEF Probing
      <4>2. CASE d # c
        BY <1>0, <2>1, <3>2, <3>6, <4>2 DEF Probing
      <4> QED
        BY <4>1, <4>2
    <3>8. \A d \in Copies : app'[d].at = "window" /\ "port" \notin met'[d] =>
            app'[d].server \in {"starting", "up"}
      BY <1>0, <2>1, <3>2
    <3> QED
      BY <3>7, <3>8 DEF PortInv, WindowIsServed, Listening
  <2>4. CASE Serve(c)
    <3>1. /\ app'[c].at = app[c].at /\ app'[c].port = app[c].port /\ app[c].server = "starting"
          /\ app'[c].server = IF Listening(app[c].port) THEN "failed" ELSE "up"
          /\ UNCHANGED met
      BY <2>1, <2>4, StepFields DEF Serve, launchHistory
    <3>2. \A d \in Copies : app'[d].server = "starting" /\ "port" \notin met'[d] =>
            /\ ~(\E e \in Copies : app'[e].server = "up" /\ app'[e].port = app'[d].port)
            /\ \A e \in Copies \ {d} : app'[e].server = "starting" => app'[e].port # app'[d].port
      BY <1>0, <2>1, <3>1 DEF Listening
    <3>3. \A d \in Copies : app'[d].at = "window" /\ "port" \notin met'[d] =>
            app'[d].server \in {"starting", "up"}
      BY <1>0, <2>1, <3>1
    <3> QED
      BY <3>2, <3>3 DEF PortInv, WindowIsServed, Listening
  <2> QED
    BY <1>1, <2>2, <2>3, <2>4, StepServer
<1>2. ASSUME NEW c \in Copies, Ending(c)
      PROVE  PortInv'
  <2>1. /\ app'[c].at = "off" /\ app'[c].server = "none"
        /\ \A d \in Copies \ {c} : app'[d] = app[d] /\ met'[d] = met[d]
    BY <1>2, EndFields DEF Ending
  <2>2. \A d \in Copies : app'[d].server = "starting" /\ "port" \notin met'[d] =>
          /\ ~(\E e \in Copies : app'[e].server = "up" /\ app'[e].port = app'[d].port)
          /\ \A e \in Copies \ {d} : app'[e].server = "starting" => app'[e].port # app'[d].port
    BY <1>0, <2>1 DEF Listening
  <2> QED
    BY <1>0, <2>1, <2>2 DEF PortInv, WindowIsServed, Listening
<1>3. CASE UNCHANGED <<app, met>>
  BY <1>3 DEF PortInv, WindowIsServed, Listening
<1> QED
  BY <1>1, <1>2, <1>3, StepKinds DEF Launches, Signing, Planning, launchVars, launchHistory

\* The port that was probed is still free when the server thread binds it, and no
\* window opens on the server of another copy, but for copies that had both probed
\* it before either bound it (desktop_app.py free_port, run_server, main).
THEOREM WindowsAreServed == Spec => []WindowIsServed
<1>1. Init => PortInv
  BY DEF Init, LaunchInit, Off, PortInv, WindowIsServed
<1>2. Spec => [](ShapeInv /\ MarksOK /\ PortInv)
  BY <1>1, ShapeInit, ShapeStep, MarksInit, MarksStep, PortStep, PTL DEF Spec
<1>3. PortInv => WindowIsServed
  BY DEF PortInv
<1> QED
  BY <1>2, <1>3, PTL

-----------------------------------------------------------------------------
(* Keys *)

\* Past the key file, a copy keeps its key and leaves the file alone.
LEMMA LaterSteps ==
  ASSUME ShapeInv, NEW c \in Copies,
         SeedCheck(c) \/ SeedPlan(c) \/ Prompt(c) \/ ProbePort(c) \/ Serve(c)
  PROVE  /\ app[c].at \notin {"off", "draw", "write"} /\ app'[c].at \notin {"off", "draw", "write"}
         /\ app'[c].key = app[c].key
         /\ UNCHANGED <<keyFile, rival>>
         /\ "write" \in broken => "write" \in broken'
<1>1. CopiesOK /\ (app[c].server # "none" => app[c].at = "window")
  BY Tables DEF CopiesAreSet
<1>2. UNCHANGED <<keyFile, rival>> /\ ("write" \in broken => "write" \in broken')
  BY DEF SeedCheck, SeedPlan, Prompt, ProbePort, Serve, launchHistory
<1>3. app[c].at \notin {"off", "draw", "write"}
  BY <1>1 DEF SeedCheck, SeedPlan, Prompt, ProbePort, Serve
<1>4. \/ \E at \in {"ready", "admin"} : Go(c, at)
      \/ app' = [app EXCEPT ![c].at = "seed", ![c].next = 1]
      \/ app' = [app EXCEPT ![c].next = @ + 1]
      \/ \E p \in Ports :
           app' = [app EXCEPT ![c].at = "window", ![c].port = p, ![c].server = "starting"]
      \/ Serve(c)
  BY DEF SeedCheck, SeedPlan, Prompt, ProbePort
<1>5. app'[c].at \notin {"off", "draw", "write"} /\ app'[c].key = app[c].key
  <2>1. ASSUME NEW at \in {"ready", "admin"}, Go(c, at)
        PROVE  app'[c].at = at /\ app'[c].key = app[c].key
    BY <1>1, <2>1, GoFields
  <2>2. ASSUME NEW p \in Ports,
               app' = [app EXCEPT ![c].at = "window", ![c].port = p, ![c].server = "starting"]
        PROVE  app'[c].at = "window" /\ app'[c].key = app[c].key
    BY <1>1, <2>2, StepFields
  <2>3. CASE app' = [app EXCEPT ![c].at = "seed", ![c].next = 1]
    BY <1>1, <2>3, StepFields
  <2>4. CASE app' = [app EXCEPT ![c].next = @ + 1]
    BY <1>1, <1>3, <2>4, StepFields
  <2>5. CASE Serve(c)
    BY <1>1, <1>3, <2>5, StepFields
  <2> QED
    BY <1>4, <2>1, <2>2, <2>3, <2>4, <2>5
<1> QED
  BY <1>2, <1>3, <1>5

\* What the first steps do to the key of a copy and to the file.
LEMMA FirstSteps ==
  ASSUME ShapeInv, NEW c \in Copies
  PROVE  /\ FindKey(c) => /\ app[c].at = "off" /\ keyFile # None /\ UNCHANGED <<keyFile, broken, rival>>
                          /\ app'[c].at = "boot" /\ app'[c].key = keyFile
         /\ DrawKey(c) => /\ app[c].at = "off" /\ keyFile = None /\ UNCHANGED <<keyFile, broken>>
                          /\ app'[c].at = "draw" /\ app'[c].key \in Secrets
                          /\ rival' = (Drawn # {})
         /\ OpenKeyFile(c) => /\ app[c].at = "draw" /\ keyFile' = "" /\ UNCHANGED <<broken, rival>>
                              /\ app'[c].at = "write" /\ app'[c].key = app[c].key
         /\ WriteKeyFile(c) => /\ app[c].at = "write" /\ keyFile' = app[c].key /\ UNCHANGED rival
                               /\ app'[c].at = "boot" /\ app'[c].key = app[c].key
<1>0. CopiesOK
  BY Tables
<1>1. CASE FindKey(c)
  <2>1. app'[c].at = "boot" /\ app'[c].key = keyFile
    BY <1>0, <1>1, StepFields
  <2>2. app[c].at = "off" /\ keyFile # None /\ UNCHANGED <<keyFile, broken, rival>>
    BY <1>1 DEF FindKey
  <2>3. ~DrawKey(c) /\ ~OpenKeyFile(c) /\ ~WriteKeyFile(c)
    BY <2>2 DEF DrawKey, OpenKeyFile, WriteKeyFile
  <2> QED
    BY <2>1, <2>2, <2>3
<1>2. CASE DrawKey(c)
  <2>1. PICK k \in Secrets : Draws(c, k)
    BY <1>2 DEF DrawKey
  <2>2. app'[c].at = "draw" /\ app'[c].key = k
    <3>1. app \in [Copies -> AppRow] /\ DOMAIN app[c] = {"at", "key", "port", "server", "next"}
      BY <1>0, CopyShape DEF CopiesOK
    <3>2. app' = [app EXCEPT ![c].at = "draw", ![c].key = k]
      BY <2>1 DEF Draws
    <3> QED
      BY <3>1, <3>2
  <2>3. app[c].at = "off" /\ keyFile = None /\ UNCHANGED <<keyFile, broken>> /\ rival' = (Drawn # {})
    BY <1>2, <2>1 DEF DrawKey, Draws
  <2>4. ~FindKey(c) /\ ~OpenKeyFile(c) /\ ~WriteKeyFile(c)
    BY <2>3 DEF FindKey, OpenKeyFile, WriteKeyFile
  <2> QED
    BY <2>2, <2>3, <2>4
<1>3. CASE OpenKeyFile(c)
  BY <1>0, <1>3, GoFields DEF FindKey, DrawKey, OpenKeyFile, WriteKeyFile, launchHistory
<1>4. CASE WriteKeyFile(c)
  BY <1>0, <1>4, GoFields DEF FindKey, DrawKey, OpenKeyFile, WriteKeyFile
<1> QED
  BY <1>1, <1>2, <1>3, <1>4

LEMMA KeyStep ==
  ASSUME ShapeInv, MarksOK, KeyInv, [Next]_vars
  PROVE  KeyInv'
<1>0. /\ keyFile = "" => "write" \in broken \/ \E d \in Copies : app[d].at = "write"
      /\ \A c \in Copies : app[c].at \in {"draw", "write"} => app[c].key \in Secrets
      /\ \A c \in Copies : app[c].at \notin {"off", "draw", "write"} =>
           "key" \in met[c] \/ app[c].key \in Secrets
      /\ keyFile \in Secrets \cup {"", None} /\ "" \notin Secrets /\ None \notin Secrets /\ None # ""
  BY Tables, LaunchAssumption DEF KeyInv, Drawn, CopiesOK
<1> DEFINE Good == /\ keyFile' = "" => "write" \in broken' \/ \E d \in Copies : app'[d].at = "write"
                   /\ \A c \in Copies : app'[c].at \in {"draw", "write"} => app'[c].key \in Secrets
                   /\ \A c \in Copies : app'[c].at \notin {"off", "draw", "write"} =>
                        "key" \in met'[c] \/ app'[c].key \in Secrets
<1> SUFFICES Good
  BY DEF KeyInv, Drawn
<1>1. ASSUME NEW c \in Copies, LaunchStep(c)
      PROVE  Good
  <2>1. /\ \A d \in Copies \ {c} : app'[d] = app[d]
        /\ \A d \in Copies : met[d] \subseteq met'[d]
    BY <1>1, Tables, LaunchMoves, LaunchMarks
  <2>2. CASE FindKey(c)
    <3>1. /\ app[c].at = "off" /\ keyFile # None /\ UNCHANGED <<keyFile, broken>>
          /\ app'[c].at = "boot" /\ app'[c].key = keyFile
      BY <2>2, FirstSteps
    <3>2. keyFile = "" => "key" \in met'[c]
      BY <1>0, <2>2 DEF FindKey, Meets, MarksOK
    <3> QED
      BY <1>0, <2>1, <3>1, <3>2
  <2>3. CASE DrawKey(c)
    <3>1. /\ keyFile = None /\ UNCHANGED <<keyFile, broken>>
          /\ app'[c].at = "draw" /\ app'[c].key \in Secrets
      BY <2>3, FirstSteps
    <3> QED
      BY <1>0, <2>1, <3>1
  <2>4. CASE OpenKeyFile(c)
    <3>1. app[c].at = "draw" /\ app'[c].at = "write" /\ app'[c].key = app[c].key
      BY <2>4, FirstSteps
    <3> QED
      BY <1>0, <2>1, <3>1
  <2>5. CASE WriteKeyFile(c)
    <3>1. /\ app[c].at = "write" /\ keyFile' = app[c].key
          /\ app'[c].at = "boot" /\ app'[c].key = app[c].key
      BY <2>5, FirstSteps
    <3>2. app[c].key \in Secrets
      BY <1>0, <3>1
    <3> QED
      BY <1>0, <2>1, <3>1, <3>2
  <2>6. CASE SeedCheck(c) \/ SeedPlan(c) \/ Prompt(c) \/ ProbePort(c) \/ Serve(c)
    <3>1. /\ app[c].at \notin {"off", "draw", "write"}
          /\ app'[c].at \notin {"off", "draw", "write"}
          /\ app'[c].key = app[c].key /\ UNCHANGED keyFile
          /\ "write" \in broken => "write" \in broken'
      BY <2>6, LaterSteps
    <3> QED
      BY <1>0, <2>1, <3>1
  <2> QED
    BY <1>1, <2>2, <2>3, <2>4, <2>5, <2>6 DEF LaunchStep
<1>2. ASSUME NEW c \in Copies, Ending(c)
      PROVE  Good
  <2>1. /\ app'[c].at = "off" /\ \A d \in Copies \ {c} : app'[d] = app[d] /\ met'[d] = met[d]
        /\ UNCHANGED keyFile
        /\ broken \subseteq broken' /\ (app[c].at = "write" => "write" \in broken')
    BY <1>2, EndFields DEF Ending
  <2> QED
    BY <1>0, <2>1
<1>3. CASE UNCHANGED <<keyFile, app, met, broken>>
  BY <1>0, <1>3
<1> QED
  BY <1>1, <1>2, <1>3, StepKinds DEF Launches, Signing, Planning, launchVars, launchHistory

LEMMA SignStep ==
  ASSUME ShapeInv, MarksOK, KeyInv, SignInv, [Next]_vars
  PROVE  SignInv'
<1>0. /\ keyFile = None => /\ \A c \in Copies : app[c].at \in {"off", "draw"}
                           /\ \A n \in Names : session[n] = None
      /\ \A c \in Copies : app[c].at = "off" => app[c].key = None
      /\ ~rival => \A c \in Copies : app[c].at \in {"draw", "write"} =>
           /\ keyFile \in {None, ""}
           /\ \A d \in Copies \ {c} : app[d].at \notin {"draw", "write"} /\ app[d].key \in {"", None}
           /\ \A n \in Names : session[n] = None
      /\ ~rival => \A c \in Copies : app[c].at \notin {"draw", "write"} =>
           app[c].key \in {"", None, keyFile}
      /\ ~rival => \A n \in Names : session[n] # None => session[n].key = keyFile
  BY DEF SignInv, NoKeyYet, DrawnAlone, OneKey, Drawn
<1>a. /\ keyFile \in Secrets \cup {"", None} /\ "" \notin Secrets /\ None \notin Secrets /\ None # ""
      /\ \A n \in Names : session[n] # None => session[n].key \in Secrets
      /\ \A c \in Copies : app[c].at \in {"draw", "write"} => app[c].key \in Secrets
  BY Tables, LaunchAssumption DEF CopiesOK, Session, KeyInv, Drawn
<1> DEFINE Good ==
      /\ keyFile' = None => /\ \A c \in Copies : app'[c].at \in {"off", "draw"}
                            /\ \A n \in Names : session'[n] = None
      /\ \A c \in Copies : app'[c].at = "off" => app'[c].key = None
      /\ ~rival' => \A c \in Copies : app'[c].at \in {"draw", "write"} =>
           /\ keyFile' \in {None, ""}
           /\ \A d \in Copies \ {c} : app'[d].at \notin {"draw", "write"} /\ app'[d].key \in {"", None}
           /\ \A n \in Names : session'[n] = None
      /\ ~rival' => \A c \in Copies : app'[c].at \notin {"draw", "write"} =>
           app'[c].key \in {"", None, keyFile'}
      /\ ~rival' => \A n \in Names : session'[n] # None => session'[n].key = keyFile'
<1> SUFFICES Good
  BY DEF SignInv, NoKeyYet, DrawnAlone, OneKey, Drawn
<1>1. ASSUME NEW c \in Copies, LaunchStep(c), UNCHANGED accVars
      PROVE  Good
  <2>1. /\ \A d \in Copies \ {c} : app'[d] = app[d]
        /\ UNCHANGED session
    BY <1>1, Tables, LaunchMoves DEF accVars, tables
  <2>2. CASE FindKey(c)
    <3>1. /\ app[c].at = "off" /\ keyFile # None /\ UNCHANGED <<keyFile, rival>>
          /\ app'[c].at = "boot" /\ app'[c].key = keyFile
      BY <2>2, FirstSteps
    <3> QED
      BY <1>0, <1>a, <2>1, <3>1
  <2>3. CASE DrawKey(c)
    <3>1. /\ app[c].at = "off" /\ keyFile = None /\ UNCHANGED keyFile
          /\ app'[c].at = "draw" /\ app'[c].key \in Secrets
          /\ ~rival' => \A d \in Copies : app[d].at \notin {"draw", "write"}
      BY <2>3, FirstSteps DEF Drawn
    <3>2. ~rival' => \A d \in Copies : app[d].at = "off" /\ app[d].key = None
      BY <1>0, <3>1
    <3> QED
      BY <1>0, <1>a, <2>1, <3>1, <3>2
  <2>4. CASE OpenKeyFile(c)
    <3>1. /\ app[c].at = "draw" /\ keyFile' = "" /\ UNCHANGED rival
          /\ app'[c].at = "write" /\ app'[c].key = app[c].key
      BY <2>4, FirstSteps
    <3> QED
      BY <1>0, <1>a, <2>1, <3>1
  <2>5. CASE WriteKeyFile(c)
    <3>1. /\ app[c].at = "write" /\ keyFile' = app[c].key /\ UNCHANGED rival
          /\ app'[c].at = "boot" /\ app'[c].key = app[c].key
      BY <2>5, FirstSteps
    <3>2. app[c].key \in Secrets
      BY <1>a, <3>1
    <3> QED
      BY <1>0, <1>a, <2>1, <3>1, <3>2
  <2>6. CASE SeedCheck(c) \/ SeedPlan(c) \/ Prompt(c) \/ ProbePort(c) \/ Serve(c)
    <3>1. /\ app[c].at \notin {"off", "draw", "write"}
          /\ app'[c].at \notin {"off", "draw", "write"}
          /\ app'[c].key = app[c].key /\ UNCHANGED <<keyFile, rival>>
      BY <2>6, LaterSteps
    <3> QED
      BY <1>0, <2>1, <3>1
  <2> QED
    BY <1>1, <2>2, <2>3, <2>4, <2>5, <2>6 DEF LaunchStep
<1>2. ASSUME NEW c \in Copies, Ending(c)
      PROVE  Good
  <2>1. /\ app'[c].at = "off" /\ app'[c].key = None /\ \A d \in Copies \ {c} : app'[d] = app[d]
        /\ UNCHANGED <<keyFile, rival, session>>
    BY <1>2, EndFields DEF Ending
  <2> QED
    BY <1>0, <2>1
<1>3. CASE Signing
  <2>1. UNCHANGED <<keyFile, app, rival>>
    BY <1>3 DEF Signing, launchVars, launchHistory
  <2>2. session' \in [Names -> Session \cup {None}]
    BY ShapeStep DEF ShapeInv, RowsOK
  <2>3. \A n \in Names : session'[n] # None => session'[n].key \in Secrets
    BY <2>2 DEF Session
  <2>4. \A c \in Copies : app[c].server = "up" => app[c].at = "window"
    BY Tables DEF CopiesAreSet
  <2>5. \A n \in Names : \/ session'[n] \in {None, session[n]}
                         \/ \E c \in Copies : app[c].at = "window" /\ session'[n].key = app[c].key
    BY <1>3, <2>4 DEF Signing
  <2>6. \A n \in Names : keyFile = None => session'[n] = None
    BY <1>0, <2>5
  <2>7. ASSUME ~rival, NEW n \in Names, session'[n] # None
        PROVE  session'[n].key = keyFile
    BY <1>0, <1>a, <2>3, <2>5, <2>7
  <2>8. ASSUME ~rival, NEW c \in Copies, app[c].at \in {"draw", "write"}, NEW n \in Names
        PROVE  session'[n] = None
    <3>1. \A d \in Copies : app[d].at = "window" => app[d].key \notin Secrets
      BY <1>0, <1>a, <2>8
    <3>2. session[n] = None
      BY <1>0, <2>8
    <3>3. session'[n] # None => session'[n].key \in Secrets
      BY <2>3
    <3>4. \/ session'[n] \in {None, session[n]}
          \/ \E d \in Copies : app[d].at = "window" /\ session'[n].key = app[d].key
      BY <2>5
    <3> QED
      BY <3>1, <3>2, <3>3, <3>4
  <2> QED
    BY <1>0, <2>1, <2>6, <2>7, <2>8
<1>4. CASE UNCHANGED <<keyFile, app, rival, session>>
  BY <1>0, <1>4
<1> QED
  BY <1>1, <1>2, <1>3, <1>4, StepKinds DEF Launches, Planning, launchHistory

LEMMA KeysInit ==
  ASSUME Init
  PROVE  KeyInv /\ SignInv
<1>1. /\ keyFile = None /\ \A c \in Copies : app[c].at = "off" /\ app[c].key = None
      /\ \A n \in Names : session[n] = None
  BY DEF Init, LaunchInit, Off
<1> QED
  BY <1>1, LaunchAssumption DEF KeyInv, SignInv, NoKeyYet, DrawnAlone, OneKey, Drawn

LEMMA KeysAlways == Spec => [](ShapeInv /\ MarksOK /\ KeyInv /\ SignInv)
<1> DEFINE Inv == ShapeInv /\ MarksOK /\ KeyInv /\ SignInv
<1>1. Init => Inv
  BY ShapeInit, MarksInit, KeysInit
<1>2. Inv /\ [Next]_vars => Inv'
  BY ShapeStep, MarksStep, KeyStep, SignStep
<1> QED
  BY <1>1, <1>2, PTL DEF Spec

\* Unless two first launches had drawn a key each, or a copy has read the file
\* while it was being written, whoever serves requests signs with the key every
\* session is signed with: a session is never refused for its signature, through
\* any number of launches, kills and closed windows (desktop_app.py:62-68).
THEOREM SessionsAlwaysSurvive == Spec => []SessionsSurvive
<1>1. ShapeInv /\ MarksOK /\ KeyInv /\ SignInv => SessionsSurvive
  <2>1. ASSUME ShapeInv, KeyInv, SignInv, NEW n \in Names, NEW c \in Copies, session[n] # None,
               app[c].server = "up", ~rival, "key" \notin met[c]
        PROVE  app[c].key = session[n].key
    <3>1. app[c].at = "window"
      BY <2>1, Tables DEF CopiesAreSet
    <3>2. app[c].key \in Secrets
      BY <2>1, <3>1 DEF KeyInv
    <3>3. app[c].key \in {"", None, keyFile} /\ session[n].key = keyFile
      BY <2>1, <3>1 DEF SignInv, OneKey, Drawn
    <3> QED
      BY <3>2, <3>3, LaunchAssumption
  <2> QED
    BY <2>1 DEF SessionsSurvive
<1> QED
  BY <1>1, KeysAlways, PTL

-----------------------------------------------------------------------------
(* The plans *)

LEMMA SeededSoFar ==
  /\ Seeded(1) = {}
  /\ \A i \in DOMAIN PlanDefs : i < Len(PlanDefs) => Seeded(i + 1) = Seeded(i) \cup {PlanDefs[i]}
  /\ \A i \in DOMAIN PlanDefs : i = Len(PlanDefs) => Seeded(i) \cup {PlanDefs[i]} = PlanKeys
<1>1. DOMAIN PlanDefs = 1 .. 3 /\ Len(PlanDefs) = 3
  BY DEF PlanDefs
<1>2. Seeded(1) = {}
  BY DEF Seeded
<1>3. \A i \in 1 .. 3 : Seeded(i + 1) = Seeded(i) \cup {PlanDefs[i]}
  BY DEF Seeded
<1>4. PlanKeys = Seeded(4)
  BY <1>1 DEF PlanKeys, Seeded
<1> QED
  BY <1>1, <1>2, <1>3, <1>4

\* The steps that do not seed leave the table alone and no loop behind.
LEMMA PlainSteps ==
  ASSUME ShapeInv, NEW c \in Copies,
         \/ FindKey(c) \/ DrawKey(c) \/ OpenKeyFile(c) \/ WriteKeyFile(c)
         \/ Prompt(c) \/ ProbePort(c) \/ Serve(c)
  PROVE  /\ UNCHANGED plans /\ app[c].at # "seed" /\ app'[c].at # "seed"
         /\ app'[c].at \in {"ready", "admin", "window"} => app[c].at \in {"ready", "admin", "window"}
         /\ "seed" \in broken => "seed" \in broken'
<1>1. CopiesOK /\ (app[c].server # "none" => app[c].at = "window")
  BY Tables DEF CopiesAreSet
<1>2. UNCHANGED plans /\ ("seed" \in broken => "seed" \in broken')
  BY DEF FindKey, DrawKey, Draws, OpenKeyFile, WriteKeyFile, Prompt, ProbePort, Serve, launchHistory
<1>3. CASE FindKey(c) \/ DrawKey(c) \/ OpenKeyFile(c) \/ WriteKeyFile(c)
  <2>1. app[c].at \in {"off", "draw", "write"} /\ app'[c].at \in {"boot", "draw", "write"}
    BY <1>3, FirstSteps
  <2> QED
    BY <1>2, <2>1
<1>4. CASE Prompt(c)
  <2>1. app[c].at = "ready" /\ Go(c, "admin")
    BY <1>4 DEF Prompt
  <2>2. app'[c].at = "admin"
    BY <1>1, <2>1, GoFields
  <2> QED
    BY <1>2, <2>1, <2>2
<1>5. CASE ProbePort(c)
  <2>1. PICK p \in Ports :
          app' = [app EXCEPT ![c].at = "window", ![c].port = p, ![c].server = "starting"]
    BY <1>5 DEF ProbePort
  <2>2. app[c].at = "ready"
    BY <1>5 DEF ProbePort
  <2>3. app'[c].at = "window"
    BY <1>1, <2>1, StepFields
  <2> QED
    BY <1>2, <2>2, <2>3
<1>6. CASE Serve(c)
  <2>1. app'[c].at = app[c].at
    BY <1>1, <1>6, StepFields
  <2>2. app[c].at = "window"
    BY <1>1, <1>6 DEF Serve
  <2> QED
    BY <1>2, <2>1, <2>2
<1> QED
  BY <1>3, <1>4, <1>5, <1>6

\* What seeding does: it begins at the first plan of an empty table, or there is
\* none to do; it writes the plan it is at.
LEMMA SeedSteps ==
  ASSUME ShapeInv, MarksOK, NEW c \in Copies
  PROVE  /\ SeedCheck(c) =>
              /\ UNCHANGED <<plans, broken>> /\ app[c].at = "boot"
              /\ \/ plans = {} /\ app'[c].at = "seed" /\ app'[c].next = 1
                 \/ /\ plans # {} /\ app'[c].at = "ready"
                    /\ "seed" \in broken \/ (\E d \in Copies : app[d].at = "seed") =>
                         "plans" \in met'[c]
         /\ SeedPlan(c) =>
              /\ app[c].at = "seed" /\ plans' = plans \cup {PlanDefs[app[c].next]}
              /\ \/ /\ app[c].next < Len(PlanDefs) /\ UNCHANGED broken
                    /\ app'[c].at = "seed" /\ app'[c].next = app[c].next + 1
                 \/ app[c].next = Len(PlanDefs) /\ app'[c].at = "ready"
<1>0. CopiesOK
  BY Tables
<1>1. ASSUME SeedCheck(c), plans = {}
      PROVE  app'[c].at = "seed" /\ app'[c].next = 1
  <2>1. app' = [app EXCEPT ![c].at = "seed", ![c].next = 1]
    BY <1>1 DEF SeedCheck
  <2> QED
    BY <1>0, <2>1, StepFields
<1>2. ASSUME SeedCheck(c), plans # {}
      PROVE  /\ app'[c].at = "ready"
             /\ "seed" \in broken \/ (\E d \in Copies : app[d].at = "seed") => "plans" \in met'[c]
  <2>1. Go(c, "ready") /\ Meets(c, "seed", "plans")
    BY <1>2 DEF SeedCheck
  <2>2. app'[c].at = "ready"
    BY <1>0, <2>1, GoFields
  <2>3. met \in [Copies -> SUBSET {"key", "plans", "port"}]
    BY DEF MarksOK
  <2> QED
    BY <2>1, <2>2, <2>3 DEF Meets
<1>3. SeedCheck(c) => UNCHANGED <<plans, broken>> /\ app[c].at = "boot"
  BY DEF SeedCheck
<1>4. ASSUME SeedPlan(c)
      PROVE  \/ /\ app[c].next < Len(PlanDefs) /\ UNCHANGED broken
                /\ app'[c].at = "seed" /\ app'[c].next = app[c].next + 1
             \/ app[c].next = Len(PlanDefs) /\ app'[c].at = "ready"
  <2>1. CASE app[c].next < Len(PlanDefs) /\ app' = [app EXCEPT ![c].next = @ + 1] /\ UNCHANGED broken
    <3>1. app'[c].at = app[c].at /\ app'[c].next = app[c].next + 1
      BY <1>0, <2>1, StepFields
    <3> QED
      BY <1>4, <2>1, <3>1 DEF SeedPlan
  <2>2. CASE app[c].next = Len(PlanDefs) /\ Go(c, "ready")
    BY <1>0, <2>2, GoFields
  <2> QED
    BY <1>4, <2>1, <2>2 DEF SeedPlan
<1>5. SeedPlan(c) => app[c].at = "seed" /\ plans' = plans \cup {PlanDefs[app[c].next]}
  BY DEF SeedPlan
<1> QED
  BY <1>1, <1>2, <1>3, <1>4, <1>5

LEMMA SeedStep ==
  ASSUME ShapeInv, MarksOK, SeedInv, [Next]_vars
  PROVE  SeedInv'
<1>0. /\ plans \in {{}, PlanKeys} \/ "seed" \in broken \/ \E d \in Copies : app[d].at = "seed"
      /\ \A c \in Copies : app[c].at = "seed" =>
           Seeded(app[c].next) \subseteq plans /\ app[c].next \in DOMAIN PlanDefs
      /\ \A c \in Copies : app[c].at \in {"ready", "admin", "window"} =>
           plans # {} /\ ("plans" \in met[c] \/ plans = PlanKeys)
      /\ plans \subseteq PlanKeys /\ plans' \subseteq PlanKeys
  BY Tables, ShapeStep DEF SeedInv, CopiesAreSet, ShapeInv, RowsOK, CopiesOK
<1> DEFINE Good ==
      /\ plans' \in {{}, PlanKeys} \/ "seed" \in broken' \/ \E d \in Copies : app'[d].at = "seed"
      /\ \A c \in Copies : app'[c].at = "seed" => Seeded(app'[c].next) \subseteq plans'
      /\ \A c \in Copies : app'[c].at \in {"ready", "admin", "window"} =>
           plans' # {} /\ ("plans" \in met'[c] \/ plans' = PlanKeys)
<1> SUFFICES Good
  <2>1. ASSUME Good
        PROVE  SeedInv'
    <3>1. \A i : Seeded(i)' = Seeded(i)
      BY DEF Seeded
    <3> QED
      BY <2>1 DEF SeedInv, Seeded
  <2> QED
    BY <2>1
<1>1. ASSUME NEW c \in Copies, LaunchStep(c)
      PROVE  Good
  <2>1. /\ \A d \in Copies \ {c} : app'[d] = app[d]
        /\ \A d \in Copies : met[d] \subseteq met'[d]
    BY <1>1, Tables, LaunchMoves, LaunchMarks
  <2>2. CASE \/ FindKey(c) \/ DrawKey(c) \/ OpenKeyFile(c) \/ WriteKeyFile(c)
             \/ Prompt(c) \/ ProbePort(c) \/ Serve(c)
    <3>1. /\ UNCHANGED plans /\ app[c].at # "seed" /\ app'[c].at # "seed"
          /\ app'[c].at \in {"ready", "admin", "window"} =>
               app[c].at \in {"ready", "admin", "window"}
          /\ "seed" \in broken => "seed" \in broken'
      BY <2>2, PlainSteps
    <3>2. \A d \in Copies : app'[d].at \in {"ready", "admin", "window"} =>
            app[d].at \in {"ready", "admin", "window"}
      BY <2>1, <3>1
    <3>3. \A d \in Copies : app[d].at = "seed" <=> app'[d].at = "seed"
      BY <2>1, <3>1
    <3>4. \A d \in Copies : app'[d].at = "seed" => app'[d] = app[d]
      BY <2>1, <3>1
    <3> QED
      BY <1>0, <2>1, <3>1, <3>2, <3>3, <3>4
  <2>3. CASE SeedCheck(c)
    <3>1. /\ UNCHANGED <<plans, broken>> /\ app[c].at = "boot"
          /\ \/ plans = {} /\ app'[c].at = "seed" /\ app'[c].next = 1
             \/ /\ plans # {} /\ app'[c].at = "ready"
                /\ "seed" \in broken \/ (\E d \in Copies : app[d].at = "seed") =>
                     "plans" \in met'[c]
      BY <2>3, SeedSteps
    <3>2. CASE plans = {} /\ app'[c].at = "seed" /\ app'[c].next = 1
      BY <1>0, <2>1, <3>1, <3>2, SeededSoFar
    <3>3. CASE /\ plans # {} /\ app'[c].at = "ready"
               /\ "seed" \in broken \/ (\E d \in Copies : app[d].at = "seed") => "plans" \in met'[c]
      <4>1. \A d \in Copies : app[d].at = "seed" <=> app'[d].at = "seed"
        BY <2>1, <3>1, <3>3
      <4>2. "plans" \in met'[c] \/ plans = PlanKeys
        BY <1>0, <3>3
      <4> QED
        BY <1>0, <2>1, <3>1, <3>3, <4>1, <4>2
    <3> QED
      BY <3>1, <3>2, <3>3
  <2>4. CASE SeedPlan(c)
    <3>1. /\ app[c].at = "seed" /\ plans' = plans \cup {PlanDefs[app[c].next]}
          /\ \/ app[c].next < Len(PlanDefs) /\ app'[c].at = "seed" /\ app'[c].next = app[c].next + 1
             \/ app[c].next = Len(PlanDefs) /\ app'[c].at = "ready"
      BY <2>4, SeedSteps
    <3>2. plans \subseteq plans' /\ plans' # {}
      BY <3>1
    <3>3. \A d \in Copies \ {c} :
            /\ app'[d].at = "seed" => Seeded(app'[d].next) \subseteq plans'
            /\ app'[d].at \in {"ready", "admin", "window"} =>
                 plans' # {} /\ ("plans" \in met'[d] \/ plans' = PlanKeys)
      BY <1>0, <2>1, <3>2
    <3>4. CASE app[c].next < Len(PlanDefs) /\ app'[c].at = "seed" /\ app'[c].next = app[c].next + 1
      <4>1. Seeded(app'[c].next) \subseteq plans'
        BY <1>0, <3>1, <3>4, SeededSoFar
      <4> QED
        BY <3>3, <3>4, <4>1
    <3>5. CASE app[c].next = Len(PlanDefs) /\ app'[c].at = "ready"
      <4>1. plans' = PlanKeys
        BY <1>0, <3>1, <3>5, SeededSoFar
      <4> QED
        BY <3>2, <3>3, <3>5, <4>1
    <3> QED
      BY <3>1, <3>4, <3>5
  <2> QED
    BY <1>1, <2>2, <2>3, <2>4 DEF LaunchStep
<1>2. ASSUME NEW c \in Copies, Ending(c)
      PROVE  Good
  <2>1. /\ app'[c].at = "off" /\ \A d \in Copies \ {c} : app'[d] = app[d] /\ met'[d] = met[d]
        /\ UNCHANGED plans
        /\ broken \subseteq broken' /\ (app[c].at = "seed" => "seed" \in broken')
    BY <1>2, EndFields DEF Ending
  <2> QED
    BY <1>0, <2>1
<1>3. CASE UNCHANGED <<plans, app, met, broken>>
  BY <1>0, <1>3
<1>4. CASE Planning
  <2>1. PICK c \in Copies, p \in PlanKeys :
          app[c].at \in {"admin", "window"} /\ plans' = plans \cup {p}
    BY <1>4 DEF Planning
  <2>2. UNCHANGED <<app, met, broken>>
    BY <1>4 DEF Planning, launchHistory
  <2>3. plans # {}
    BY <1>0, <2>1
  <2>4. plans \subseteq plans' /\ plans' # {} /\ (plans = PlanKeys => plans' = PlanKeys)
    BY <1>0, <2>1
  <2> QED
    BY <1>0, <2>2, <2>3, <2>4
<1> QED
  BY <1>1, <1>2, <1>3, <1>4, StepKinds DEF Launches, Signing, launchVars, launchHistory

LEMMA PlansAlways == Spec => [](ShapeInv /\ MarksOK /\ SeedInv)
<1> DEFINE Inv == ShapeInv /\ MarksOK /\ SeedInv
<1>1. Init => Inv
  <2>1. Init => SeedInv
    BY DEF Init, LaunchInit, Off, SeedInv
  <2> QED
    BY <2>1, ShapeInit, MarksInit
<1>2. Inv /\ [Next]_vars => Inv'
  BY ShapeStep, MarksStep, SeedStep
<1> QED
  BY <1>1, <1>2, PTL DEF Spec

\* A copy that shows its window or a prompt has all plans and a key to sign with,
\* wherever copies were killed before and however launches overlapped, unless it
\* came upon the key file or the plans half-written (desktop_app.py:62-88).
THEOREM FreshInstallsWork == Spec => []FreshInstallWorks
<1>1. KeyInv /\ SeedInv => FreshInstallWorks
  BY DEF KeyInv, SeedInv, FreshInstallWorks
<1> QED
  BY <1>1, KeysAlways, PlansAlways, PTL

-----------------------------------------------------------------------------
(* Standing *)

\* Who serves a request goes on having met what it met.
LEMMA MetKept ==
  ASSUME ShapeInv, MarksOK, [Next]_vars, NEW s \in Threads, req'[s] = req[s], req[s] # Idle
  PROVE  met[req[s].copy] \subseteq met'[req[s].copy]
<1>0. req[s].copy \in Copies
  BY Request
<1>1. CASE UNCHANGED met
  BY <1>1
<1>2. CASE Launches
  BY <1>0, <1>2, LaunchMarks DEF Launches
<1>3. ASSUME NEW c \in Copies, Stop(c)
      PROVE  met[req[s].copy] \subseteq met'[req[s].copy]
  <2>1. req[s].copy # c
    BY <1>3 DEF Stop
  <2>2. End(c)
    BY <1>3 DEF Stop
  <2> QED
    BY <1>0, <2>1, <2>2, EndFields
<1>4. ASSUME NEW t \in Threads, NEW c \in Copies, NEW n \in Names,
             \/ \E super \in BOOLEAN : MakeBegin(t, c, n, super)
             \/ PatchRead(t, c, n) \/ PassRead(t, c, n)
      PROVE  UNCHANGED met
  BY <1>4 DEF MakeBegin, PatchRead, PassRead, launchVars, launchHistory
<1>5. ASSUME NEW c \in Copies, NEW n \in Names, LoginPost(c, n) \/ LogoutPost(c, n)
      PROVE  UNCHANGED met
  BY <1>5 DEF LoginPost, LogoutPost, launchVars, launchHistory
<1>6. ASSUME NEW t \in Threads, Serves(t)
      PROVE  met[req[s].copy] \subseteq met'[req[s].copy]
  <2>1. CASE UNCHANGED <<app, met>>
    BY <1>1, <2>1
  <2>2. CASE req[t].copy \in Copies /\ app[req[t].copy].at = "admin" /\ End(req[t].copy)
    <3>1. CASE InsertUser(t) \/ LinkProfile(t)
      <4>1. req'[t].at # req[t].at /\ req[t].at # "idle" /\ req[t] # Idle
        <5>1. CASE InsertUser(t)
          <6>1. req[t].at = "user" /\ (Becomes(t, Idle) \/ req'[t].at = "profile")
            BY <5>1, InsertUserDoes
          <6>2. Becomes(t, Idle) => req'[t] = Idle
            BY DEF Becomes
          <6> QED
            BY <6>1, <6>2 DEF Idle
        <5>2. CASE LinkProfile(t)
          <6>1. req[t].at = "link"
            BY <5>2, LinkProfileDoes
          <6>2. req'[t].at \in {"idle", "login"}
            BY <5>2, LinkProfileDoes DEF Becomes, Idle
          <6> QED
            BY <6>1, <6>2 DEF Idle
        <5> QED
          BY <3>1, <5>1, <5>2
      <4>2. s # t
        BY <4>1
      <4>3. ByAdmin(req[t])
        <5>1. app[req[t].copy].server # "up"
          BY <2>2, Tables DEF CopiesAreSet
        <5> QED
          BY <4>1, <5>1, Request DEF Attended
      <4>4. req[s].copy # req[t].copy
        BY <4>1, <4>2, <4>3, Request
      <4> QED
        BY <1>0, <2>2, <4>4, EndFields
    <3>2. CASE ~InsertUser(t) /\ ~LinkProfile(t)
      <4>1. UNCHANGED met
        BY <1>6, <3>2 DEF Serves, InsertProfile, ReadPlan, InsertOrg, SignupLogin, PatchSaveUser,
                          PatchSave, PassSave, PassRehash, launchVars, launchHistory
      <4> QED
        BY <1>1, <4>1
    <3> QED
      BY <3>1, <3>2
  <2> QED
    BY <1>6, <2>1, <2>2, ServesMarks
<1>7. UNCHANGED vars => UNCHANGED met
  BY DEF vars, launchVars, launchHistory
<1> QED
  BY <1>1, <1>2, <1>3, <1>4, <1>5, <1>6, <1>7 DEF Next, Launches

\* A step that makes no organization; a request is, of what it makes, where it
\* was or before, or begins.
LEMMA StandingStays ==
  ASSUME ShapeInv, OneOrgInv, StandingInv, UNCHANGED <<org, skimped>>,
         \A t \in Threads : req'[t] = req[t] /\ req[t] # Idle =>
           met[req[t].copy] \subseteq met'[req[t].copy],
         \A n \in Names : \/ user[n] = None
                          \/ user'[n].super = user[n].super,
         \A t \in Threads : IsMaking(t)' =>
           \/ req'[t] = req[t]
           \/ /\ IsMaking(t) /\ req'[t].name = req[t].name /\ req'[t].super = req[t].super
              /\ req'[t].at = "org" => \/ "plans" \in met'[req'[t].copy]
                                       \/ (req'[t].plan = "enterprise") = req[t].super
           \/ req'[t].at # "org" /\ user'[req'[t].name].super = req'[t].super
  PROVE  StandingInv'
<1>1. \A t \in Threads : IsMaking(t) => req[t].name \in Names /\ user[req[t].name] # None
  BY Request DEF IsMaking, Half, Idle, Attended
<1>2. ASSUME NEW t \in Threads, IsMaking(t)'
      PROVE  /\ user'[req'[t].name].super = req'[t].super
             /\ req'[t].at = "org" =>
                  "plans" \in met'[req'[t].copy] \/ (req'[t].plan = "enterprise") = req'[t].super
  <2>1. CASE req'[t] = req[t]
    <3>1. IsMaking(t) /\ req[t] # Idle
      BY <1>2, <2>1 DEF IsMaking, Half, Idle
    <3>2. met[req[t].copy] \subseteq met'[req[t].copy]
      BY <2>1, <3>1
    <3>3. user'[req[t].name].super = user[req[t].name].super
      BY <1>1, <3>1
    <3>4. /\ user[req[t].name].super = req[t].super
          /\ req[t].at = "org" =>
               "plans" \in met[req[t].copy] \/ (req[t].plan = "enterprise") = req[t].super
      BY <3>1 DEF StandingInv, StandingIsKept
    <3> QED
      BY <2>1, <3>2, <3>3, <3>4
  <2>2. CASE /\ IsMaking(t) /\ req'[t].name = req[t].name /\ req'[t].super = req[t].super
             /\ req'[t].at = "org" => \/ "plans" \in met'[req'[t].copy]
                                      \/ (req'[t].plan = "enterprise") = req[t].super
    BY <1>1, <2>2 DEF StandingInv, StandingIsKept
  <2>3. CASE req'[t].at # "org" /\ user'[req'[t].name].super = req'[t].super
    BY <2>3
  <2> QED
    BY <1>2, <2>1, <2>2, <2>3
<1>3. StandingIsKept'
  BY <1>2 DEF StandingIsKept
<1>4. \A i \in OrgIds : org[i] # None => org[i].owner \in Names /\ user[org[i].owner] # None
  BY Tables DEF OrgRow, OneOrgInv, MakersAreOne
<1>5. PlansByStanding'
  BY <1>4 DEF StandingInv, PlansByStanding
<1> QED
  BY <1>3, <1>5 DEF StandingInv

\* What each request does to the standing of users and the plans.
LEMMA StandingServe ==
  ASSUME ShapeInv, MarksOK, OneOrgInv, SeedInv, StandingInv, [Next]_vars,
         NEW t \in Threads, Serves(t)
  PROVE  StandingInv'
<1> USE DEF IsMaking, Half, Becomes, Idle
<1>1. \A s \in Threads : req'[s] = req[s] /\ req[s] # Idle =>
        met[req[s].copy] \subseteq met'[req[s].copy]
  BY MetKept
<1>2. CASE InsertUser(t)
  <2>1. UNCHANGED <<org, skimped>> /\ req[t].name \in Names
    BY <1>2, InsertUserDoes DEF InsertUser, history
  <2>2. CASE Becomes(t, Idle) /\ UNCHANGED user
    BY <1>1, <2>1, <2>2, StandingStays
  <2>3. CASE /\ user[req[t].name] = None /\ RowSet(req[t].name, NewUser(t))
             /\ Becomes(t, req'[t])
             /\ req'[t].at = "profile" /\ req'[t].name = req[t].name /\ req'[t].super = req[t].super
    <3>1. \A n \in Names : user[n] = None \/ user'[n].super = user[n].super
      BY <2>3 DEF RowSet
    <3>2. user'[req[t].name].super = req[t].super
      BY <2>3 DEF RowSet, NewUser
    <3> QED
      BY <1>1, <2>1, <2>3, <3>1, <3>2, StandingStays
  <2> QED
    BY <1>2, <2>2, <2>3, InsertUserDoes
<1>3. CASE InsertProfile(t)
  <2>1. \A n \in Names : user[n] = None \/ user'[n].super = user[n].super
    BY <1>3, InsertProfileDoes DEF RowSet
  <2>2. UNCHANGED <<org, skimped>>
    BY <1>3 DEF InsertProfile, history
  <2> QED
    BY <1>1, <1>3, <2>1, <2>2, InsertProfileDoes, StandingStays
<1>4. CASE ReadPlan(t)
  <2> DEFINE p == PlanFor(req[t].super)
  <2>1. /\ UNCHANGED <<app, user, org, met, skimped>>
        /\ req[t].at = "plan" /\ Becomes(t, req'[t])
        /\ req'[t].at = "org" /\ req'[t].name = req[t].name /\ req'[t].super = req[t].super
        /\ req'[t].plan = p
    BY <1>4, ReadPlanDoes DEF ReadPlan, tables, launchHistory, history
  <2>2. req'[t].copy = req[t].copy
    BY <1>4, Requests, Request DEF ReadPlan, Jobs, MakeJob, PatchJob, PassJob
  <2>3. "plans" \in met[req[t].copy] \/ plans = PlanKeys
    <3>1. app[req[t].copy].at \in {"admin", "window"} /\ req[t].copy \in Copies
      BY <2>1, Request, Tables DEF Attended, CopiesAreSet
    <3> QED
      BY <3>1 DEF SeedInv
  <2>4. plans = PlanKeys => (p = "enterprise") = req[t].super
    BY <2>1, PlanKeysAre, Request DEF PlanFor, MakeSteps
  <2> HIDE DEF p
  <2>5. "plans" \in met'[req'[t].copy] \/ (req'[t].plan = "enterprise") = req[t].super
    BY <2>1, <2>2, <2>3, <2>4
  <2>6. \A n \in Names : user[n] = None \/ user'[n].super = user[n].super
    BY <2>1
  <2> QED
    BY <1>1, <2>1, <2>5, <2>6, StandingStays
<1>5. CASE InsertOrg(t)
  <2>1. PICK i \in OrgIds :
          /\ org[i] = None
          /\ org' = [org EXCEPT ![i] = [owner |-> req[t].name, plan |-> req[t].plan]]
          /\ skimped' = IF "plans" \in met[req[t].copy] THEN skimped \cup {i} ELSE skimped
    BY <1>5 DEF InsertOrg
  <2>2. /\ UNCHANGED <<user, met>> /\ req[t].at = "org" /\ Becomes(t, req'[t])
        /\ req'[t].at = "link" /\ req'[t].name = req[t].name /\ req'[t].super = req[t].super
    BY <1>5, InsertOrgDoes DEF launchVars, launchHistory
  <2>3. /\ org'[i].owner = req[t].name /\ org'[i].plan = req[t].plan
        /\ \A j \in OrgIds \ {i} : org'[j] = org[j]
    BY <2>1, Tables
  <2>4. StandingIsKept'
    BY <2>2 DEF StandingInv, StandingIsKept
  <2>5. /\ user[req[t].name].super = req[t].super
        /\ "plans" \in met[req[t].copy] \/ (req[t].plan = "enterprise") = req[t].super
    BY <2>2 DEF StandingInv, StandingIsKept
  <2>6. ASSUME NEW j \in OrgIds \ skimped', org'[j] # None
        PROVE  (org'[j].plan = "enterprise") = user'[org'[j].owner].super
    <3>1. CASE j = i
      <4>1. "plans" \notin met[req[t].copy]
        BY <2>1, <2>6, <3>1
      <4> QED
        BY <2>2, <2>3, <2>5, <3>1, <4>1
    <3>2. CASE j # i
      <4>1. org'[j] = org[j] /\ j \notin skimped
        BY <2>1, <2>3, <2>6, <3>2
      <4> QED
        BY <2>2, <2>6, <4>1 DEF StandingInv, PlansByStanding
    <3> QED
      BY <3>1, <3>2
  <2> QED
    BY <2>4, <2>6 DEF StandingInv, PlansByStanding
<1>6. CASE LinkProfile(t)
  <2>1. \A n \in Names : user[n] = None \/ user'[n].super = user[n].super
    BY <1>6, LinkProfileDoes DEF RowSet
  <2>2. UNCHANGED <<org, skimped>>
    BY <1>6, LinkProfileDoes DEF LinkProfile, history
  <2> QED
    BY <1>1, <1>6, <2>1, <2>2, LinkProfileDoes, StandingStays
<1>7. CASE SignupLogin(t) \/ PassRehash(t)
  <2>1. UNCHANGED <<user, org>> /\ Becomes(t, Idle)
    BY <1>7, SignupLoginDoes, PassRehashDoes
  <2>2. UNCHANGED skimped
    BY <1>7 DEF SignupLogin, PassRehash, history
  <2> QED
    BY <1>1, <2>1, <2>2, StandingStays
<1>8. CASE PatchSaveUser(t) \/ PatchSave(t) \/ PassSave(t)
  <2>1. /\ UNCHANGED org /\ Becomes(t, req'[t])
        /\ req'[t].at \in {"idle", "label", "hash"}
        /\ RowSet(req[t].name, user'[req[t].name])
        /\ user'[req[t].name].super = user[req[t].name].super
    BY <1>8, PatchSaveUserDoes, PatchSaveDoes, PassSaveDoes
  <2>2. \A n \in Names : user[n] = None \/ user'[n].super = user[n].super
    BY <2>1 DEF RowSet
  <2>3. UNCHANGED skimped
    BY <1>8 DEF PatchSaveUser, PatchSave, PassSave, history
  <2> QED
    BY <1>1, <2>1, <2>2, <2>3, StandingStays
<1> QED
  BY <1>2, <1>3, <1>4, <1>5, <1>6, <1>7, <1>8 DEF Serves

LEMMA StandingStep ==
  ASSUME ShapeInv, MarksOK, OneOrgInv, SeedInv, StandingInv, [Next]_vars
  PROVE  StandingInv'
<1> USE DEF IsMaking, Half, Becomes, Idle
<1>1. \A s \in Threads : req'[s] = req[s] /\ req[s] # Idle =>
        met[req[s].copy] \subseteq met'[req[s].copy]
  BY MetKept
<1>2. CASE UNCHANGED vars
  BY <1>1, <1>2, StandingStays DEF vars, accVars, tables, history
<1>3. ASSUME NEW c \in Copies, LaunchStep(c), UNCHANGED accVars
      PROVE  StandingInv'
  BY <1>1, <1>3, StandingStays DEF accVars, tables, history
<1>4. ASSUME NEW c \in Copies, Stop(c)
      PROVE  StandingInv'
  <2>1. /\ UNCHANGED <<user, org>> /\ \A s \in Threads : req'[s] = req[s] \/ req'[s] = Idle
    BY <1>4, StopDoes DEF tables
  <2>2. UNCHANGED skimped
    BY <1>4 DEF Stop
  <2> QED
    BY <1>1, <2>1, <2>2, StandingStays
<1>5. ASSUME NEW t \in Threads, NEW c \in Copies, NEW n \in Names,
             \/ \E super \in BOOLEAN : MakeBegin(t, c, n, super)
             \/ PatchRead(t, c, n) \/ PassRead(t, c, n)
      PROVE  StandingInv'
  <2>1. /\ UNCHANGED <<user, org>> /\ req'[t].at \in {"user", "patch", "pass"}
        /\ \A s \in Threads \ {t} : req'[s] = req[s]
    BY <1>5, MakeBeginDoes, PatchReadDoes, PassReadDoes DEF tables
  <2>2. UNCHANGED skimped
    BY <1>5 DEF MakeBegin, PatchRead, PassRead, history
  <2> QED
    BY <1>1, <2>1, <2>2, StandingStays
<1>6. ASSUME NEW c \in Copies, NEW n \in Names, LoginPost(c, n) \/ LogoutPost(c, n)
      PROVE  StandingInv'
  <2>1. UNCHANGED <<user, org, req>>
    BY <1>6, SessionDoes
  <2>2. UNCHANGED skimped
    BY <1>6 DEF LoginPost, LogoutPost, history
  <2> QED
    BY <1>1, <2>1, <2>2, StandingStays
<1> QED
  BY <1>2, <1>3, <1>4, <1>5, <1>6, StandingServe DEF Next

\* A superuser's organization is made on Enterprise, and nobody else's is, but for
\* those made by a copy that had found the plans half-seeded
\* (accounts/signals.py:16-20).
THEOREM PlansFollowStanding == Spec => []PlansByStanding
<1> DEFINE Inv == ShapeInv /\ MarksOK /\ OneOrgInv /\ SeedInv /\ StandingInv
<1>1. Init => OneOrgInv /\ SeedInv /\ StandingInv
  <2>1. Init => SeedInv
    BY DEF Init, LaunchInit, Off, SeedInv
  <2>2. Init => OneOrgInv /\ StandingInv
    BY DEF Init, OneOrgInv, OneOrgEach, MakersAreOne, StandingInv, StandingIsKept, PlansByStanding,
           IsMaking, Half, Idle
  <2> QED
    BY <2>1, <2>2
<1>2. Init => Inv
  BY <1>1, ShapeInit, MarksInit
<1>3. Inv /\ [Next]_vars => Inv'
  BY ShapeStep, MarksStep, OneOrgStep, SeedStep, StandingStep
<1>4. Inv => PlansByStanding
  BY DEF StandingInv
<1> QED
  BY <1>2, <1>3, <1>4, PTL DEF Spec

-----------------------------------------------------------------------------
(* Whole accounts *)

\* Who is whole stays whole, who holds an organization of the user's goes on
\* holding it, and who lets go of a user has made it whole, or spoilt it.
LEMMA WholeStays ==
  ASSUME ShapeInv, WholeInv, spoilt \subseteq spoilt',
         \A n \in Names : user[n] # None /\ IsWhole(n) /\ n \notin spoilt' => IsWhole(n)',
         \A t \in Threads : HoldsOwn(t)',
         \A t \in Threads, n \in Names : Makes(t, n) /\ n \notin spoilt' => IsWhole(n)' \/ Makes(t, n)',
         \A n \in Names : user'[n] # None => user[n] # None \/ InTheMaking(n)'
  PROVE  WholeInv'
<1>1. ASSUME NEW n \in Names \ spoilt', user'[n] # None
      PROVE  IsWhole(n)' \/ InTheMaking(n)'
  <2>1. CASE user[n] = None
    BY <1>1, <2>1
  <2>2. CASE user[n] # None
    <3>1. IsWhole(n) \/ InTheMaking(n)
      BY <1>1, <2>2 DEF WholeInv
    <3>2. CASE IsWhole(n)
      BY <1>1, <2>2, <3>2
    <3>3. CASE InTheMaking(n)
      <4>1. PICK t \in Threads : Makes(t, n)
        BY <3>3 DEF InTheMaking
      <4>2. IsWhole(n)' \/ Makes(t, n)'
        BY <1>1, <4>1
      <4> QED
        BY <4>2 DEF InTheMaking
    <3> QED
      BY <3>1, <3>2, <3>3
  <2> QED
    BY <2>1, <2>2
<1> QED
  BY <1>1 DEF WholeInv

\* Steps that leave users and organizations alone.
LEMMA WholeReads ==
  ASSUME ShapeInv, WholeInv, UNCHANGED <<user, org>>, spoilt \subseteq spoilt',
         \A t \in Threads :
           \/ req'[t] = req[t]
           \/ req[t].at \notin Half /\ (req'[t].at \in {"idle", "user", "pass"} \/ HoldsOwn(t)')
           \/ req[t].at = "plan" /\ req'[t].at = "org" /\ req'[t].name = req[t].name
           \/ req'[t].at = "idle" /\ (req[t].at \in Half => req[t].name \in spoilt')
  PROVE  WholeInv'
<1>1. \A n \in Names : IsWhole(n) => IsWhole(n)'
  BY DEF IsWhole, Owns
<1>2. ASSUME NEW t \in Threads
      PROVE  HoldsOwn(t)'
  <2>1. HoldsOwn(t)
    BY DEF WholeInv
  <2> QED
    BY <2>1 DEF HoldsOwn, Owns
<1>3. \A t \in Threads, n \in Names : Makes(t, n) /\ n \notin spoilt' => Makes(t, n)'
  BY DEF Makes, Half
<1> QED
  BY <1>1, <1>2, <1>3, WholeStays

\* Of the profile of n, written by the request of t; other requests stay.
LEMMA WholeWrites ==
  ASSUME ShapeInv, WholeInv, UNCHANGED <<org, spoilt>>, NEW t \in Threads, NEW n \in Names,
         n = req[t].name, user[n] # None, RowSet(n, user'[n]),
         Becomes(t, req'[t]), HoldsOwn(t)',
         IsWhole(n) /\ n \notin spoilt => IsWhole(n)',
         req[t].at \in Half => IsWhole(n)' \/ Makes(t, n)'
  PROVE  WholeInv'
<1>1. \A m \in Names : user[m] # None /\ IsWhole(m) /\ m \notin spoilt => IsWhole(m)'
  BY DEF IsWhole, Owns, RowSet
<1>2. ASSUME NEW s \in Threads, s # t
      PROVE  HoldsOwn(s)'
  <2>1. req'[s] = req[s] /\ HoldsOwn(s)
    BY <1>2 DEF Becomes, WholeInv
  <2> QED
    BY <2>1 DEF HoldsOwn, Owns
<1>3. \A s \in Threads, m \in Names : Makes(s, m) => IsWhole(m)' \/ Makes(s, m)'
  BY DEF Becomes, Makes, Half
<1>4. \A m \in Names : user'[m] # None => user[m] # None
  BY DEF RowSet
<1> QED
  BY <1>1, <1>2, <1>3, <1>4, WholeStays

LEMMA WholeServe ==
  ASSUME ShapeInv, OneOrgInv, WholeInv, NEW t \in Threads, Serves(t)
  PROVE  WholeInv'
<1> USE DEF Half, Idle
<1>0. HoldsOwn(t) /\ UNCHANGED spoilt
  BY ServesMarks DEF WholeInv
<1>1. CASE InsertUser(t)
  <2>0. req[t].at = "user" /\ UNCHANGED org
    BY <1>1, InsertUserDoes
  <2>1. CASE Becomes(t, Idle) /\ UNCHANGED user
    BY <1>0, <2>0, <2>1, WholeReads DEF Becomes
  <2>2. CASE /\ user[req[t].name] = None /\ RowSet(req[t].name, NewUser(t))
             /\ Becomes(t, req'[t]) /\ req'[t].at = "profile" /\ req'[t].name = req[t].name
    <3>1. \A n \in Names : user[n] # None => user'[n] = user[n]
      BY <2>2 DEF RowSet
    <3>2. \A n \in Names : user[n] # None /\ IsWhole(n) => IsWhole(n)'
      BY <2>0, <3>1 DEF IsWhole, Owns
    <3>3. ASSUME NEW s \in Threads
          PROVE  HoldsOwn(s)'
      <4>1. CASE s = t
        BY <2>2, <4>1 DEF HoldsOwn
      <4>2. CASE s # t
        <5>1. req'[s] = req[s] /\ HoldsOwn(s)
          BY <2>2, <4>2 DEF Becomes, WholeInv
        <5> QED
          BY <1>0, <2>0, <5>1 DEF HoldsOwn, Owns
      <4> QED
        BY <4>1, <4>2
    <3>4. \A n \in Names : user'[n] # None => user[n] # None \/ InTheMaking(n)'
      BY <2>2 DEF RowSet, InTheMaking, Makes
    <3>5. \A s \in Threads, n \in Names : Makes(s, n) => Makes(s, n)'
      BY <2>0, <2>2 DEF Becomes, Makes
    <3> QED
      BY <1>0, <3>2, <3>3, <3>4, <3>5, WholeStays
  <2> QED
    BY <1>1, <2>1, <2>2, InsertUserDoes DEF Becomes
<1>2. CASE InsertProfile(t)
  <2>1. \A i \in OrgIds : org[i] # None => org[i].owner # req[t].name
    BY <1>2, InsertProfileDoes DEF OneOrgInv, MakersAreOne
  <2>2. ~IsWhole(req[t].name)
    BY <2>1 DEF IsWhole, Owns
  <2>3. HoldsOwn(t)'
    BY <1>2, InsertProfileDoes DEF HoldsOwn
  <2>4. Makes(t, req[t].name)'
    BY <1>2, InsertProfileDoes DEF Makes
  <2> QED
    BY <1>0, <1>2, <2>2, <2>3, <2>4, InsertProfileDoes, WholeWrites
<1>3. CASE ReadPlan(t)
  BY <1>0, <1>3, ReadPlanDoes, WholeReads DEF Becomes, tables
<1>4. CASE InsertOrg(t)
  <2>1. PICK i \in OrgIds :
          /\ org[i] = None /\ org'[i] # None /\ org'[i].owner = req[t].name /\ req'[t].org = i
          /\ \A j \in OrgIds \ {i} : org'[j] = org[j]
    BY <1>4, InsertOrgDoes
  <2>2. /\ UNCHANGED user /\ req[t].at = "org" /\ Becomes(t, req'[t])
        /\ req'[t].at = "link" /\ req'[t].name = req[t].name
    BY <1>4, InsertOrgDoes
  <2>3. \A n \in Names : user[n] # None /\ IsWhole(n) => IsWhole(n)'
    BY <2>1, <2>2 DEF IsWhole, Owns
  <2>4. HoldsOwn(t)'
    BY <2>1, <2>2 DEF HoldsOwn, Owns
  <2>5. ASSUME NEW s \in Threads, s # t
        PROVE  HoldsOwn(s)'
    <3>1. req'[s] = req[s] /\ HoldsOwn(s)
      BY <2>2, <2>5 DEF Becomes, WholeInv
    <3> QED
      BY <1>0, <2>1, <3>1 DEF HoldsOwn, Owns
  <2>6. \A s \in Threads, n \in Names : Makes(s, n) => Makes(s, n)'
    BY <2>2 DEF Becomes, Makes
  <2>7. \A n \in Names : user'[n] # None => user[n] # None
    BY <2>2
  <2> QED
    BY <1>0, <2>3, <2>4, <2>5, <2>6, <2>7, WholeStays
<1>5. CASE LinkProfile(t)
  <2>1. Owns(req[t].name, req[t].org)
    BY <1>0, <1>5, LinkProfileDoes DEF HoldsOwn
  <2>2. PICK n \in Names : n = req[t].name
    BY <1>5, LinkProfileDoes
  <2>3. /\ UNCHANGED org /\ req[t].at = "link" /\ user[n] # None
        /\ RowSet(n, user'[n]) /\ user'[n].profile = req[t].org
    BY <1>5, <2>2, LinkProfileDoes
  <2>4. Becomes(t, req'[t]) /\ req'[t].at \in {"idle", "login"}
    BY <1>5, LinkProfileDoes DEF Becomes
  <2>5. IsWhole(n)'
    BY <2>1, <2>2, <2>3 DEF IsWhole, Owns
  <2>6. HoldsOwn(t)'
    BY <2>4 DEF HoldsOwn
  <2> QED
    BY <1>0, <2>2, <2>3, <2>4, <2>5, <2>6, WholeWrites
<1>6. CASE SignupLogin(t) \/ PassRehash(t)
  <2>1. UNCHANGED <<user, org>> /\ Becomes(t, Idle) /\ req[t].at \in {"login", "hash"}
    BY <1>6, SignupLoginDoes, PassRehashDoes
  <2> QED
    BY <1>0, <2>1, WholeReads DEF Becomes
<1>7. CASE PatchSaveUser(t) \/ PassSave(t)
  <2>1. PICK n \in Names : n = req[t].name
    BY <1>7, PatchSaveUserDoes, PassSaveDoes
  <2>2. /\ UNCHANGED org /\ user[n] # None
        /\ RowSet(n, user'[n]) /\ user'[n].profile = user[n].profile
        /\ Becomes(t, req'[t]) /\ req'[t].name = n
        /\ \/ req[t].at = "patch" /\ req'[t].at = "label" /\ req'[t].row = req[t].row
           \/ req[t].at = "pass" /\ req'[t].at = "hash"
    BY <1>7, <2>1, PatchSaveUserDoes, PassSaveDoes
  <2>3. IsWhole(n) => IsWhole(n)'
    BY <2>2 DEF IsWhole, Owns
  <2>4. HoldsOwn(t)'
    BY <1>0, <2>1, <2>2 DEF HoldsOwn, Owns
  <2> QED
    BY <1>0, <2>1, <2>2, <2>3, <2>4, WholeWrites
<1>8. CASE PatchSave(t)
  <2>1. PICK n \in Names : n = req[t].name
    BY <1>8, PatchSaveDoes
  <2>2. /\ UNCHANGED org /\ user[n] # None /\ req[t].at = "label"
        /\ RowSet(n, user'[n]) /\ user'[n].profile = req[t].row
        /\ Becomes(t, req'[t]) /\ req'[t].at = "idle"
    BY <1>8, <2>1, PatchSaveDoes DEF Becomes
  <2>3. n \notin spoilt => IsWhole(n)'
    BY <1>0, <2>1, <2>2 DEF HoldsOwn, IsWhole, Owns
  <2>4. HoldsOwn(t)'
    BY <2>2 DEF HoldsOwn
  <2> QED
    BY <1>0, <2>1, <2>2, <2>3, <2>4, WholeWrites
<1> QED
  BY <1>1, <1>2, <1>3, <1>4, <1>5, <1>6, <1>7, <1>8 DEF Serves

LEMMA WholeStep ==
  ASSUME ShapeInv, OneOrgInv, WholeInv, [Next]_vars
  PROVE  WholeInv'
<1> USE DEF Half, Idle
<1>1. CASE UNCHANGED vars
  BY <1>1, WholeReads DEF vars, accVars, tables, history
<1>2. ASSUME NEW c \in Copies, LaunchStep(c), UNCHANGED accVars
      PROVE  WholeInv'
  BY <1>2, WholeReads DEF accVars, tables, history
<1>3. ASSUME NEW c \in Copies, Stop(c)
      PROVE  WholeInv'
  <2>1. /\ UNCHANGED <<user, org>> /\ spoilt \subseteq spoilt'
        /\ \A n \in Names, s \in Threads : Makes(s, n) /\ req[s].copy = c => n \in spoilt'
        /\ req' = [t \in Threads |-> IF req[t] # Idle /\ req[t].copy = c THEN Idle ELSE req[t]]
    BY <1>3 DEF Stop, tables
  <2>2. ASSUME NEW s \in Threads
        PROVE  \/ req'[s] = req[s]
               \/ req'[s].at = "idle" /\ (req[s].at \in Half => req[s].name \in spoilt')
    <3>1. req[s] # Idle => req[s].name \in Names
      BY Request
    <3>2. CASE req[s] # Idle /\ req[s].copy = c
      BY <2>1, <3>1, <3>2 DEF Makes
    <3>3. CASE ~(req[s] # Idle /\ req[s].copy = c)
      BY <2>1, <3>3
    <3> QED
      BY <3>2, <3>3
  <2> QED
    BY <2>1, <2>2, WholeReads
<1>4. ASSUME NEW t \in Threads, NEW c \in Copies, NEW n \in Names,
             (\E super \in BOOLEAN : MakeBegin(t, c, n, super)) \/ PassRead(t, c, n)
      PROVE  WholeInv'
  <2>1. /\ UNCHANGED <<user, org>> /\ req[t] = Idle /\ req'[t].at \in {"user", "pass"}
        /\ \A s \in Threads \ {t} : req'[s] = req[s]
    BY <1>4, MakeBeginDoes, PassReadDoes DEF tables, Becomes
  <2>2. UNCHANGED spoilt
    BY <1>4 DEF MakeBegin, PassRead, history
  <2> QED
    BY <2>1, <2>2, WholeReads
<1>5. ASSUME NEW t \in Threads, NEW c \in Copies, NEW n \in Names, PatchRead(t, c, n)
      PROVE  WholeInv'
  <2>1. /\ UNCHANGED <<user, org>> /\ req[t] = Idle /\ session[n] # None
        /\ \A s \in Threads \ {t} : req'[s] = req[s]
        /\ req'[t].name = n /\ req'[t].at = "patch" /\ req'[t].row = user[n].profile
    BY <1>5, PatchReadDoes DEF tables, Becomes
  <2>2. spoilt' = IF InTheMaking(n) THEN spoilt \cup {n} ELSE spoilt
    BY <1>5 DEF PatchRead
  <2>3. n \notin spoilt' => IsWhole(n)
    BY <2>1, <2>2, Tables DEF WholeInv
  <2>4. HoldsOwn(t)'
    BY <2>1, <2>3 DEF HoldsOwn, IsWhole, Owns
  <2> QED
    BY <2>1, <2>2, <2>4, WholeReads
<1>6. ASSUME NEW c \in Copies, NEW n \in Names, LoginPost(c, n) \/ LogoutPost(c, n)
      PROVE  WholeInv'
  <2>1. UNCHANGED <<user, org, req>>
    BY <1>6, SessionDoes
  <2>2. UNCHANGED spoilt
    BY <1>6 DEF LoginPost, LogoutPost, history
  <2> QED
    BY <2>1, <2>2, WholeReads
<1> QED
  BY <1>1, <1>2, <1>3, <1>4, <1>5, <1>6, WholeServe DEF Next

\* Whatever signups race for a name, whatever profile edits are in hand and
\* wherever copies end, every user has a profile that points at the organization
\* the user owns, but for accounts whose signup was cut off or which were edited
\* during it (billing/models.py:109-110, accounts/serializers.py:62-88,
\* accounts/signals.py).
THEOREM AccountsStayWhole == Spec => []AccountsAreWhole
<1> DEFINE Inv == ShapeInv /\ OneOrgInv /\ WholeInv
<1>1. Init => Inv
  <2>1. ASSUME Init
        PROVE  OneOrgInv /\ WholeInv
    BY <2>1 DEF Init, OneOrgInv, OneOrgEach, MakersAreOne, WholeInv, HoldsOwn, IsMaking, Half, Idle
  <2> QED
    BY <2>1, ShapeInit
<1>2. Inv /\ [Next]_vars => Inv'
  BY ShapeStep, OneOrgStep, WholeStep
<1>3. Inv => AccountsAreWhole
  BY DEF WholeInv, AccountsAreWhole, IsWhole, Whole, Owns
<1> QED
  BY <1>1, <1>2, <1>3, PTL DEF Spec

=============================================================================
