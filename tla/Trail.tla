------------------------------- MODULE Trail -------------------------------
(* Who may do what to cases and evidence, and the audit trail of what was    *)
(* done: the handlers of cases and evidence with their permission checks,    *)
(* the entries they write before or after the deed, and the lists that show  *)
(* cases and entries to members of several organizations.  Requests run on   *)
(* several threads and may die between any two statements; what the deeds do *)
(* to limits, files and parsed rows is said in Cases and Evidence.           *)
EXTENDS Integers, FiniteSets

CONSTANTS
  None,        \* no organization, case, user
  Orgs,        \* organizations
  Members,     \* the users, each with its profile
  Cases,       \* ids of Case rows
  Items,       \* ids of EvidenceItem rows
  Handlers,    \* threads of the server
  Plans,       \* what the plan of an organization may be
  MaxRequests  \* (bounds the run: requests served)

Users == DOMAIN Members

Profile == [org : Orgs \cup {None}, role : {"admin", "examiner", "viewer"},
            owner : BOOLEAN, super : BOOLEAN]

\* has_feature of the five flags that handlers and lists here ask for.
Plan == [readOnly : BOOLEAN, features : SUBSET {"audit", "export", "report"}]

VARIABLES
  plan,     \* of each organization
  rows,     \* the Case rows
  items,    \* the case of each EvidenceItem row
  trail,    \* the AuditLogEntry rows
  console,  \* warnings of log_action that an entry was not written
  job,      \* the request each thread is serving
  served,   \* the number of requests so far
  deeds,    \* (history) what requests did
  died      \* (history) the requests that did not run to their end

vars == <<plan, rows, items, trail, console, job, served, deeds, died>>

-----------------------------------------------------------------------------
(* State *)

CaseRow == [org : Orgs, investigator : Users]

Acts == {"case.create", "case.update", "case.status_change", "case.delete",
         "evidence.upload", "evidence.delete", "evidence.export", "case.report_generated"}

\* row is the Case row the request holds, case its id.
Job == [at : {"unlink", "log", "deed"}, req : 1..MaxRequests, user : Users, act : Acts,
        case : Cases \cup {None}, item : Items \cup {None}, row : CaseRow]

\* of is (history) the organization that the act concerned, link the case field.
Entry == [req : 1..MaxRequests, user : Users \cup {None}, link : Cases \cup {None},
          act : Acts \cup {"auth.login", "auth.logout", "auth.login_failed"}, of : Orgs \cup {None}]

\* What a request does: its act, and before that of evidence.delete the
\* destruction of the bytes.
Deed == [req : 1..MaxRequests, user : Users, act : Acts \cup {"evidence.unlink"}, case : Cases, row : CaseRow]

ASSUME TrailAssumption == /\ None \notin Orgs \cup Users \cup Cases \cup CaseRow \cup Job
                          /\ Members \in [Users -> Profile]
                          /\ Plans \subseteq Plan
                          /\ MaxRequests \in Nat

TypeOK == /\ plan \in [Orgs -> Plans]
          /\ rows \in [Cases -> CaseRow \cup {None}]
          /\ items \in [Items -> Cases \cup {None}]
          /\ trail \subseteq Entry
          /\ console \subseteq 1..MaxRequests
          /\ job \in [Handlers -> Job \cup {None}]
          /\ served \in 0..MaxRequests
          /\ deeds \subseteq Deed
          /\ died \subseteq 1..MaxRequests

-----------------------------------------------------------------------------
(* core/permissions.py and Profile *)

OrgOf(u)    == Members[u].org
IsAdmin(u)  == Members[u].role = "admin" \/ Members[u].super \/ Members[u].owner
IsViewer(u) == Members[u].role = "viewer" /\ ~Members[u].owner /\ ~Members[u].super

\* A user without organization is on Free.
ReadOnly(org)    == org = None \/ plan[org].readOnly
HasFeature(org, f) == org # None /\ f \in plan[org].features

SameOrg(u, row) == OrgOf(u) # None /\ row.org = OrgOf(u)

CanView(u, row) == SameOrg(u, row) /\ (IsAdmin(u) \/ IsViewer(u) \/ row.investigator = u)

CanEdit(u, row) == /\ SameOrg(u, row)
                   /\ ~ReadOnly(row.org)
                   /\ ~IsViewer(u)
                   /\ IsAdmin(u) \/ row.investigator = u

Live == {c \in Cases : rows[c] # None}

-----------------------------------------------------------------------------
(* The start *)

\* Cases as their investigators created them, from before the time looked at.
Earlier == {r \in CaseRow : r.org = OrgOf(r.investigator) /\ ~IsViewer(r.investigator)}

Init == /\ plan \in [Orgs -> Plans]
        /\ rows \in [Cases -> Earlier \cup {None}]
        /\ items \in [Items -> Live \cup {None}]
        /\ trail = {}
        /\ console = {}
        /\ job = [h \in Handlers |-> None]
        /\ served = 0
        /\ deeds = {}
        /\ died = {}

-----------------------------------------------------------------------------
(* log_action *)

\* (mutant) a deletion is logged once it is done
LogsFirstButDelete(act) == act \in {"evidence.delete", "evidence.export", "case.report_generated"}

\* (mutant) a change is logged before it is saved
LogsFirstUpdate(act) ==
  act \in {"case.delete", "evidence.delete", "evidence.export", "case.report_generated",
           "case.update"}

\* The handlers that write the entry before they delete the row or answer.
LogsFirst(act) ==
  act \in {"case.delete", "evidence.delete", "evidence.export", "case.report_generated"}

\* A deleted item loses its bytes even before that.
FirstStep(act) == IF act = "evidence.delete" THEN "unlink"
                  ELSE IF LogsFirst(act) THEN "log" ELSE "deed"

Busy(h) == job[h] # None
End(h)  == job' = [job EXCEPT ![h] = None]
Goto(h, at) == job' = [job EXCEPT ![h].at = at]

\* After the entry comes the deed, or the end.
AfterLog(h)  == IF LogsFirst(job[h].act) THEN Goto(h, "deed") ELSE End(h)

\* The entry of a deleted case does not refer to it.
Link(j) == IF j.act = "case.delete" THEN None ELSE j.case

EntryOf(j) == [req |-> j.req, user |-> j.user, act |-> j.act, link |-> Link(j), of |-> j.row.org]

Log(h) == /\ Busy(h) /\ job[h].at = "log"
          /\ Link(job[h]) # None => rows[Link(job[h])] # None
          /\ trail' = trail \cup {EntryOf(job[h])}
          /\ AfterLog(h)
          /\ UNCHANGED <<plan, rows, items, console, served, deeds, died>>

\* The entry cannot be written: its case is gone, or the database is locked.
LogFails(h) == /\ Busy(h) /\ job[h].at = "log"
               /\ console' = console \cup {job[h].req}
               /\ AfterLog(h)
               /\ UNCHANGED <<plan, rows, items, trail, served, deeds, died>>

\* The entries made on Django's signals of a login, a logout and a failed login.
AuthEvent(user, act, org) ==
  /\ served < MaxRequests
  /\ served' = served + 1
  /\ trail' = trail \cup {[req |-> served + 1, user |-> user, act |-> act, link |-> None,
                           of |-> org]}
  /\ UNCHANGED <<plan, rows, items, console, job, deeds, died>>

OnLogin(u)    == AuthEvent(u, "auth.login", OrgOf(u))
OnLogout(u)   == AuthEvent(u, "auth.logout", OrgOf(u))
OnLoginFailed == AuthEvent(None, "auth.login_failed", None)

-----------------------------------------------------------------------------
(* The handlers: the checks, on the row they load *)

Start(h, u, act, c, i, row) ==
  /\ ~Busy(h) /\ served < MaxRequests
  /\ served' = served + 1
  /\ job' = [job EXCEPT ![h] = [at |-> FirstStep(act), req |-> served + 1,
                                user |-> u, act |-> act, case |-> c, item |-> i, row |-> row]]
  /\ UNCHANGED <<plan, rows, items, trail, console, deeds, died>>

\* CaseListCreateAPI.post (the limit of cases is said in Cases).
CaseCreate(h, u) == /\ ~IsViewer(u) /\ ~ReadOnly(OrgOf(u))
                    /\ Start(h, u, "case.create", None, None,
                             [org |-> OrgOf(u), investigator |-> u])

\* CaseDetailAPI.patch and delete.
CaseDetail(h, u, c) == /\ c \in Live /\ CanView(u, rows[c]) /\ CanEdit(u, rows[c])
                       /\ \E act \in {"case.update", "case.delete"} :
                            Start(h, u, act, c, None, rows[c])

CaseStatus(h, u, c) == /\ c \in Live /\ CanEdit(u, rows[c])
                       /\ Start(h, u, "case.status_change", c, None, rows[c])

\* (mutant) require_view in the place of require_edit
EvidenceUploadByView(h, u, c) == /\ c \in Live /\ CanView(u, rows[c]) /\ ~ReadOnly(OrgOf(u))
                                 /\ Start(h, u, "evidence.upload", c, None, rows[c])

EvidenceUpload(h, u, c) == /\ c \in Live /\ CanEdit(u, rows[c]) /\ ~ReadOnly(OrgOf(u))
                           /\ Start(h, u, "evidence.upload", c, None, rows[c])

EvidenceDelete(h, u, i) == /\ items[i] # None
                           /\ CanView(u, rows[items[i]]) /\ CanEdit(u, rows[items[i]])
                           /\ Start(h, u, "evidence.delete", items[i], i, rows[items[i]])

ExportTable(h, u, c) == /\ c \in Live /\ CanView(u, rows[c]) /\ HasFeature(OrgOf(u), "export")
                        /\ Start(h, u, "evidence.export", c, None, rows[c])

CaseReport(h, u, c) == /\ c \in Live /\ CanView(u, rows[c]) /\ HasFeature(OrgOf(u), "report")
                       /\ Start(h, u, "case.report_generated", c, None, rows[c])

-----------------------------------------------------------------------------
(* The handlers: the deeds *)

At(h, acts) == Busy(h) /\ job[h].at = "deed" /\ job[h].act \in acts

DeedOf(j, act, c) == [req |-> j.req, user |-> j.user, act |-> act, case |-> c, row |-> j.row]
Did(h, c) == deeds' = deeds \cup {DeedOf(job[h], job[h].act, c)}
AfterDeed(h) == IF LogsFirst(job[h].act) THEN End(h) ELSE Goto(h, "log")

\* (mutant) the row gets no organization
CaseInsertStray(h) == \E c \in Cases \ (Live \cup {d.case : d \in deeds}) :
  /\ At(h, {"case.create"})
  /\ rows' = [rows EXCEPT ![c] = [job[h].row EXCEPT !.org = None]]
  /\ job' = [job EXCEPT ![h].case = c, ![h].at = "log"]
  /\ Did(h, c)
  /\ UNCHANGED <<plan, items, trail, console, served, died>>

\* serializer.save: the id of a deleted row is not used again.
CaseInsert(h) == \E c \in Cases \ (Live \cup {d.case : d \in deeds}) :
  /\ At(h, {"case.create"})
  /\ rows' = [rows EXCEPT ![c] = job[h].row]
  /\ job' = [job EXCEPT ![h].case = c, ![h].at = "log"]
  /\ Did(h, c)
  /\ UNCHANGED <<plan, items, trail, console, served, died>>

\* The whole row is saved, also if it was deleted meanwhile.
CaseSave(h) == /\ At(h, {"case.update", "case.status_change"})
               /\ rows' = [rows EXCEPT ![job[h].case] = job[h].row]
               /\ Did(h, job[h].case)
               /\ AfterDeed(h)
               /\ UNCHANGED <<plan, items, trail, console, served, died>>

\* (mutant) on_delete=CASCADE
UnlinkCascade(c) == trail' = {e \in trail : e.link # c}

\* on_delete=SET_NULL of AuditLogEntry.case.
Unlink(c) == trail' = {IF e.link = c THEN [e EXCEPT !.link = None] ELSE e : e \in trail}

\* case.delete(), with what cascades.
CaseRemove(h) == LET c == job[h].case IN
  /\ At(h, {"case.delete"})
  /\ rows' = [rows EXCEPT ![c] = None]
  /\ items' = [i \in Items |-> IF items[i] = c THEN None ELSE items[i]]
  /\ Unlink(c)
  /\ Did(h, c)
  /\ AfterDeed(h)
  /\ UNCHANGED <<plan, console, served, died>>

\* EvidenceItem.objects.create.
ItemInsert(h) == \E i \in Items :
  /\ At(h, {"evidence.upload"})
  /\ rows[job[h].case] # None
  /\ items[i] = None
  /\ items' = [items EXCEPT ![i] = job[h].case]
  /\ Did(h, job[h].case)
  /\ AfterDeed(h)
  /\ UNCHANGED <<plan, rows, trail, console, served, died>>

\* Path.unlink of the stored file; what it raises is swallowed, and an item of
\* the demo case has none.
ItemUnlink(h) == /\ Busy(h) /\ job[h].at = "unlink"
                 /\ deeds' \in {deeds, deeds \cup {DeedOf(job[h], "evidence.unlink", job[h].case)}}
                 /\ Goto(h, "log")
                 /\ UNCHANGED <<plan, rows, items, trail, console, served, died>>

\* evidence.delete().
ItemRemove(h) == /\ At(h, {"evidence.delete"})
                 /\ items' = [items EXCEPT ![job[h].item] = None]
                 /\ Did(h, job[h].case)
                 /\ AfterDeed(h)
                 /\ UNCHANGED <<plan, rows, trail, console, served, died>>

\* The table or the report is handed out.
HandOut(h) == /\ At(h, {"evidence.export", "case.report_generated"})
              /\ Did(h, job[h].case)
              /\ AfterDeed(h)
              /\ UNCHANGED <<plan, rows, items, trail, console, served, died>>

\* A request dies: its process is killed, or the database refuses a statement
\* (that of an upload for a case that is gone, for one).
Abort(h) == /\ Busy(h)
            /\ died' = died \cup {job[h].req}
            /\ End(h)
            /\ UNCHANGED <<plan, rows, items, trail, console, served, deeds>>

\* Billing changes the plan of an organization.
SetPlan(org, p) == /\ plan' = [plan EXCEPT ![org] = p]
                   /\ UNCHANGED <<rows, items, trail, console, job, served, deeds, died>>

Request(h, u) == \/ CaseCreate(h, u)
                 \/ \E c \in Cases : \/ CaseDetail(h, u, c) \/ CaseStatus(h, u, c)
                                     \/ EvidenceUpload(h, u, c)
                                     \/ ExportTable(h, u, c) \/ CaseReport(h, u, c)
                 \/ \E i \in Items : EvidenceDelete(h, u, i)

Continue(h) == \/ Log(h) \/ LogFails(h)
               \/ CaseInsert(h) \/ CaseSave(h) \/ CaseRemove(h)
               \/ ItemInsert(h) \/ ItemUnlink(h) \/ ItemRemove(h) \/ HandOut(h)

Next == \/ \E h \in Handlers, u \in Users : Request(h, u)
        \/ \E h \in Handlers : Continue(h) \/ Abort(h)
        \/ \E org \in Orgs, p \in Plans : SetPlan(org, p)
        \/ \E u \in Users : OnLogin(u) \/ OnLogout(u)
        \/ OnLoginFailed

Spec == Init /\ [][Next]_vars

-----------------------------------------------------------------------------
(* What is shown *)

\* (mutant) only entries that refer to a case of the organization
OrgEntriesByCase(org) ==
  {e \in trail : e.link # None /\ rows[e.link] # None /\ rows[e.link].org = org}

\* Q(user__profile__org=org) | Q(case__organization=org): None matches NULL.
OrgEntries(org) ==
  {e \in trail : \/ (IF e.user = None THEN None ELSE OrgOf(e.user)) = org
                 \/ (IF e.link = None THEN None ELSE rows[e.link].org) = org}

SeesOrgWide(u) == (IsAdmin(u) \/ IsViewer(u)) /\ HasFeature(OrgOf(u), "audit")

\* AuditLogListAPI.get, and recent_activity of DashboardStatsAPI.get.
AuditList(u)      == {e \in OrgEntries(OrgOf(u)) : SeesOrgWide(u) \/ e.user = u}
RecentActivity(u) == {e \in OrgEntries(OrgOf(u)) : IsAdmin(u) \/ IsViewer(u) \/ e.user = u}

-----------------------------------------------------------------------------
(* Properties *)

\* The trail is a chain of custody: no entry is ever dropped or rewritten, other
\* than that it loses the link to its case when that is deleted
\* (auditlog/models.py:6-8: "an immutable, timestamped row").
IsKept(e, entries) == \/ e \in entries
                      \/ [e EXCEPT !.link = None] \in entries /\ rows'[e.link] = None
TrailKeeps == [][\A e \in trail : IsKept(e, trail')]_vars

\* Whatever the threads, what was done is recorded: a deed has its entry, or a
\* warning on the console where the entry could not be written, or its request
\* has yet to log it or died on the way there.  The last can happen to the bytes
\* of an item, which go before the entry (evidence/api.py:305-308), and never to
\* the deletion of a row or to what is handed out: those come after it.
Logged(req) == req \in console \cup {e.req : e \in trail}
Pending(req) == \E h \in Handlers : Busy(h) /\ job[h].req = req
RecordedFirst == {"case.delete", "evidence.delete", "evidence.export", "case.report_generated"}
EveryDeedIsRecorded ==
  \A d \in deeds : \/ Logged(d.req)
                   \/ d.act \notin RecordedFirst /\ (Pending(d.req) \/ d.req \in died)

\* No entry speaks of a deed that was not done, other than those written first,
\* whose request is still at it or died before it did it.
EntriesAreEarned ==
  \A e \in trail : \/ e.act \notin Acts  \* a login
                   \/ \E d \in deeds : d.req = e.req /\ d.act \in Acts
                   \/ e.act \in RecordedFirst /\ (Pending(e.req) \/ e.req \in died)

\* Whatever the threads, a case is changed, and its evidence taken or removed,
\* by members of its own organization who are no reviewers, and by examiners
\* only if it is theirs; it is handed out within its organization only; and no
\* case changes hands.
Entitled(d) == /\ d.row.org = OrgOf(d.user)
               /\ d.act \notin {"evidence.export", "case.report_generated"} => ~IsViewer(d.user)
               /\ IsAdmin(d.user) \/ IsViewer(d.user) \/ d.row.investigator = d.user
DeedsAreEntitled == \A d \in deeds : Entitled(d) /\ rows[d.case] \in {d.row, None}

\* To members of an organization the trail shows their own entries, to all of
\* them with the right and the plan exactly what concerned their organization,
\* also when the case is gone; and the dashboard goes beyond the list (it does
\* not ask for the plan), but not beyond the organization.
TrailIsWhole ==
  \A u \in Users : OrgOf(u) # None =>
    LET ours == {e \in trail : e.of = OrgOf(u)}
        mine == {e \in trail : e.user = u}
    IN  /\ AuditList(u) = IF SeesOrgWide(u) THEN ours ELSE mine
        /\ AuditList(u) \subseteq RecentActivity(u)
        /\ RecentActivity(u) \subseteq ours

=============================================================================
