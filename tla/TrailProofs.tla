---------------------------- MODULE TrailProofs ----------------------------
(* Proofs about Trail for any number of organizations, members, cases, items *)
(* and threads.                                                              *)
EXTENDS Trail, TLAPS

\* What a request holds besides the types of its parts.
Shaped(j) == /\ j.case = None <=> j.act = "case.create" /\ j.at = "deed"
             /\ j.act = "evidence.delete" => j.item \in Items
             /\ j.at = "unlink" => j.act = "evidence.delete"

JobsAreShaped == \A h \in Handlers : Busy(h) => Shaped(job[h])

\* No item without its case.
ItemsHaveCases == \A i \in Items : items[i] # None => rows[items[i]] # None

TypeInv == TypeOK /\ JobsAreShaped /\ ItemsHaveCases

-----------------------------------------------------------------------------
(* The steps *)

\* What the checks of a handler let through.
Admitted(h, u, act, c, i, row) ==
  /\ Start(h, u, act, c, i, row)
  /\ row \in CaseRow
  /\ Entitled([user |-> u, act |-> act, row |-> row])
  /\ c = None <=> act = "case.create"
  /\ c # None => rows[c] = row
  /\ act = "evidence.delete" => i \in Items

\* A case that is viewed or edited belongs to the organization of the member.
LEMMA ChecksEntitle ==
  ASSUME TypeOK, NEW u \in Users, NEW c \in Cases, rows[c] # None, NEW act \in Acts,
         \/ CanEdit(u, rows[c])
         \/ CanView(u, rows[c]) /\ act \in {"evidence.export", "case.report_generated"}
  PROVE  /\ rows[c] \in CaseRow
         /\ Entitled([user |-> u, act |-> act, row |-> rows[c]])
  BY DEF TypeOK, CanEdit, CanView, SameOrg, Entitled

LEMMA RequestsAreAdmitted ==
  ASSUME TypeInv, NEW h \in Handlers, NEW u \in Users, Request(h, u)
  PROVE  \E act \in Acts, c \in Cases \cup {None}, i \in Items \cup {None}, row \in CaseRow :
           Admitted(h, u, act, c, i, row)
<1> USE DEF Acts
<1>0. None \notin Cases
  BY TrailAssumption
<1>1. CASE CaseCreate(h, u)
  <2> DEFINE row == [org |-> OrgOf(u), investigator |-> u]
  <2>1. row \in CaseRow
    BY <1>1, TrailAssumption DEF CaseCreate, ReadOnly, OrgOf, Profile, CaseRow
  <2>2. Entitled([user |-> u, act |-> "case.create", row |-> row])
    BY <1>1 DEF CaseCreate, Entitled
  <2> QED
    BY <1>1, <2>1, <2>2 DEF CaseCreate, Admitted
<1>2. ASSUME NEW c \in Cases,
             \/ CaseDetail(h, u, c) \/ CaseStatus(h, u, c) \/ EvidenceUpload(h, u, c)
             \/ ExportTable(h, u, c) \/ CaseReport(h, u, c)
      PROVE  \E act \in Acts : Admitted(h, u, act, c, None, rows[c])
  <2>1. rows[c] # None
    BY <1>2 DEF CaseDetail, CaseStatus, EvidenceUpload, ExportTable, CaseReport, Live
  <2>2. PICK act \in Acts \ {"case.create", "evidence.delete"} :
               /\ Start(h, u, act, c, None, rows[c])
               /\ \/ CanEdit(u, rows[c])
                  \/ CanView(u, rows[c]) /\ act \in {"evidence.export", "case.report_generated"}
    BY <1>2 DEF CaseDetail, CaseStatus, EvidenceUpload, ExportTable, CaseReport
  <2> QED
    BY <1>0, <2>1, <2>2, ChecksEntitle DEF TypeInv, Admitted
<1>3. ASSUME NEW i \in Items, EvidenceDelete(h, u, i)
      PROVE  /\ items[i] \in Cases
             /\ Admitted(h, u, "evidence.delete", items[i], i, rows[items[i]])
  <2>1. items[i] \in Cases /\ rows[items[i]] # None
    BY <1>3 DEF EvidenceDelete, TypeInv, ItemsHaveCases, TypeOK
  <2> QED
    BY <1>0, <1>3, <2>1, ChecksEntitle DEF EvidenceDelete, TypeInv, Admitted
<1>4. \A c \in Cases : rows[c] # None => rows[c] \in CaseRow
  BY DEF TypeInv, TypeOK
<1> QED
  BY <1>1, <1>2, <1>3, <1>4 DEF Request, Admitted

-----------------------------------------------------------------------------
(* Types *)

LEMMA TypeInit == Init => TypeInv
<1> SUFFICES ASSUME Init PROVE TypeInv
  OBVIOUS
<1>1. TypeOK
  BY TrailAssumption DEF Init, TypeOK, Earlier, Live
<1>2. JobsAreShaped
  BY DEF Init, JobsAreShaped, Busy
<1>3. ItemsHaveCases
  BY TrailAssumption DEF Init, ItemsHaveCases, Live
<1> QED
  BY <1>1, <1>2, <1>3 DEF TypeInv

\* A request keeps its shape as it goes on, and ends without one.
LEMMA EndTyped ==
  ASSUME TypeInv, NEW h \in Handlers, End(h)
  PROVE  job' \in [Handlers -> Job \cup {None}] /\ JobsAreShaped'
  BY DEF TypeInv, TypeOK, JobsAreShaped, Busy, End

LEMMA GotoTyped ==
  ASSUME TypeInv, NEW h \in Handlers, NEW at \in {"deed", "log"}, Busy(h), Goto(h, at),
         job[h].act # "case.create"
  PROVE  job' \in [Handlers -> Job \cup {None}] /\ JobsAreShaped'
<1>1. [job[h] EXCEPT !.at = at] \in Job /\ Shaped([job[h] EXCEPT !.at = at])
  BY DEF TypeInv, TypeOK, JobsAreShaped, Busy, Shaped, Job
<1> QED
  BY <1>1 DEF TypeInv, TypeOK, JobsAreShaped, Busy, Goto

\* A deed leaves a deed.
LEMMA DidTyped ==
  ASSUME TypeInv, NEW h \in Handlers, Busy(h), NEW c \in Cases, Did(h, c)
  PROVE  deeds' \subseteq Deed
  BY DEF TypeInv, TypeOK, Busy, Did, DeedOf, Job, Deed

LEMMA TypeRequest ==
  ASSUME TypeInv, NEW h \in Handlers, NEW u \in Users, Request(h, u)
  PROVE  TypeInv'
<1>1. PICK act \in Acts, c \in Cases \cup {None}, i \in Items \cup {None}, row \in CaseRow :
             Admitted(h, u, act, c, i, row)
  BY RequestsAreAdmitted
<1> DEFINE j == [at |-> FirstStep(act), req |-> served + 1,
                 user |-> u, act |-> act, case |-> c, item |-> i, row |-> row]
<1>2. served + 1 \in 1..MaxRequests
  BY <1>1, TrailAssumption DEF Admitted, Start, TypeInv, TypeOK
<1>3. j \in Job /\ Shaped(j)
  BY <1>1, <1>2 DEF Admitted, Job, Shaped, LogsFirst, FirstStep
<1>4. job' = [job EXCEPT ![h] = j] /\ served' = served + 1
  BY <1>1 DEF Admitted, Start
<1>5. UNCHANGED <<plan, rows, items, trail, console, deeds, died>>
  BY <1>1 DEF Admitted, Start
<1> HIDE DEF j
<1>6. TypeOK'
  BY <1>2, <1>3, <1>4, <1>5 DEF TypeInv, TypeOK
<1>7. JobsAreShaped'
  BY <1>3, <1>4 DEF TypeInv, TypeOK, JobsAreShaped, Busy
<1> QED
  BY <1>5, <1>6, <1>7 DEF TypeInv, ItemsHaveCases

LEMMA TypeLog ==
  ASSUME TypeInv, NEW h \in Handlers, Log(h) \/ LogFails(h)
  PROVE  TypeInv'
<1>1. job[h] \in Job /\ Shaped(job[h]) /\ job[h].at = "log"
  BY DEF Log, LogFails, Busy, TypeInv, TypeOK, JobsAreShaped
<1>2. job' \in [Handlers -> Job \cup {None}] /\ JobsAreShaped'
  <2>1. LogsFirst(job[h].act) => job[h].act # "case.create"
    BY DEF LogsFirst
  <2> QED
    BY <2>1, EndTyped, GotoTyped DEF Log, LogFails, AfterLog
<1>3. EntryOf(job[h]) \in Entry
  BY <1>1 DEF EntryOf, Entry, Link, Job, CaseRow
<1> QED
  BY <1>1, <1>2, <1>3 DEF Log, LogFails, TypeInv, TypeOK, ItemsHaveCases, Job

LEMMA TypeUnlink ==
  ASSUME TypeInv, NEW h \in Handlers, ItemUnlink(h)
  PROVE  TypeInv'
<1>1. Busy(h) /\ job[h] \in Job /\ Shaped(job[h]) /\ job[h].at = "unlink"
  BY DEF ItemUnlink, Busy, TypeInv, TypeOK, JobsAreShaped
<1>2. job[h].act = "evidence.delete" /\ job[h].case \in Cases
  BY <1>1 DEF Shaped, Job
<1>3. job' \in [Handlers -> Job \cup {None}] /\ JobsAreShaped'
  BY <1>1, <1>2, GotoTyped DEF ItemUnlink
<1>4. deeds' \subseteq Deed
  BY <1>1, <1>2 DEF ItemUnlink, TypeInv, TypeOK, DeedOf, Job, Deed
<1> QED
  BY <1>3, <1>4 DEF ItemUnlink, TypeInv, TypeOK, ItemsHaveCases

LEMMA TypeDeed ==
  ASSUME TypeInv, NEW h \in Handlers,
         \/ CaseInsert(h) \/ CaseSave(h) \/ CaseRemove(h)
         \/ ItemInsert(h) \/ ItemRemove(h) \/ HandOut(h)
  PROVE  TypeInv'
<1>1. /\ Busy(h) /\ job[h] \in Job /\ Shaped(job[h]) /\ job[h].at = "deed"
      /\ job[h].act # "case.create" => job[h].case \in Cases
  BY DEF CaseInsert, CaseSave, CaseRemove, ItemInsert, ItemRemove, HandOut, At, Busy,
         TypeInv, TypeOK, JobsAreShaped, Shaped, Job
<1>2. ASSUME AfterDeed(h), job[h].act # "case.create"
      PROVE  job' \in [Handlers -> Job \cup {None}] /\ JobsAreShaped'
  BY <1>1, <1>2, EndTyped, GotoTyped DEF AfterDeed
<1>3. ASSUME NEW c \in Cases \ Live, rows' = [rows EXCEPT ![c] = job[h].row],
             job' = [job EXCEPT ![h].case = c, ![h].at = "log"], Did(h, c),
             UNCHANGED <<plan, items, trail, console, served, died>>
      PROVE  TypeInv'
  <2> DEFINE j == [job[h] EXCEPT !.case = c, !.at = "log"]
  <2>1. j \in Job /\ Shaped(j)
    BY <1>1, TrailAssumption DEF Job, Shaped
  <2>2. job' = [job EXCEPT ![h] = j]
    BY <1>3 DEF TypeInv, TypeOK
  <2>3. job' \in [Handlers -> Job \cup {None}] /\ JobsAreShaped'
    BY <2>1, <2>2 DEF TypeInv, TypeOK, JobsAreShaped, Busy
  <2>4. rows' \in [Cases -> CaseRow \cup {None}] /\ ItemsHaveCases'
    BY <1>1, <1>3, TrailAssumption DEF TypeInv, TypeOK, ItemsHaveCases, Job, Live
  <2> QED
    BY <1>1, <1>3, <2>3, <2>4, DidTyped DEF TypeInv, TypeOK
<1>4. CASE CaseInsert(h)
  BY <1>3, <1>4 DEF CaseInsert
<1>5. CASE CaseSave(h)
  <2>1. job[h].act # "case.create"
    BY <1>5 DEF CaseSave, At
  <2>2. rows' \in [Cases -> CaseRow \cup {None}] /\ ItemsHaveCases'
    BY <1>1, <1>5, TrailAssumption DEF CaseSave, TypeInv, TypeOK, ItemsHaveCases, Job
  <2> QED
    BY <1>1, <1>2, <1>5, <2>1, <2>2, DidTyped DEF CaseSave, TypeInv, TypeOK
<1>6. CASE CaseRemove(h)
  <2>1. job[h].act # "case.create"
    BY <1>6 DEF CaseRemove, At
  <2>2. rows' \in [Cases -> CaseRow \cup {None}] /\ items' \in [Items -> Cases \cup {None}]
    BY <1>6 DEF CaseRemove, TypeInv, TypeOK
  <2>3. ItemsHaveCases'
    BY <1>6, <2>1 DEF CaseRemove, TypeInv, TypeOK, ItemsHaveCases
  <2>4. trail' \subseteq Entry
    BY <1>6 DEF CaseRemove, Unlink, TypeInv, TypeOK, Entry
  <2> QED
    BY <1>1, <1>2, <1>6, <2>1, <2>2, <2>3, <2>4, DidTyped DEF CaseRemove, TypeInv, TypeOK
<1>7. CASE ItemInsert(h)
  <2>1. job[h].act # "case.create"
    BY <1>7 DEF ItemInsert, At
  <2>2. items' \in [Items -> Cases \cup {None}] /\ ItemsHaveCases'
    BY <1>1, <1>7, <2>1 DEF ItemInsert, TypeInv, TypeOK, ItemsHaveCases
  <2> QED
    BY <1>1, <1>2, <1>7, <2>1, <2>2, DidTyped DEF ItemInsert, TypeInv, TypeOK
<1>8. CASE ItemRemove(h)
  <2>1. job[h].act # "case.create"
    BY <1>8 DEF ItemRemove, At
  <2>2. items' \in [Items -> Cases \cup {None}] /\ ItemsHaveCases'
    BY <1>8 DEF ItemRemove, TypeInv, TypeOK, ItemsHaveCases
  <2> QED
    BY <1>1, <1>2, <1>8, <2>1, <2>2, DidTyped DEF ItemRemove, TypeInv, TypeOK
<1>9. CASE HandOut(h)
  <2>1. job[h].act # "case.create"
    BY <1>9 DEF HandOut, At
  <2> QED
    BY <1>1, <1>2, <1>9, <2>1, DidTyped DEF HandOut, TypeInv, TypeOK, ItemsHaveCases
<1> QED
  BY <1>4, <1>5, <1>6, <1>7, <1>8, <1>9

LEMMA TypeStep == TypeInv /\ [Next]_vars => TypeInv'
<1> SUFFICES ASSUME TypeInv, [Next]_vars PROVE TypeInv'
  OBVIOUS
<1>1. ASSUME NEW h \in Handlers, NEW u \in Users, Request(h, u) PROVE TypeInv'
  BY <1>1, TypeRequest
<1>2. ASSUME NEW h \in Handlers, Continue(h) PROVE TypeInv'
  BY <1>2, TypeLog, TypeUnlink, TypeDeed DEF Continue
<1>3. ASSUME NEW h \in Handlers, Abort(h) PROVE TypeInv'
  BY <1>3, EndTyped DEF Abort, Busy, TypeInv, TypeOK, ItemsHaveCases, Job
<1>4. ASSUME NEW org \in Orgs, NEW p \in Plans, SetPlan(org, p) PROVE TypeInv'
  BY <1>4 DEF SetPlan, TypeInv, TypeOK, JobsAreShaped, Busy, ItemsHaveCases
<1>5. ASSUME NEW u \in Users \cup {None}, NEW org \in Orgs \cup {None},
             NEW act \in {"auth.login", "auth.logout", "auth.login_failed"}, AuthEvent(u, act, org)
      PROVE  TypeInv'
  <2>1. served + 1 \in 1..MaxRequests
    BY <1>5, TrailAssumption DEF AuthEvent, TypeInv, TypeOK
  <2>2. trail' \subseteq Entry
    BY <1>5, <2>1 DEF AuthEvent, TypeInv, TypeOK, Entry
  <2> QED
    BY <1>5, <2>1, <2>2 DEF AuthEvent, TypeInv, TypeOK, JobsAreShaped, Busy, ItemsHaveCases
<1>6. \A u \in Users : OrgOf(u) \in Orgs \cup {None}
  BY TrailAssumption DEF OrgOf, Profile
<1>7. CASE UNCHANGED vars
  BY <1>7 DEF vars, TypeInv, TypeOK, JobsAreShaped, Busy, ItemsHaveCases
<1> QED
  BY <1>1, <1>2, <1>3, <1>4, <1>5, <1>6, <1>7 DEF Next, OnLogin, OnLogout, OnLoginFailed

\* Rows, entries, requests and what requests did always have their types.
THEOREM TypeCorrect == Spec => []TypeOK
<1>1. TypeInv => TypeOK
  BY DEF TypeInv
<1> QED
  BY <1>1, TypeInit, TypeStep, PTL DEF Spec

LEMMA TypeInvariant == Spec => []TypeInv
  BY TypeInit, TypeStep, PTL DEF Spec

-----------------------------------------------------------------------------
(* What a step does *)

\* A request that begins.
Begins(h) == \E u \in Users, act \in Acts, c \in Cases \cup {None}, i \in Items \cup {None},
                row \in CaseRow : Admitted(h, u, act, c, i, row)

\* A request that goes on keeps what it holds; only a creation learns its case.
GoesOn(h) == /\ job'[h] # None
             /\ job'[h].req = job[h].req /\ job'[h].user = job[h].user
             /\ job'[h].act = job[h].act /\ job'[h].row = job[h].row
             /\ \/ job[h].at = "deed" /\ job'[h].at = "log"  /\ ~LogsFirst(job[h].act)
                \/ job[h].at \in {"unlink", "log"} /\ job'[h].at \in {"log", "deed"}
                   /\ LogsFirst(job[h].act)
             /\ \/ job'[h].case = job[h].case
                \/ /\ job[h].act = "case.create" /\ job'[h].case \in Cases \ Live
                   /\ \A d \in deeds : d.case # job'[h].case

Ends(h) == job'[h] = None

OthersStay(h) == \A g \in Handlers \ {h} : job'[g] = job[g]

LEMMA DoesEnd ==
  ASSUME TypeInv, NEW h \in Handlers, End(h)
  PROVE  Ends(h) /\ OthersStay(h)
  BY DEF TypeInv, TypeOK, End, Ends, OthersStay

LEMMA DoesGoOn ==
  ASSUME TypeInv, NEW h \in Handlers, Busy(h), NEW at \in {"deed", "log"}, Goto(h, at),
         \/ job[h].at = "deed" /\ at = "log" /\ ~LogsFirst(job[h].act)
         \/ job[h].at \in {"unlink", "log"} /\ LogsFirst(job[h].act)
  PROVE  GoesOn(h) /\ OthersStay(h)
<1>1. [job[h] EXCEPT !.at = at] \in Job
  BY DEF TypeInv, TypeOK, Busy, Job
<1>2. job' = [job EXCEPT ![h] = [job[h] EXCEPT !.at = at]]
  BY DEF Goto
<1>3. job'[h] = [job[h] EXCEPT !.at = at] /\ job'[h] # None
  BY <1>1, <1>2, TrailAssumption DEF TypeInv, TypeOK
<1>4. /\ job'[h].at = at /\ job'[h].case = job[h].case /\ job'[h].req = job[h].req
      /\ job'[h].user = job[h].user /\ job'[h].act = job[h].act /\ job'[h].row = job[h].row
  BY <1>3 DEF TypeInv, TypeOK, Busy, Job
<1> QED
  BY <1>2, <1>3, <1>4 DEF GoesOn, OthersStay, TypeInv, TypeOK

\* What the statement that logs does to its request.
LEMMA LogMoves ==
  ASSUME TypeInv, NEW h \in Handlers, Log(h) \/ LogFails(h)
  PROVE  /\ Busy(h) /\ job[h].at = "log" /\ OthersStay(h)
         /\ IF LogsFirst(job[h].act) THEN GoesOn(h) ELSE Ends(h)
  BY DoesEnd, DoesGoOn DEF Log, LogFails, AfterLog

\* And the statement that does the deed.
LEMMA DeedMoves ==
  ASSUME TypeInv, NEW h \in Handlers,
         \/ CaseInsert(h) \/ CaseSave(h) \/ CaseRemove(h)
         \/ ItemInsert(h) \/ ItemRemove(h) \/ HandOut(h)
  PROVE  /\ Busy(h) /\ job[h].at = "deed" /\ OthersStay(h)
         /\ IF LogsFirst(job[h].act) THEN Ends(h) ELSE GoesOn(h)
         /\ \E c \in Cases : /\ Did(h, c)
                             /\ c = job[h].case \/ GoesOn(h)
                             /\ GoesOn(h) => job'[h].case = c
<1>1. /\ Busy(h) /\ job[h] \in Job /\ Shaped(job[h]) /\ job[h].at = "deed"
      /\ job[h].act # "case.create" => job[h].case \in Cases
  BY DEF CaseInsert, CaseSave, CaseRemove, ItemInsert, ItemRemove, HandOut, At, Busy,
         TypeInv, TypeOK, JobsAreShaped, Shaped, Job
<1>2. CASE CaseInsert(h)
  <2>1. PICK c \in Cases \ (Live \cup {d.case : d \in deeds}) :
               job' = [job EXCEPT ![h].case = c, ![h].at = "log"] /\ Did(h, c)
    BY <1>2 DEF CaseInsert
  <2> DEFINE j == [job[h] EXCEPT !.case = c, !.at = "log"]
  <2>2. j \in Job /\ job' = [job EXCEPT ![h] = j]
    BY <1>1, <2>1 DEF TypeInv, TypeOK, Job
  <2>3. job[h].act = "case.create"
    BY <1>2 DEF CaseInsert, At
  <2>4. job'[h] = j /\ OthersStay(h)
    BY <2>2 DEF TypeInv, TypeOK, OthersStay
  <2>5. /\ j # None /\ j.at = "log" /\ j.case = c /\ j.req = job[h].req
        /\ j.user = job[h].user /\ j.act = job[h].act /\ j.row = job[h].row
    BY <1>1, <2>2, TrailAssumption DEF Job
  <2>6. ~LogsFirst(job[h].act) /\ c \in Cases \ Live /\ \A d \in deeds : d.case # c
    BY <2>1, <2>3 DEF LogsFirst
  <2> HIDE DEF j
  <2>7. GoesOn(h) /\ job'[h].case = c
    BY <1>1, <2>3, <2>4, <2>5, <2>6 DEF GoesOn
  <2> QED
    BY <1>1, <2>1, <2>4, <2>6, <2>7
<1>3. CASE CaseSave(h) \/ CaseRemove(h) \/ ItemInsert(h) \/ ItemRemove(h) \/ HandOut(h)
  <2>1. AfterDeed(h) /\ Did(h, job[h].case) /\ job[h].act # "case.create"
    BY <1>3 DEF CaseSave, CaseRemove, ItemInsert, ItemRemove, HandOut, At
  <2> QED
    BY <1>1, <2>1, DoesEnd, DoesGoOn DEF AfterDeed, GoesOn, Ends
<1> QED
  BY <1>2, <1>3

\* The bytes of an item may go, and nothing else does.
LEMMA UnlinkMoves ==
  ASSUME TypeInv, NEW h \in Handlers, ItemUnlink(h)
  PROVE  /\ Busy(h) /\ job[h].at = "unlink" /\ job[h].act = "evidence.delete"
         /\ GoesOn(h) /\ job'[h].at = "log" /\ job'[h].case = job[h].case /\ OthersStay(h)
<1>1. Busy(h) /\ job[h] \in Job /\ job[h].at = "unlink" /\ Goto(h, "log")
  BY DEF ItemUnlink, Busy, TypeInv, TypeOK
<1>2. job[h].act = "evidence.delete" /\ job[h].act # "case.create" /\ LogsFirst(job[h].act)
  BY <1>1 DEF TypeInv, JobsAreShaped, Shaped, LogsFirst
<1>3. GoesOn(h) /\ OthersStay(h)
  BY <1>1, <1>2, DoesGoOn
<1>4. job'[h].at = "log"
  BY <1>1 DEF Goto, TypeInv, TypeOK, Job
<1> QED
  BY <1>1, <1>2, <1>3, <1>4 DEF GoesOn

\* A step begins a request, moves one on, or leaves the requests alone.
LEMMA Steps ==
  ASSUME TypeInv, [Next]_vars
  PROVE  \/ \E h \in Handlers : Begins(h)
         \/ \E h \in Handlers : Log(h) \/ LogFails(h)
         \/ \E h \in Handlers : \/ CaseInsert(h) \/ CaseSave(h) \/ CaseRemove(h)
                                \/ ItemInsert(h) \/ ItemRemove(h) \/ HandOut(h)
         \/ \E h \in Handlers : ItemUnlink(h)
         \/ \E h \in Handlers : Abort(h)
         \/ \E u \in Users, act \in {"auth.login", "auth.logout"} : AuthEvent(u, act, OrgOf(u))
         \/ OnLoginFailed
         \/ UNCHANGED <<rows, items, trail, console, job, served, deeds, died>>
  BY RequestsAreAdmitted
     DEF Next, Continue, Begins, OnLogin, OnLogout, SetPlan, vars

-----------------------------------------------------------------------------
(* Who did what *)

JobsAreEntitled == \A h \in Handlers : Busy(h) => Entitled(job[h])

\* A row that is in the table, that a request holds or that a deed was done to.
Known(c, r) == \/ rows[c] = r
               \/ \E h \in Handlers : Busy(h) /\ job[h].case = c /\ job[h].row = r
               \/ \E d \in deeds : d.case = c /\ d.row = r

OneRowEach == \A c \in Cases, r, s \in CaseRow : Known(c, r) /\ Known(c, s) => r = s

\* The id of a case that a request still holds is not given to another one.
IdsAreSpent == \A h \in Handlers : Busy(h) /\ job[h].case # None =>
                 \/ rows[job[h].case] # None
                 \/ \E d \in deeds : d.case = job[h].case

DeedInv == /\ TypeInv
           /\ JobsAreEntitled
           /\ \A d \in deeds : Entitled(d)
           /\ OneRowEach
           /\ IdsAreSpent

LEMMA DeedInit == Init => DeedInv
<1> SUFFICES ASSUME Init PROVE DeedInv
  OBVIOUS
<1>1. TypeInv
  BY TypeInit
<1>2. (\A h \in Handlers : ~Busy(h)) /\ deeds = {}
  BY DEF Init, Busy
<1> QED
  BY <1>1, <1>2 DEF DeedInv, JobsAreEntitled, OneRowEach, Known, IdsAreSpent

\* What is known of a case after a step was known before it, but for a case
\* that is new.
LEMMA KnowledgeKeeps ==
  ASSUME DeedInv, TypeInv', NEW fresh \in Cases \cup {None}, NEW row \in CaseRow,
         \A c \in Cases, r \in CaseRow : Known(c, r)' => Known(c, r) \/ (c = fresh /\ r = row),
         \A r \in CaseRow : fresh # None => ~Known(fresh, r)
  PROVE  OneRowEach'
  BY TrailAssumption DEF DeedInv, OneRowEach

LEMMA DeedBegins ==
  ASSUME DeedInv, TypeInv', NEW h \in Handlers, Begins(h)
  PROVE  DeedInv'
<1>1. PICK u \in Users, act \in Acts, c \in Cases \cup {None}, i \in Items \cup {None},
           row \in CaseRow : Admitted(h, u, act, c, i, row)
  BY DEF Begins
<1> DEFINE j == [at |-> FirstStep(act), req |-> served + 1,
                 user |-> u, act |-> act, case |-> c, item |-> i, row |-> row]
<1>2. /\ job' = [job EXCEPT ![h] = j] /\ ~Busy(h)
      /\ UNCHANGED <<rows, deeds>>
      /\ Entitled([user |-> u, act |-> act, row |-> row])
      /\ c # None => rows[c] = row
  BY <1>1 DEF Admitted, Start
<1>3. Entitled(j) /\ j.case = c /\ j.row = row
  BY <1>2 DEF Entitled
<1> HIDE DEF j
<1>4. job'[h] = j /\ OthersStay(h)
  BY <1>2 DEF DeedInv, TypeInv, TypeOK, OthersStay
<1>5. JobsAreEntitled' /\ \A d \in deeds' : Entitled(d)
  BY <1>2, <1>3, <1>4 DEF DeedInv, JobsAreEntitled, Busy, OthersStay, Entitled
<1>6. OneRowEach'
  <2>1. ASSUME NEW k \in Cases, NEW r \in CaseRow, Known(k, r)' PROVE Known(k, r)
    BY <1>2, <1>3, <1>4, <2>1, TrailAssumption DEF Known, Busy, OthersStay
  <2> QED
    BY <2>1 DEF DeedInv, OneRowEach
<1>7. IdsAreSpent'
  <2>1. c # None => rows[c] # None
    BY <1>2, TrailAssumption
  <2> QED
    BY <1>2, <1>3, <1>4, <2>1 DEF DeedInv, IdsAreSpent, Busy, OthersStay
<1> QED
  BY <1>5, <1>6, <1>7 DEF DeedInv

\* A request that goes on or ends, with the rows and deeds as they were.
LEMMA DeedMovesOn ==
  ASSUME DeedInv, TypeInv', NEW h \in Handlers, Busy(h),
         Ends(h) \/ (GoesOn(h) /\ job'[h].case = job[h].case), OthersStay(h),
         UNCHANGED rows, deeds \subseteq deeds',
         \A d \in deeds' \ deeds : d.case = job[h].case /\ d.row = job[h].row /\ Entitled(d)
  PROVE  DeedInv'
<1>1. JobsAreEntitled' /\ \A d \in deeds' : Entitled(d)
  BY DEF DeedInv, JobsAreEntitled, Busy, Ends, GoesOn, OthersStay, Entitled
<1>2. ASSUME NEW c \in Cases, NEW r \in CaseRow, Known(c, r)' PROVE Known(c, r)
  BY <1>2 DEF Known, Busy, Ends, GoesOn, OthersStay
<1>3. OneRowEach'
  BY <1>2 DEF DeedInv, OneRowEach
<1>4. IdsAreSpent'
  BY DEF DeedInv, IdsAreSpent, Busy, Ends, GoesOn, OthersStay
<1> QED
  BY <1>1, <1>3, <1>4 DEF DeedInv

LEMMA DeedDone ==
  ASSUME DeedInv, TypeInv', NEW h \in Handlers,
         \/ CaseInsert(h) \/ CaseSave(h) \/ CaseRemove(h)
         \/ ItemInsert(h) \/ ItemRemove(h) \/ HandOut(h)
  PROVE  DeedInv'
<1> DEFINE row == job[h].row
<1>1. PICK c \in Cases : /\ Did(h, c)
                         /\ c = job[h].case \/ GoesOn(h)
                         /\ GoesOn(h) => job'[h].case = c
  BY DeedMoves DEF DeedInv
<1>2. Busy(h) /\ OthersStay(h) /\ (Ends(h) \/ GoesOn(h))
  BY DeedMoves DEF DeedInv
<1>3. job[h] \in Job /\ row \in CaseRow
  BY <1>2 DEF DeedInv, TypeInv, TypeOK, Busy, Job
<1> DEFINE d == DeedOf(job[h], job[h].act, c)
<1>4. /\ deeds' = deeds \cup {d} /\ d.case = c /\ d.row = row
      /\ Entitled(job[h]) => Entitled(d)
  BY <1>1 DEF Did, DeedOf, Entitled
<1> HIDE DEF d
<1>5. JobsAreEntitled' /\ \A e \in deeds' : Entitled(e)
  <2>1. Entitled(job[h])
    BY <1>2 DEF DeedInv, JobsAreEntitled
  <2>2. GoesOn(h) => Entitled(job'[h])
    BY <2>1 DEF GoesOn, Entitled
  <2> QED
    BY <1>2, <1>4, <2>1, <2>2 DEF DeedInv, JobsAreEntitled, Busy, Ends, OthersStay, Entitled
<1>6. job'[h] # None => GoesOn(h) /\ job'[h].row = row /\ job'[h].case = c
  BY <1>1, <1>2 DEF Ends, GoesOn
<1>7. CASE CaseInsert(h)
  <2>1. PICK k \in Cases \ (Live \cup {e.case : e \in deeds}) :
               /\ rows' = [rows EXCEPT ![k] = row]
               /\ job' = [job EXCEPT ![h].case = k, ![h].at = "log"]
               /\ Did(h, k)
    BY <1>7 DEF CaseInsert
  <2>2. job[h].case = None /\ job'[h].case = k
    BY <1>3, <1>7, <2>1
       DEF CaseInsert, At, DeedInv, TypeInv, TypeOK, JobsAreShaped, Shaped, Busy, Job
  <2>3. c = k
    BY <1>1, <2>2, TrailAssumption
  <2>4. rows[c] = None /\ \A e \in deeds : e.case # c
    BY <2>1, <2>3 DEF Live
  <2>5. \A r \in CaseRow : ~Known(c, r)
    BY <2>4, TrailAssumption DEF DeedInv, IdsAreSpent, Known
  <2>6. ASSUME NEW b \in Cases, NEW r \in CaseRow, Known(b, r)'
        PROVE  Known(b, r) \/ (b = c /\ r = row)
    BY <1>2, <1>4, <1>6, <2>1, <2>2, <2>3, <2>6, TrailAssumption
       DEF Known, Busy, OthersStay, DeedInv, TypeInv, TypeOK
  <2>7. OneRowEach'
    BY <1>3, <2>5, <2>6, KnowledgeKeeps
  <2>8. IdsAreSpent'
    BY <1>2, <1>4, <1>6, <2>1, <2>2, <2>3, TrailAssumption
       DEF DeedInv, IdsAreSpent, Busy, OthersStay, TypeInv, TypeOK
  <2> QED
    BY <1>5, <2>7, <2>8 DEF DeedInv
<1>8. CASE ~CaseInsert(h)
  <2>1. /\ c = job[h].case
        /\ job'[h] # None => job'[h].case = c
    BY <1>1, <1>2, <1>6, <1>8
       DEF CaseSave, CaseRemove, ItemInsert, ItemRemove, HandOut, At, GoesOn
  <2>2. \A b \in Cases : rows'[b] = rows[b] \/ (b = c /\ rows'[b] \in {row, None})
    BY <1>8, <2>1
       DEF CaseSave, CaseRemove, ItemInsert, ItemRemove, HandOut, DeedInv, TypeInv, TypeOK
  <2>3. Known(c, row)
    BY <1>2, <2>1 DEF Known
  <2>4. ASSUME NEW b \in Cases, NEW r \in CaseRow, Known(b, r)' PROVE Known(b, r)
    BY <1>2, <1>4, <1>6, <2>1, <2>2, <2>3, <2>4, TrailAssumption DEF Known, Busy, OthersStay
  <2>5. OneRowEach'
    BY <2>4 DEF DeedInv, OneRowEach
  <2>6. IdsAreSpent'
    BY <1>2, <1>4, <1>6, <2>1, <2>2 DEF DeedInv, IdsAreSpent, Busy, OthersStay, TypeInv, TypeOK, Job
  <2> QED
    BY <1>5, <2>5, <2>6 DEF DeedInv
<1> QED
  BY <1>7, <1>8

LEMMA DeedStep == DeedInv /\ [Next]_vars => DeedInv'
<1> SUFFICES ASSUME DeedInv, [Next]_vars PROVE DeedInv'
  OBVIOUS
<1>1. TypeInv /\ TypeInv'
  BY TypeStep DEF DeedInv
<1>2. ASSUME NEW h \in Handlers, Log(h) \/ LogFails(h) PROVE DeedInv'
  <2>1. UNCHANGED <<rows, deeds>>
    BY <1>2 DEF Log, LogFails
  <2>2. GoesOn(h) => job'[h].case = job[h].case
    BY <1>1, <1>2, LogMoves DEF GoesOn, Ends, LogsFirst
  <2> QED
    BY <1>1, <1>2, <2>1, <2>2, LogMoves, DeedMovesOn
<1>3. ASSUME NEW h \in Handlers, Abort(h) PROVE DeedInv'
  BY <1>1, <1>3, DoesEnd, DeedMovesOn DEF Abort
<1>4. ASSUME NEW h \in Handlers, ItemUnlink(h) PROVE DeedInv'
  <2>1. /\ Busy(h) /\ OthersStay(h) /\ GoesOn(h) /\ job'[h].case = job[h].case
        /\ job[h].act = "evidence.delete"
    BY <1>1, <1>4, UnlinkMoves
  <2>2. Entitled(job[h])
    BY <2>1 DEF DeedInv, JobsAreEntitled
  <2> DEFINE d == DeedOf(job[h], "evidence.unlink", job[h].case)
  <2>3. d.case = job[h].case /\ d.row = job[h].row /\ Entitled(d)
    BY <2>1, <2>2 DEF DeedOf, Entitled
  <2>4. UNCHANGED rows /\ deeds' \in {deeds, deeds \cup {d}}
    BY <1>4 DEF ItemUnlink
  <2> HIDE DEF d
  <2> QED
    BY <1>1, <2>1, <2>3, <2>4, DeedMovesOn
<1>5. ASSUME UNCHANGED <<rows, job, deeds>> PROVE DeedInv'
  BY <1>1, <1>5 DEF DeedInv, JobsAreEntitled, OneRowEach, Known, IdsAreSpent, Busy, Entitled
<1> QED
  BY <1>1, <1>2, <1>3, <1>4, <1>5, Steps, DeedBegins, DeedDone DEF AuthEvent, OnLoginFailed

LEMMA DeedInvariant == Spec => []DeedInv
  BY DeedInit, DeedStep, PTL DEF Spec

\* Whatever the threads, what is done to a case is done by members of its
\* organization who may do it, and a case does not change hands.
THEOREM DeedsEntitled == Spec => []DeedsAreEntitled
<1>1. DeedInv => DeedsAreEntitled
  <2> SUFFICES ASSUME DeedInv, NEW d \in deeds PROVE rows[d.case] \in {d.row, None}
    BY DEF DeedInv, DeedsAreEntitled
  <2>1. d.case \in Cases /\ d.row \in CaseRow /\ rows[d.case] \in CaseRow \cup {None}
    BY DEF DeedInv, TypeInv, TypeOK, Deed
  <2>2. Known(d.case, d.row) /\ Known(d.case, rows[d.case])
    BY DEF Known
  <2> QED
    BY <2>1, <2>2 DEF DeedInv, OneRowEach
<1> QED
  BY <1>1, DeedInvariant, PTL

-----------------------------------------------------------------------------
(* The trail *)

\* What a step does to the trail: an entry of a request that logs or of a
\* login, or the links to a case that is deleted.
LEMMA TrailSteps ==
  ASSUME TypeInv, [Next]_vars
  PROVE  \/ trail' = trail
         \/ \E e \in Entry : trail' = trail \cup {e}
         \/ \E c \in Cases : Unlink(c) /\ rows'[c] = None
<1>1. ASSUME NEW h \in Handlers, CaseRemove(h) PROVE \E c \in Cases : Unlink(c) /\ rows'[c] = None
  <2>1. job[h].case \in Cases
    BY <1>1 DEF CaseRemove, At, Busy, TypeInv, TypeOK, JobsAreShaped, Shaped, Job
  <2> QED
    BY <1>1, <2>1 DEF CaseRemove, TypeInv, TypeOK
<1>2. ASSUME NEW e, trail' = trail \cup {e} PROVE \E f \in Entry : trail' = trail \cup {f}
  <2>1. TypeInv'
    BY TypeStep
  <2> QED
    BY <1>2, <2>1 DEF TypeInv, TypeOK
<1> QED
  BY <1>1, <1>2, Steps
     DEF Begins, Admitted, Start, Log, LogFails, CaseInsert, CaseSave, ItemInsert, ItemUnlink,
         ItemRemove, HandOut, Abort, AuthEvent, OnLoginFailed

\* No step drops or rewrites an entry, but for its link to a deleted case.
THEOREM TrailIsKept == Spec => TrailKeeps
<1>1. ASSUME TypeInv, [Next]_vars PROVE \A e \in trail : IsKept(e, trail')
  <2>1. ASSUME NEW c \in Cases, Unlink(c), rows'[c] = None
        PROVE  \A e \in trail : IsKept(e, trail')
    BY <2>1 DEF Unlink, IsKept
  <2>2. ASSUME trail \subseteq trail' PROVE \A e \in trail : IsKept(e, trail')
    BY <2>2 DEF IsKept
  <2> QED
    BY <1>1, <2>1, <2>2, TrailSteps
<1> QED
  BY <1>1, TypeInvariant, PTL DEF Spec, TrailKeeps

\* Nothing that was logged is unlogged, nor what died forgotten.
LEMMA LoggedStays ==
  ASSUME TypeInv, [Next]_vars, NEW req, Logged(req)
  PROVE  Logged(req)'
<1>1. console \subseteq console'
  BY Steps DEF Begins, Admitted, Start, Log, LogFails, CaseInsert, CaseSave, CaseRemove,
               ItemInsert, ItemUnlink, ItemRemove, HandOut, Abort, AuthEvent, OnLoginFailed
<1>2. ASSUME NEW e \in trail PROVE \E f \in trail' : f.req = e.req
  <2>1. e \in Entry
    BY DEF TypeInv, TypeOK
  <2>2. ASSUME NEW c \in Cases, Unlink(c) PROVE \E f \in trail' : f.req = e.req
    <3>1. [e EXCEPT !.link = None].req = e.req
      BY <2>1 DEF Entry
    <3> QED
      BY <2>2, <3>1 DEF Unlink
  <2> QED
    BY <2>2, TrailSteps
<1> QED
  BY <1>1, <1>2 DEF Logged

\* A request that is done with its first statement of two has it behind it.
FirstIsDone == \A h \in Handlers : Busy(h) =>
  /\ job[h].at = "deed" /\ LogsFirst(job[h].act) => Logged(job[h].req)
  /\ job[h].at = "log" /\ ~LogsFirst(job[h].act) =>
       \E d \in deeds : d.req = job[h].req /\ d.act \in Acts

RecordInv == FirstIsDone /\ EveryDeedIsRecorded /\ EntriesAreEarned

LEMMA RecordInit == Init => RecordInv
  BY DEF Init, RecordInv, FirstIsDone, EveryDeedIsRecorded, EntriesAreEarned, Busy

\* A request that was served is still served, done with or dead.
LEMMA RecordBegins ==
  ASSUME TypeInv, RecordInv, [Next]_vars, NEW h \in Handlers, Begins(h)
  PROVE  RecordInv'
<1>1. PICK u \in Users, act \in Acts, c \in Cases \cup {None}, i \in Items \cup {None},
           row \in CaseRow : Start(h, u, act, c, i, row)
  BY DEF Begins, Admitted
<1>2. ~Busy(h) /\ UNCHANGED <<trail, console, deeds, died>> /\ OthersStay(h)
  BY <1>1 DEF Start, OthersStay, TypeInv, TypeOK
<1>3. /\ job'[h].act = act
      /\ IF LogsFirst(act) THEN job'[h].at \in {"unlink", "log"} ELSE job'[h].at = "deed"
  BY <1>1 DEF Start, TypeInv, TypeOK, FirstStep, LogsFirst
<1>4. \A req : Pending(req) => Pending(req)'
  BY <1>2 DEF Pending, Busy, OthersStay
<1>5. FirstIsDone'
  BY <1>2, <1>3 DEF RecordInv, FirstIsDone, Busy, OthersStay, Logged
<1> QED
  BY <1>2, <1>4, <1>5 DEF RecordInv, EveryDeedIsRecorded, EntriesAreEarned, Logged

LEMMA RecordLogs ==
  ASSUME TypeInv, RecordInv, [Next]_vars, NEW h \in Handlers, Log(h) \/ LogFails(h)
  PROVE  RecordInv'
<1>1. /\ Busy(h) /\ job[h].at = "log" /\ OthersStay(h)
      /\ IF LogsFirst(job[h].act) THEN GoesOn(h) ELSE Ends(h)
  BY LogMoves
<1>2. UNCHANGED <<deeds, died>>
  BY DEF Log, LogFails
<1>3. \A q : q = job[h].req => Logged(q)'
  <2>1. EntryOf(job[h]).req = job[h].req
    BY DEF EntryOf
  <2> QED
    BY <2>1 DEF Log, LogFails, Logged
<1>4. \A req : Pending(req) => Pending(req)' \/ (req = job[h].req /\ ~LogsFirst(job[h].act))
  BY <1>1 DEF Pending, Busy, OthersStay, GoesOn
<1>5. ~LogsFirst(job[h].act) => \E d \in deeds : d.req = job[h].req /\ d.act \in Acts
  BY <1>1 DEF RecordInv, FirstIsDone
<1>6. FirstIsDone'
  <2>1. \A q : Logged(q) => Logged(q)'
    BY LoggedStays
  <2> QED
    BY <1>1, <1>2, <1>3, <2>1 DEF RecordInv, FirstIsDone, Busy, OthersStay, GoesOn, Ends, Logged
<1>7. EveryDeedIsRecorded'
  BY <1>2, <1>3, <1>4, LoggedStays DEF RecordInv, EveryDeedIsRecorded
<1>8. EntriesAreEarned'
  <2>1. ASSUME NEW e \in trail', e \notin trail
        PROVE  e.req = job[h].req /\ e.act = job[h].act
    BY <2>1 DEF Log, LogFails, EntryOf
  <2>2. LogsFirst(job[h].act) => /\ job[h].act \in RecordedFirst
                                 /\ \A q : q = job[h].req => Pending(q)'
    BY <1>1 DEF LogsFirst, RecordedFirst, Pending, GoesOn, Busy
  <2> QED
    BY <1>2, <1>4, <1>5, <2>1, <2>2 DEF RecordInv, EntriesAreEarned
<1> QED
  BY <1>6, <1>7, <1>8 DEF RecordInv

LEMMA RecordDeeds ==
  ASSUME TypeInv, RecordInv, [Next]_vars, NEW h \in Handlers,
         \/ CaseInsert(h) \/ CaseSave(h) \/ CaseRemove(h)
         \/ ItemInsert(h) \/ ItemRemove(h) \/ HandOut(h)
  PROVE  RecordInv'
<1>1. /\ Busy(h) /\ job[h].at = "deed" /\ OthersStay(h)
      /\ IF LogsFirst(job[h].act) THEN Ends(h) ELSE GoesOn(h)
  BY DeedMoves
<1>2. PICK c \in Cases : Did(h, c)
  BY DeedMoves
<1> DEFINE d == DeedOf(job[h], job[h].act, c)
<1>3. /\ deeds' = deeds \cup {d} /\ d.req = job[h].req
      /\ d.act = job[h].act /\ d.act \in Acts
  BY <1>1, <1>2 DEF Did, DeedOf, Busy, TypeInv, TypeOK, Job
<1> HIDE DEF d
<1>4. died' = died
  BY DEF CaseInsert, CaseSave, CaseRemove, ItemInsert, ItemRemove, HandOut
<1>5. \A req : Pending(req) => Pending(req)' \/ (req = job[h].req /\ LogsFirst(job[h].act))
  BY <1>1 DEF Pending, Busy, OthersStay, GoesOn
<1>6. LogsFirst(job[h].act) => Logged(job[h].req)
  BY <1>1 DEF RecordInv, FirstIsDone
<1>7. FirstIsDone'
  <2>1. \A q : Logged(q) => Logged(q)'
    BY LoggedStays
  <2>2. ASSUME NEW g \in Handlers \ {h}, Busy(g)' PROVE Busy(g) /\ job'[g] = job[g]
    BY <1>1, <2>2 DEF OthersStay, Busy
  <2>3. Busy(h)' => job'[h].at = "log" /\ job'[h].req = job[h].req
    BY <1>1 DEF GoesOn, Ends, Busy
  <2>4. ASSUME NEW g \in Handlers \ {h}, Busy(g)'
        PROVE  /\ job'[g].at = "deed" /\ LogsFirst(job'[g].act) =>
                    \A q : q = job'[g].req => Logged(q)'
               /\ job'[g].at = "log" /\ ~LogsFirst(job'[g].act) =>
                    \E e \in deeds' : e.req = job'[g].req /\ e.act \in Acts
    BY <1>3, <2>1, <2>2, <2>4 DEF RecordInv, FirstIsDone
  <2>5. Busy(h)' => \E e \in deeds' : e.req = job'[h].req /\ e.act \in Acts
    BY <1>3, <2>3
  <2> QED
    BY <2>3, <2>4, <2>5 DEF FirstIsDone
<1>8. EveryDeedIsRecorded'
  <2>1. ~LogsFirst(job[h].act) => /\ job[h].act \notin RecordedFirst
                                  /\ \A q : q = job[h].req => Pending(q)'
    BY <1>1 DEF LogsFirst, RecordedFirst, Pending, GoesOn, Busy
  <2> QED
    BY <1>3, <1>4, <1>5, <1>6, <2>1, LoggedStays DEF RecordInv, EveryDeedIsRecorded
<1>9. EntriesAreEarned'
  <2>1. \A e \in trail' : \E f \in trail : f.req = e.req /\ f.act = e.act
    <3>1. \A f \in trail : /\ [f EXCEPT !.link = None].req = f.req
                          /\ [f EXCEPT !.link = None].act = f.act
      BY DEF TypeInv, TypeOK, Entry
    <3>2. ASSUME NEW k, Unlink(k), NEW e \in trail'
          PROVE  \E f \in trail : f.req = e.req /\ f.act = e.act
      <4>1. PICK f \in trail : e = IF f.link = k THEN [f EXCEPT !.link = None] ELSE f
        BY <3>2 DEF Unlink
      <4> QED
        BY <3>1, <4>1
    <3> QED
      BY <3>2 DEF CaseInsert, CaseSave, CaseRemove, ItemInsert, ItemRemove, HandOut
  <2> QED
    BY <1>3, <1>4, <1>5, <2>1 DEF RecordInv, EntriesAreEarned
<1> QED
  BY <1>7, <1>8, <1>9 DEF RecordInv

\* The bytes that are gone have their request at it.
LEMMA RecordUnlinks ==
  ASSUME TypeInv, RecordInv, [Next]_vars, NEW h \in Handlers, ItemUnlink(h)
  PROVE  RecordInv'
<1>1. /\ Busy(h) /\ GoesOn(h) /\ job'[h].at = "log" /\ OthersStay(h)
      /\ LogsFirst(job[h].act)
  BY UnlinkMoves DEF LogsFirst
<1>2. UNCHANGED <<trail, console, died>>
  BY DEF ItemUnlink
<1> DEFINE d == DeedOf(job[h], "evidence.unlink", job[h].case)
<1>3. deeds' \in {deeds, deeds \cup {d}} /\ d.req = job[h].req /\ d.act \notin RecordedFirst
  BY DEF ItemUnlink, DeedOf, RecordedFirst
<1> HIDE DEF d
<1>4. \A req : Pending(req) => Pending(req)'
  BY <1>1 DEF Pending, Busy, OthersStay, GoesOn
<1>5. \A req : req = job[h].req => Pending(req)
  BY <1>1 DEF Pending
<1>6. FirstIsDone'
  <2>1. Busy(h)' => job'[h].at = "log" /\ LogsFirst(job'[h].act)
    BY <1>1 DEF GoesOn
  <2>2. ASSUME NEW g \in Handlers \ {h}, Busy(g)' PROVE Busy(g) /\ job'[g] = job[g]
    BY <1>1, <2>2 DEF OthersStay, Busy
  <2>3. deeds \subseteq deeds'
    BY <1>3
  <2> QED
    BY <1>2, <2>1, <2>2, <2>3 DEF RecordInv, FirstIsDone, Logged
<1>7. EveryDeedIsRecorded'
  BY <1>2, <1>3, <1>4, <1>5 DEF RecordInv, EveryDeedIsRecorded, Logged
<1>8. EntriesAreEarned'
  BY <1>2, <1>3, <1>4 DEF RecordInv, EntriesAreEarned
<1> QED
  BY <1>6, <1>7, <1>8 DEF RecordInv

LEMMA RecordRest ==
  ASSUME TypeInv, RecordInv, [Next]_vars,
         \/ \E h \in Handlers : Abort(h)
         \/ \E u \in Users \cup {None}, act \in {"auth.login", "auth.logout", "auth.login_failed"},
               org \in Orgs \cup {None} : AuthEvent(u, act, org)
         \/ UNCHANGED <<trail, console, job, deeds, died>>
  PROVE  RecordInv'
<1>1. ASSUME NEW h \in Handlers, Abort(h) PROVE RecordInv'
  <2>1. Ends(h) /\ OthersStay(h)
    BY <1>1, DoesEnd DEF Abort
  <2>2. \A req : Pending(req) => Pending(req)' \/ req \in died'
    BY <1>1, <2>1 DEF Abort, Pending, Busy, OthersStay
  <2>3. died \subseteq died' /\ UNCHANGED <<trail, console, deeds>>
    BY <1>1 DEF Abort
  <2>4. FirstIsDone'
    BY <2>1, <2>3 DEF RecordInv, FirstIsDone, Busy, Ends, OthersStay, Logged
  <2> QED
    BY <2>2, <2>3, <2>4 DEF RecordInv, EveryDeedIsRecorded, EntriesAreEarned, Logged
<1>2. ASSUME NEW u, NEW act \in {"auth.login", "auth.logout", "auth.login_failed"},
             NEW org, AuthEvent(u, act, org)
      PROVE  RecordInv'
  <2>1. UNCHANGED <<console, job, deeds, died>>
    BY <1>2 DEF AuthEvent
  <2>2. \A e \in trail' : e \in trail \/ e.act \notin Acts
    BY <1>2 DEF AuthEvent, Acts
  <2>3. \A req : Logged(req) => Logged(req)'
    BY LoggedStays
  <2> QED
    BY <2>1, <2>2, <2>3
       DEF RecordInv, FirstIsDone, EveryDeedIsRecorded, EntriesAreEarned, Busy, Pending
<1>3. ASSUME UNCHANGED <<trail, console, job, deeds, died>> PROVE RecordInv'
  BY <1>3 DEF RecordInv, FirstIsDone, EveryDeedIsRecorded, EntriesAreEarned, Busy, Pending, Logged
<1> QED
  BY <1>1, <1>2, <1>3

LEMMA RecordStep == TypeInv /\ RecordInv /\ [Next]_vars => RecordInv'
<1> SUFFICES ASSUME TypeInv, RecordInv, [Next]_vars PROVE RecordInv'
  OBVIOUS
<1>1. \A u \in Users : OrgOf(u) \in Orgs \cup {None}
  BY TrailAssumption DEF OrgOf, Profile
<1> QED
  BY <1>1, Steps, RecordBegins, RecordLogs, RecordDeeds, RecordUnlinks, RecordRest DEF OnLoginFailed

LEMMA RecordInvariant == Spec => []RecordInv
  BY TypeInvariant, RecordInit, RecordStep, PTL DEF Spec

\* Nothing is done without an entry or a warning, whatever cannot be written, but
\* by requests that died before they wrote either; and no row is deleted, and no
\* table or report handed out, even by those.
THEOREM DeedsRecorded == Spec => []EveryDeedIsRecorded
<1>1. RecordInv => EveryDeedIsRecorded
  BY DEF RecordInv
<1> QED
  BY <1>1, RecordInvariant, PTL

\* And nothing is recorded that was not done, but for what is recorded first.
THEOREM EntriesEarned == Spec => []EntriesAreEarned
<1>1. RecordInv => EntriesAreEarned
  BY DEF RecordInv
<1> QED
  BY <1>1, RecordInvariant, PTL

-----------------------------------------------------------------------------
(* Who is shown what of it *)

\* An entry concerns the organization of its user, and a case it refers to is
\* there and belongs to that organization.
Placed(e) == /\ e.of = IF e.user = None THEN None ELSE OrgOf(e.user)
             /\ e.link # None => e.user # None /\ rows[e.link] # None /\ rows[e.link].org = e.of

EntriesArePlaced == \A e \in trail : Placed(e)

LEMMA PlacedInit == Init => EntriesArePlaced
  BY DEF Init, EntriesArePlaced

\* The entry of a login, or a failed one.
LEMMA PlacedAuth ==
  ASSUME EntriesArePlaced, NEW u, NEW act, NEW org, AuthEvent(u, act, org),
         org = IF u = None THEN None ELSE OrgOf(u)
  PROVE  EntriesArePlaced'
  BY DEF AuthEvent, EntriesArePlaced, Placed

LEMMA PlacedLog ==
  ASSUME DeedInv, EntriesArePlaced, NEW h \in Handlers, Log(h)
  PROVE  EntriesArePlaced'
<1>1. /\ Busy(h) /\ job[h] \in Job /\ Entitled(job[h]) /\ Shaped(job[h]) /\ job[h].at = "log"
  BY DEF Log, Busy, DeedInv, TypeInv, TypeOK, JobsAreEntitled, JobsAreShaped
<1> DEFINE c == Link(job[h])
           e == EntryOf(job[h])
<1>2. /\ e.user = job[h].user /\ e.user # None /\ e.link = c
      /\ e.of = job[h].row.org /\ e.of = OrgOf(e.user)
  BY <1>1, TrailAssumption DEF EntryOf, Entitled, Job
<1>3. c # None => rows[c] # None /\ rows[c].org = e.of
  <2> SUFFICES ASSUME c # None PROVE rows[c] # None /\ rows[c].org = e.of
    OBVIOUS
  <2>1. c = job[h].case /\ c \in Cases /\ rows[c] # None
    BY <1>1 DEF Log, Link, Job
  <2>2. rows[c] \in CaseRow /\ job[h].row \in CaseRow
    BY <1>1, <2>1 DEF DeedInv, TypeInv, TypeOK, Job
  <2>3. Known(c, rows[c]) /\ Known(c, job[h].row)
    BY <1>1, <2>1 DEF Known
  <2> QED
    BY <1>2, <2>1, <2>2, <2>3 DEF DeedInv, OneRowEach
<1>4. trail' = trail \cup {e} /\ UNCHANGED rows
  BY DEF Log
<1> HIDE DEF c, e
<1> QED
  BY <1>2, <1>3, <1>4 DEF EntriesArePlaced, Placed

LEMMA PlacedDeed ==
  ASSUME DeedInv, EntriesArePlaced, NEW h \in Handlers,
         \/ CaseInsert(h) \/ CaseSave(h) \/ CaseRemove(h)
         \/ ItemInsert(h) \/ ItemRemove(h) \/ HandOut(h)
  PROVE  EntriesArePlaced'
<1>1. \A e \in trail : e \in Entry /\ Placed(e)
  BY DEF DeedInv, TypeInv, TypeOK, EntriesArePlaced
<1>2. job[h] # None => job[h] \in Job
  BY DEF DeedInv, TypeInv, TypeOK
<1>3. rows \in [Cases -> CaseRow \cup {None}]
  BY DEF DeedInv, TypeInv, TypeOK
<1>4. ASSUME trail' = trail, \A c \in Cases : rows[c] # None => rows'[c] = rows[c]
      PROVE  EntriesArePlaced'
  BY <1>1, <1>4 DEF EntriesArePlaced, Placed, Entry
<1>5. CASE CaseInsert(h)
  <2>1. \A c \in Cases : rows[c] # None => rows'[c] = rows[c]
    BY <1>3, <1>5 DEF CaseInsert, Live
  <2> QED
    BY <1>4, <1>5, <2>1 DEF CaseInsert
<1>6. CASE CaseSave(h)
  <2> DEFINE c == job[h].case
  <2>1. Busy(h) /\ c \in Cases /\ job[h].row \in CaseRow
    BY <1>2, <1>6 DEF CaseSave, At, Busy, Job, DeedInv, TypeInv, JobsAreShaped, Shaped
  <2>2. rows[c] # None => rows[c] = job[h].row
    <3>1. Known(c, rows[c]) /\ Known(c, job[h].row)
      BY <2>1 DEF Known
    <3> QED
      BY <1>3, <2>1, <3>1 DEF DeedInv, OneRowEach
  <2>3. \A b \in Cases : rows[b] # None => rows'[b] = rows[b]
    BY <1>3, <1>6, <2>1, <2>2 DEF CaseSave
  <2> QED
    BY <1>4, <1>6, <2>3 DEF CaseSave
<1>7. CASE CaseRemove(h)
  <2> DEFINE c == job[h].case
  <2>1. Unlink(c) /\ rows' = [rows EXCEPT ![c] = None]
    BY <1>7 DEF CaseRemove
  <2> HIDE DEF c
  <2>2. ASSUME NEW e \in trail' PROVE Placed(e)'
    <3>1. PICK f \in trail : e = IF f.link = c THEN [f EXCEPT !.link = None] ELSE f
      BY <2>1 DEF Unlink
    <3>2. CASE f.link = c
      <4>1. e.link = None /\ e.user = f.user /\ e.of = f.of
        BY <1>1, <3>1, <3>2 DEF Entry
      <4> QED
        BY <1>1, <4>1 DEF Placed
    <3>3. CASE f.link # c
      <4>1. e = f /\ (f.link # None => rows'[f.link] = rows[f.link])
        BY <1>1, <1>3, <2>1, <3>1, <3>3 DEF Entry
      <4> QED
        BY <1>1, <4>1 DEF Placed
    <3> QED
      BY <3>2, <3>3
  <2> QED
    BY <2>2 DEF EntriesArePlaced
<1>8. CASE ItemInsert(h) \/ ItemRemove(h) \/ HandOut(h)
  BY <1>4, <1>8 DEF ItemInsert, ItemRemove, HandOut
<1> QED
  BY <1>5, <1>6, <1>7, <1>8

LEMMA PlacedStep == DeedInv /\ EntriesArePlaced /\ [Next]_vars => EntriesArePlaced'
<1> SUFFICES ASSUME DeedInv, EntriesArePlaced, [Next]_vars PROVE EntriesArePlaced'
  OBVIOUS
<1>1. ASSUME UNCHANGED <<rows, trail>> PROVE EntriesArePlaced'
  BY <1>1 DEF EntriesArePlaced, Placed
<1>2. ASSUME NEW h \in Handlers, Begins(h) \/ LogFails(h) \/ ItemUnlink(h) \/ Abort(h)
      PROVE  EntriesArePlaced'
  BY <1>1, <1>2 DEF Begins, Admitted, Start, LogFails, ItemUnlink, Abort
<1>3. ASSUME NEW u \in Users, NEW act \in {"auth.login", "auth.logout"}, AuthEvent(u, act, OrgOf(u))
      PROVE  EntriesArePlaced'
  <2>1. u # None
    BY TrailAssumption
  <2> QED
    BY <1>3, <2>1, PlacedAuth
<1>4. CASE OnLoginFailed
  BY <1>4, PlacedAuth DEF OnLoginFailed
<1> QED
  BY <1>1, <1>2, <1>3, <1>4, Steps, PlacedLog, PlacedDeed DEF DeedInv

\* Members see their own entries, those with the right to it exactly what
\* concerned their organization, and nobody of an organization sees more.
THEOREM TrailShownWhole == Spec => []TrailIsWhole
<1>1. ASSUME TypeInv, EntriesArePlaced PROVE TrailIsWhole
  <2> SUFFICES ASSUME NEW u \in Users, OrgOf(u) # None
               PROVE  LET ours == {e \in trail : e.of = OrgOf(u)}
                          mine == {e \in trail : e.user = u}
                      IN  /\ AuditList(u) = IF SeesOrgWide(u) THEN ours ELSE mine
                          /\ AuditList(u) \subseteq RecentActivity(u)
                          /\ RecentActivity(u) \subseteq ours
    BY DEF TrailIsWhole
  <2>1. u # None
    BY TrailAssumption
  <2>2. OrgEntries(OrgOf(u)) = {e \in trail : e.of = OrgOf(u)}
    BY <1>1 DEF OrgEntries, EntriesArePlaced, Placed
  <2>3. \A e \in trail : e.user = u => e.of = OrgOf(u)
    BY <1>1, <2>1 DEF EntriesArePlaced, Placed
  <2> QED
    BY <2>2, <2>3 DEF AuditList, RecentActivity, SeesOrgWide
<1> QED
  BY <1>1, TypeInvariant, DeedInvariant, PlacedInit, PlacedStep, PTL DEF Spec

=============================================================================
