------------------------------- MODULE Cases -------------------------------
(* The cases app for one organization: the Case rows, the slot check that    *)
(* limits how many there may be, and the handlers that create, edit and      *)
(* delete them, together with the demo-case endpoint of the evidence app.    *)
(*                                                                           *)
(* Statements interleave as in Billing: a check that allowed a request is    *)
(* not repeated when the request writes, and a handler that saves a Case it  *)
(* loaded earlier writes back every column (and, the row being gone, inserts *)
(* it again).  The plan and the billing cycle belong to the billing app and  *)
(* change at any time.                                                       *)
EXTENDS Integers, FiniteSets

CONSTANTS
  Ids,       \* Case primary keys (bounds the number of cases at a time)
  Handlers,  \* server threads
  PlanRows,  \* what the organization's Plan row may be
  Ceiling,   \* the highest effective limit any of those grants
  Statuses,  \* Case.Status
  None       \* no row

CaseRow == [status : Statuses, closedAt : BOOLEAN, demo : BOOLEAN]
Plan    == [readOnly : BOOLEAN, max : Nat, bonus : Nat]

ASSUME CasesAssumption == /\ PlanRows \subseteq Plan
                          /\ "open" \in Statuses
                          /\ None \notin CaseRow
                          /\ Ceiling \in Nat
                          /\ IsFiniteSet(Ids)
                          /\ IsFiniteSet(Handlers)

VARIABLES
  plan,    \* the Plan row of the organization
  yearly,  \* does its Subscription row say "yearly"
  cases,   \* [id -> Case row, or None]
  job      \* [handler -> the request it is serving]

env  == <<plan, yearly>>
vars == <<plan, yearly, cases, job>>

-----------------------------------------------------------------------------
(* State *)

Idle       == [at |-> "idle"]
CreateJob  == [at : {"cycle"}, plan : PlanRows] \cup [at : {"count"}, limit : Nat]
                \cup [at : {"insert"}]
DemoJob    == [at : {"demo"}]
EditJob    == [at : {"check", "patch", "status", "delete"}, id : Ids, row : CaseRow,
               next : {"patch", "status", "delete"}]

TypeOK == /\ plan \in PlanRows
          /\ yearly \in BOOLEAN
          /\ cases \in [Ids -> CaseRow \cup {None}]
          /\ job \in [Handlers -> {Idle} \cup CreateJob \cup DemoJob \cup EditJob]

Init == /\ plan \in PlanRows
        /\ yearly = FALSE
        /\ cases = [i \in Ids |-> None]
        /\ job = [h \in Handlers |-> Idle]

Take(h, j) == job' = [job EXCEPT ![h] = j]
Goto(h, l) == job' = [job EXCEPT ![h].at = l]
Done(h)    == job' = [job EXCEPT ![h] = Idle]

\* Plan.max_cases_for: zero is unlimited, and stays so for a yearly cycle.
MaxCasesFor(p, y) == IF p.max = 0 THEN 0
                     ELSE IF y THEN p.max + p.bonus ELSE p.max

\* Organization.case_count: every case counts, closed and demo ones too.
CaseCount == Cardinality({i \in Ids : cases[i] # None})

\* (mutant) the limit check lets one case too many through
AllowedAtLimit(limit, used) == limit = 0 \/ used <= limit

\* limit_status(...)["allowed"].
Allowed(limit, used) == limit = 0 \/ used < limit

\* A key the database has not given out: no row and no thread refers to it.
\* (Keys of rows that are forgotten by everybody are used again.)
Fresh(i) == /\ cases[i] = None
            /\ \A h \in Handlers : job[h] \in EditJob => job[h].id # i

-----------------------------------------------------------------------------
(* The billing app *)

SetPlan(p) == /\ plan' = p
              /\ UNCHANGED <<yearly, cases, job>>

SetCycle(y) == /\ yearly' = y
               /\ UNCHANGED <<plan, cases, job>>

-----------------------------------------------------------------------------
(* CaseListCreateAPI.post with _check_case_slot *)

\* is_org_read_only: the Plan row is read, and kept for the limit.
CreateReadPlan(h) ==
  /\ job[h] = Idle
  /\ ~plan.readOnly
  /\ Take(h, [at |-> "cycle", plan |-> plan])
  /\ UNCHANGED <<env, cases>>

\* billing_cycle_of: the Subscription row is read.
CreateReadCycle(h) ==
  /\ job[h].at = "cycle"
  /\ Take(h, [at |-> "count", limit |-> MaxCasesFor(job[h].plan, yearly)])
  /\ UNCHANGED <<env, cases>>

\* case_count: the cases are counted, and the request goes on or is refused.
CreateCount(h) ==
  /\ job[h].at = "count"
  /\ IF Allowed(job[h].limit, CaseCount) THEN Take(h, [at |-> "insert"]) ELSE Done(h)
  /\ UNCHANGED <<env, cases>>

\* serializer.save: the form sends the status of the new case too.
CreateInsert(h, i, st) ==
  /\ job[h].at = "insert"
  /\ Fresh(i)
  /\ cases' = [cases EXCEPT ![i] = [status |-> st, closedAt |-> FALSE, demo |-> FALSE]]
  /\ Done(h)
  /\ UNCHANGED env

-----------------------------------------------------------------------------
(* DemoCaseAPI.post: the read-only check, and no slot check *)

DemoBegin(h) ==
  /\ job[h] = Idle
  /\ ~plan.readOnly
  /\ Take(h, [at |-> "demo"])
  /\ UNCHANGED <<env, cases>>

DemoInsert(h, i) ==
  /\ job[h].at = "demo"
  /\ Fresh(i)
  /\ cases' = [cases EXCEPT ![i] = [status |-> "open", closedAt |-> FALSE, demo |-> TRUE]]
  /\ Done(h)
  /\ UNCHANGED env

-----------------------------------------------------------------------------
(* CaseDetailAPI.patch, CaseStatusAPI.post and CaseDetailAPI.delete: the row *)
(* is loaded, then the plan is checked (require_edit), then the row written. *)

EditRead(h, i, next) ==
  /\ job[h] = Idle
  /\ cases[i] # None
  /\ Take(h, [at |-> "check", id |-> i, row |-> cases[i], next |-> next])
  /\ UNCHANGED <<env, cases>>

\* (mutant) require_edit leaves the plan to the role checks
EditUnchecked(h) ==
  /\ job[h].at = "check"
  /\ Goto(h, job[h].next)
  /\ UNCHANGED <<env, cases>>

EditCheck(h) ==
  /\ job[h].at = "check"
  /\ IF plan.readOnly THEN Done(h) ELSE Goto(h, job[h].next)
  /\ UNCHANGED <<env, cases>>

\* serializer.save: all columns; closed_at is not a field of the form.
PatchSave(h, st) ==
  /\ job[h].at = "patch"
  /\ cases' = [cases EXCEPT ![job[h].id] = [job[h].row EXCEPT !.status = st]]
  /\ Done(h)
  /\ UNCHANGED env

\* (mutant) CaseStatusAPI stores any word of the URL as the status
StatusUnvalidated(h, st) ==
  /\ job[h].at = "status"
  /\ \E word \in {st, "reopened"} :
       cases' = [cases EXCEPT ![job[h].id] =
                   [job[h].row EXCEPT !.status = word, !.closedAt = (word = "closed")]]
  /\ Done(h)
  /\ UNCHANGED env

StatusSave(h, st) ==
  /\ job[h].at = "status"
  /\ cases' = [cases EXCEPT ![job[h].id] =
                 [job[h].row EXCEPT !.status = st, !.closedAt = (st = "closed")]]
  /\ Done(h)
  /\ UNCHANGED env

DeleteRow(h) ==
  /\ job[h].at = "delete"
  /\ cases' = [cases EXCEPT ![job[h].id] = None]
  /\ Done(h)
  /\ UNCHANGED env

\* The process dies, or a statement raises: nothing more is written.
Abort(h) ==
  /\ job[h] # Idle
  /\ Done(h)
  /\ UNCHANGED <<env, cases>>

-----------------------------------------------------------------------------
Create(h) == \/ CreateReadPlan(h) \/ CreateReadCycle(h) \/ CreateCount(h)
             \/ \E i \in Ids, st \in Statuses : CreateInsert(h, i, st)

Demo(h) == DemoBegin(h) \/ \E i \in Ids : DemoInsert(h, i)

Edit(h) == \/ \E i \in Ids, next \in {"patch", "status", "delete"} : EditRead(h, i, next)
           \/ EditCheck(h)
           \/ \E st \in Statuses : PatchSave(h, st) \/ StatusSave(h, st)
           \/ DeleteRow(h)

Next == \/ \E p \in PlanRows : SetPlan(p)
        \/ \E y \in BOOLEAN : SetCycle(y)
        \/ \E h \in Handlers : Create(h) \/ Demo(h) \/ Edit(h) \/ Abort(h)

Spec == Init /\ [][Next]_vars

-----------------------------------------------------------------------------
(* Properties *)

\* A case that counts against the limit: created through the slot check.
Regular(row) == row # None /\ ~row.demo

\* Threads that hold a regular case they will write back or delete.
Editors == {h \in Handlers : job[h] \in EditJob /\ Regular(job[h].row)}

\* Threads that passed the slot check and have not inserted yet.
Admitted == {h \in Handlers : job[h].at = "insert"}

RegularCases == {i \in Ids : Regular(cases[i])}

\* Two requests may pass the slot check before either inserts, and a save may
\* bring back a case that was deleted meanwhile; but the overshoot is never
\* more than one case per further thread, however long it goes on and however
\* plans and cycles change (_check_case_slot against serializer.save).
CaseBound ==
  (\A p \in PlanRows : p.max # 0 /\ p.max + p.bonus <= Ceiling) =>
    Cardinality(RegularCases) + 1 <= Ceiling + Cardinality(Handlers)

\* Once the organization stays on the Free plan its cases stop changing, also
\* those of requests admitted earlier (is_org_read_only: "no creating,
\* editing, deleting").
FreeTierFreezes == <>[](plan.readOnly) => <>[][cases' = cases]_cases

\* What a thread or a row may still contribute to the number of cases.
Claimed == RegularCases \cup {job[h].id : h \in Editors}

\* The strengthening of CaseBound: rows, held rows and admitted threads
\* together, and the limits in the hands of threads, stay within bounds.
CaseClaims ==
  (\A p \in PlanRows : p.max # 0 /\ p.max + p.bonus <= Ceiling) =>
    /\ Cardinality(Claimed) + Cardinality(Admitted) + 1 <= Ceiling + Cardinality(Handlers)
    /\ \A h \in Handlers : job[h].at = "count" => job[h].limit \in 1 .. Ceiling

=============================================================================
