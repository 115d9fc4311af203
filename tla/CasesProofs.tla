---------------------------- MODULE CasesProofs ----------------------------
(* Proofs about Cases for any number of keys, threads and plans.             *)
EXTENDS Cases, FiniteSetTheorems, TLAPS

\* The label a thread stands at tells what its job carries.
LEMMA JobShape ==
  ASSUME TypeOK, NEW h \in Handlers
  PROVE  /\ job[h].at \in {"check", "patch", "status", "delete"} <=> job[h] \in EditJob
         /\ job[h].at = "cycle" => job[h].plan \in PlanRows
         /\ job[h].at = "count" => job[h].limit \in Nat
         /\ job[h] \in EditJob => job[h].id \in Ids /\ job[h].row \in CaseRow
  BY DEF TypeOK, Idle, CreateJob, DemoJob, EditJob

-----------------------------------------------------------------------------
(* Types *)

LEMMA TypeInit == Init => TypeOK
  BY DEF Init, TypeOK, Idle

LEMMA TypeStep == TypeOK /\ [Next]_vars => TypeOK'
<1> SUFFICES ASSUME TypeOK, [Next]_vars PROVE TypeOK'
  OBVIOUS
<1> USE CasesAssumption DEF TypeOK, env
<1>1. ASSUME NEW h \in Handlers, Create(h) PROVE TypeOK'
  <2>1. ASSUME CreateReadPlan(h) PROVE TypeOK'
    BY <2>1 DEF CreateReadPlan, Take, CreateJob
  <2>2. ASSUME CreateReadCycle(h) PROVE TypeOK'
    <3>1. MaxCasesFor(job[h].plan, yearly) \in Nat
      BY <2>2, JobShape DEF CreateReadCycle, MaxCasesFor, Plan
    <3> QED
      BY <2>2, <3>1 DEF CreateReadCycle, Take, CreateJob
  <2>3. ASSUME CreateCount(h) PROVE TypeOK'
    BY <2>3 DEF CreateCount, Take, Done, CreateJob
  <2>4. ASSUME NEW i \in Ids, NEW st \in Statuses, CreateInsert(h, i, st) PROVE TypeOK'
    BY <2>4 DEF CreateInsert, Done, CaseRow
  <2> QED
    BY <1>1, <2>1, <2>2, <2>3, <2>4 DEF Create
<1>2. ASSUME NEW h \in Handlers, Demo(h) PROVE TypeOK'
  <2>1. ASSUME DemoBegin(h) PROVE TypeOK'
    BY <2>1 DEF DemoBegin, Take, DemoJob
  <2>2. ASSUME NEW i \in Ids, DemoInsert(h, i) PROVE TypeOK'
    BY <2>2 DEF DemoInsert, Done, CaseRow
  <2> QED
    BY <1>2, <2>1, <2>2 DEF Demo
<1>3. ASSUME NEW h \in Handlers, Edit(h) PROVE TypeOK'
  <2>1. ASSUME NEW i \in Ids, NEW next \in {"patch", "status", "delete"}, EditRead(h, i, next)
        PROVE TypeOK'
    BY <2>1 DEF EditRead, Take, EditJob
  <2>2. ASSUME EditCheck(h) PROVE TypeOK'
    <3>1. job[h] \in EditJob
      BY <2>2, JobShape DEF EditCheck
    <3>2. [job[h] EXCEPT !.at = job[h].next] \in EditJob
      BY <3>1 DEF EditJob
    <3> QED
      BY <2>2, <3>2 DEF EditCheck, Goto, Done
  <2>3. ASSUME NEW st \in Statuses, PatchSave(h, st) PROVE TypeOK'
    BY <2>3, JobShape DEF PatchSave, Done, CaseRow
  <2>4. ASSUME NEW st \in Statuses, StatusSave(h, st) PROVE TypeOK'
    BY <2>4, JobShape DEF StatusSave, Done, CaseRow
  <2>5. ASSUME DeleteRow(h) PROVE TypeOK'
    BY <2>5 DEF DeleteRow, Done
  <2> QED
    BY <1>3, <2>1, <2>2, <2>3, <2>4, <2>5 DEF Edit
<1>4. ASSUME NEW h \in Handlers, Abort(h) PROVE TypeOK'
  BY <1>4 DEF Abort, Done
<1>5. ASSUME NEW p \in PlanRows, SetPlan(p) PROVE TypeOK'
  BY <1>5 DEF SetPlan
<1>6. ASSUME NEW y \in BOOLEAN, SetCycle(y) PROVE TypeOK'
  BY <1>6 DEF SetCycle
<1>7. CASE UNCHANGED vars
  BY <1>7 DEF vars
<1> QED
  BY <1>1, <1>2, <1>3, <1>4, <1>5, <1>6, <1>7 DEF Next

\* Rows and jobs always have their types (cases/models.py Case).
THEOREM TypeCorrect == Spec => []TypeOK
  BY TypeInit, TypeStep, PTL DEF Spec

-----------------------------------------------------------------------------
(* Counting *)

\* What is counted is finite.
LEMMA Counted ==
  ASSUME TypeOK
  PROVE  /\ Claimed \subseteq Ids /\ IsFiniteSet(Claimed)
         /\ RegularCases \subseteq Claimed /\ IsFiniteSet(RegularCases)
         /\ IsFiniteSet(Admitted) /\ IsFiniteSet(Editors)
         /\ Cardinality(Claimed) \in Nat /\ Cardinality(RegularCases) \in Nat
         /\ Cardinality(Admitted) \in Nat /\ Cardinality(Editors) \in Nat
         /\ Cardinality(Handlers) \in Nat
<1>1. Claimed \subseteq Ids /\ RegularCases \subseteq Claimed
  BY JobShape DEF Claimed, RegularCases, Editors
<1>2. Admitted \in SUBSET Handlers /\ Editors \in SUBSET Handlers
  BY DEF Admitted, Editors
<1>3. IsFiniteSet(Claimed) /\ IsFiniteSet(RegularCases)
  BY <1>1, CasesAssumption, FS_Subset
<1>4. IsFiniteSet(Admitted) /\ IsFiniteSet(Editors)
  BY <1>2, CasesAssumption, FS_Subset
<1> QED
  BY <1>1, <1>3, <1>4, CasesAssumption, FS_CardinalityType

\* Each thread holds at most one row.
LEMMA ClaimedByThreads ==
  ASSUME TypeOK
  PROVE  Cardinality(Claimed) <= Cardinality(RegularCases) + Cardinality(Editors)
<1> DEFINE Held == {job[h].id : h \in Editors}
           f    == [h \in Editors |-> job[h].id]
<1>1. f \in Surjection(Editors, Held)
  BY DEF Surjection
<1>2. IsFiniteSet(Held) /\ Cardinality(Held) <= Cardinality(Editors)
  BY <1>1, Counted, FS_Surjection
<1>3. Cardinality(Held) \in Nat
  BY <1>2, FS_CardinalityType
<1>4. Claimed = RegularCases \cup Held
  BY DEF Claimed
<1>5. Cardinality(Claimed)
        = Cardinality(RegularCases) + Cardinality(Held) - Cardinality(RegularCases \cap Held)
  BY <1>2, <1>4, Counted, FS_Union
<1>6. Cardinality(RegularCases \cap Held) \in Nat
  BY Counted, FS_Intersection, FS_CardinalityType
<1> HIDE DEF Held
<1> QED
  BY <1>2, <1>3, <1>5, <1>6, Counted

\* Threads that edit, threads that are admitted and one more thread are all
\* different.
LEMMA ThreadsAreSplit ==
  ASSUME TypeOK, NEW h \in Handlers, h \notin Editors, h \notin Admitted
  PROVE  Cardinality(Editors) + Cardinality(Admitted) + 1 <= Cardinality(Handlers)
<1> DEFINE Both == Editors \cup Admitted
<1>1. Editors \cap Admitted = {}
  BY JobShape DEF Editors, Admitted
<1>2. IsFiniteSet(Both) /\ Cardinality(Both) = Cardinality(Editors) + Cardinality(Admitted)
  <2>1. /\ IsFiniteSet(Editors \cup Admitted)
        /\ Cardinality(Editors \cup Admitted)
             = Cardinality(Editors) + Cardinality(Admitted) - Cardinality(Editors \cap Admitted)
    BY Counted, FS_Union
  <2>2. Cardinality(Editors \cap Admitted) = 0
    BY <1>1, FS_EmptySet
  <2> QED
    BY <2>1, <2>2, Counted
<1>3. Both \cup {h} \in SUBSET Handlers /\ h \notin Both
  BY DEF Editors, Admitted
<1> HIDE DEF Both
<1>4. Cardinality(Both \cup {h}) = Cardinality(Both) + 1
  BY <1>2, <1>3, FS_AddElement
<1>5. Cardinality(Both \cup {h}) <= Cardinality(Handlers)
  BY <1>3, CasesAssumption, FS_Subset
<1> QED
  BY <1>2, <1>4, <1>5

-----------------------------------------------------------------------------
(* The bound *)

\* No plan is unlimited or grants more than Ceiling: the premise of CaseBound.
Bounded == \A p \in PlanRows : p.max # 0 /\ p.max + p.bonus <= Ceiling

\* The two parts of CaseClaims.
Room   == Cardinality(Claimed) + Cardinality(Admitted) + 1 <= Ceiling + Cardinality(Handlers)
Limits == \A h \in Handlers : job[h].at = "count" => job[h].limit \in 1 .. Ceiling

LEMMA ClaimsParts == CaseClaims <=> (Bounded => Room /\ Limits)
  BY DEF CaseClaims, Bounded, Room, Limits

\* A step that adds no claim and admits no thread keeps the room.
LEMMA NothingNew ==
  ASSUME TypeOK, TypeOK', Room, Claimed' \subseteq Claimed, Admitted' \subseteq Admitted
  PROVE  Room'
<1>1. Cardinality(Claimed') <= Cardinality(Claimed) /\ Cardinality(Claimed') \in Nat
  BY Counted, FS_Subset, FS_CardinalityType
<1>2. Cardinality(Admitted') <= Cardinality(Admitted) /\ Cardinality(Admitted') \in Nat
  BY Counted, FS_Subset, FS_CardinalityType
<1> QED
  BY <1>1, <1>2, Counted, CasesAssumption DEF Room

\* A request that is admitted saw fewer cases than its limit.
LEMMA AdmitKeepsRoom ==
  ASSUME TypeOK, TypeOK', Limits, NEW h \in Handlers, CreateCount(h),
         Allowed(job[h].limit, CaseCount)
  PROVE  Room'
<1>1. job[h].at = "count" /\ job[h].limit \in 1 .. Ceiling
  BY DEF CreateCount, Limits
<1>2. h \notin Editors /\ h \notin Admitted
  BY <1>1, JobShape DEF Editors, Admitted
<1>3. CaseCount \in Nat /\ Cardinality(RegularCases) <= CaseCount
  <2> DEFINE All == {i \in Ids : cases[i] # None}
  <2>1. IsFiniteSet(All)
    BY CasesAssumption, FS_Subset
  <2>2. RegularCases \in SUBSET All
    BY DEF RegularCases, Regular
  <2> QED
    BY <2>1, <2>2, FS_Subset, FS_CardinalityType DEF CaseCount
<1>4. CaseCount < Ceiling
  BY <1>1, <1>3, CasesAssumption DEF Allowed
<1>5. Cardinality(Claimed) + Cardinality(Admitted) + 2 <= Ceiling + Cardinality(Handlers)
  BY <1>2, <1>3, <1>4, ClaimedByThreads, ThreadsAreSplit, Counted, CasesAssumption
<1>6. job' = [job EXCEPT ![h] = [at |-> "insert"]] /\ cases' = cases
  BY DEF CreateCount, Take
<1>7. Claimed' \subseteq Claimed
  BY <1>6 DEF TypeOK, Claimed, RegularCases, Editors, EditJob
<1>8. Admitted' \subseteq Admitted \cup {h}
  BY <1>6 DEF TypeOK, Admitted
<1>9. Cardinality(Claimed') <= Cardinality(Claimed) /\ Cardinality(Claimed') \in Nat
  BY <1>7, Counted, FS_Subset, FS_CardinalityType
<1>10. IsFiniteSet(Admitted \cup {h}) /\ Cardinality(Admitted \cup {h}) = Cardinality(Admitted) + 1
  BY <1>2, Counted, FS_AddElement
<1>11. IsFiniteSet(Admitted') /\ Cardinality(Admitted') <= Cardinality(Admitted) + 1
  BY <1>8, <1>10, FS_Subset
<1>12. Cardinality(Admitted') \in Nat
  BY <1>11, FS_CardinalityType
<1> QED
  BY <1>5, <1>9, <1>11, <1>12, Counted, CasesAssumption DEF Room

\* An admitted request turns its admission into a case.
LEMMA InsertKeepsRoom ==
  ASSUME TypeOK, TypeOK', Room, NEW h \in Handlers, NEW i \in Ids, NEW st \in Statuses,
         CreateInsert(h, i, st)
  PROVE  Room'
<1>1. /\ job[h].at = "insert" /\ h \in Admitted
      /\ job' = [job EXCEPT ![h] = Idle]
      /\ \A j \in Ids : j # i => cases'[j] = cases[j]
  BY DEF CreateInsert, Done, Admitted, TypeOK
<1>2. Claimed' \subseteq Claimed \cup {i}
  BY <1>1 DEF TypeOK, Claimed, RegularCases, Editors, EditJob, Idle
<1>3. Admitted' \subseteq Admitted \ {h}
  BY <1>1 DEF TypeOK, Admitted, Idle
<1>4. IsFiniteSet(Claimed \cup {i}) /\ Cardinality(Claimed \cup {i}) <= Cardinality(Claimed) + 1
  <2>1. IsFiniteSet(Claimed) /\ Cardinality(Claimed) \in Nat
    BY Counted
  <2> HIDE DEF Claimed
  <2>2. /\ IsFiniteSet(Claimed \cup {i})
        /\ Cardinality(Claimed \cup {i})
             = IF i \in Claimed THEN Cardinality(Claimed) ELSE Cardinality(Claimed) + 1
    BY <2>1, FS_AddElement
  <2> QED
    BY <2>1, <2>2
<1>5. IsFiniteSet(Admitted \ {h}) /\ Cardinality(Admitted \ {h}) = Cardinality(Admitted) - 1
  BY <1>1, Counted, FS_RemoveElement
<1>6. IsFiniteSet(Claimed') /\ Cardinality(Claimed') <= Cardinality(Claimed \cup {i})
  BY <1>2, <1>4, FS_Subset
<1>7. IsFiniteSet(Admitted') /\ Cardinality(Admitted') <= Cardinality(Admitted \ {h})
  BY <1>3, <1>5, FS_Subset
<1>8. /\ Cardinality(Claimed') \in Nat /\ Cardinality(Admitted') \in Nat
      /\ Cardinality(Claimed \cup {i}) \in Nat
  BY <1>4, <1>6, <1>7, FS_CardinalityType
<1> QED
  BY <1>4, <1>5, <1>6, <1>7, <1>8, Counted, CasesAssumption DEF Room

\* Every other step adds no claim and admits no thread.
LEMMA OtherSteps ==
  ASSUME TypeOK, [Next]_vars,
         \A h \in Handlers : CreateCount(h) => ~Allowed(job[h].limit, CaseCount),
         \A h \in Handlers, i \in Ids, st \in Statuses : ~CreateInsert(h, i, st)
  PROVE  Claimed' \subseteq Claimed /\ Admitted' \subseteq Admitted
<1> DEFINE Less == Claimed' \subseteq Claimed /\ Admitted' \subseteq Admitted
<1> USE DEF TypeOK, env, Claimed, RegularCases, Editors, Admitted
<1>1. ASSUME NEW h \in Handlers, CreateReadPlan(h) \/ CreateReadCycle(h) \/ DemoBegin(h)
      PROVE Less
  BY <1>1 DEF CreateReadPlan, CreateReadCycle, DemoBegin, Take, EditJob
<1>2. ASSUME NEW h \in Handlers, CreateCount(h) PROVE Less
  BY <1>2 DEF CreateCount, Done, EditJob, Idle
<1>3. ASSUME NEW h \in Handlers, NEW i \in Ids, DemoInsert(h, i) PROVE Less
  BY <1>3 DEF DemoInsert, Done, EditJob, Idle, Regular
<1>4. ASSUME NEW h \in Handlers, NEW i \in Ids, NEW next \in {"patch", "status", "delete"},
             EditRead(h, i, next)
      PROVE Less
  <2>1. /\ job' = [job EXCEPT ![h] = [at |-> "check", id |-> i, row |-> cases[i], next |-> next]]
        /\ cases' = cases
    BY <1>4 DEF EditRead, Take
  <2>2. ASSUME NEW g \in Editors' PROVE job'[g].id \in Claimed
    <3>1. CASE g = h
      BY <2>1, <2>2, <3>1
    <3>2. CASE g # h
      BY <2>1, <2>2, <3>2
    <3> QED
      BY <3>1, <3>2
  <2> QED
    BY <2>1, <2>2
<1>5. ASSUME NEW h \in Handlers, EditCheck(h) PROVE Less
  <2>1. job[h] \in EditJob
    BY <1>5, JobShape DEF EditCheck
  <2>2. \/ job' = [job EXCEPT ![h] = Idle]
        \/ job' = [job EXCEPT ![h].at = job[h].next]
    BY <1>5 DEF EditCheck, Done, Goto
  <2>3. \A g \in Handlers : job'[g] \in EditJob =>
           job[g] \in EditJob /\ job'[g].row = job[g].row /\ job'[g].id = job[g].id
    BY <2>1, <2>2 DEF EditJob, Idle
  <2>4. \A g \in Handlers : job'[g].at = "insert" => job[g].at = "insert"
    BY <2>1, <2>2 DEF EditJob, Idle
  <2> QED
    BY <1>5, <2>3, <2>4 DEF EditCheck
<1>6. ASSUME NEW h \in Handlers, NEW st \in Statuses, PatchSave(h, st) \/ StatusSave(h, st)
      PROVE Less
  <2>1. /\ job[h] \in EditJob /\ job[h].id \in Ids /\ job[h].row \in CaseRow
        /\ job' = [job EXCEPT ![h] = Idle]
    BY <1>6, JobShape DEF PatchSave, StatusSave, Done
  <2>2. PICK row \in CaseRow : cases' = [cases EXCEPT ![job[h].id] = row]
                               /\ row.demo = job[h].row.demo
    <3>1. [job[h].row EXCEPT !.status = st] \in CaseRow
      BY <2>1 DEF CaseRow
    <3>2. [job[h].row EXCEPT !.status = st, !.closedAt = (st = "closed")] \in CaseRow
      BY <2>1 DEF CaseRow
    <3>3. /\ [job[h].row EXCEPT !.status = st].demo = job[h].row.demo
          /\ [job[h].row EXCEPT !.status = st, !.closedAt = (st = "closed")].demo = job[h].row.demo
      BY <2>1 DEF CaseRow
    <3> QED
      BY <1>6, <3>1, <3>2, <3>3 DEF PatchSave, StatusSave
  <2>3. Regular(row) => Regular(job[h].row)
    BY <2>1, <2>2, CasesAssumption DEF Regular
  <2>4. RegularCases' \subseteq Claimed
    BY <2>1, <2>2, <2>3
  <2> QED
    BY <2>1, <2>4 DEF EditJob, Idle
<1>7. ASSUME NEW h \in Handlers, DeleteRow(h) PROVE Less
  BY <1>7, JobShape DEF DeleteRow, Done, EditJob, Idle, Regular
<1>8. ASSUME NEW h \in Handlers, Abort(h) PROVE Less
  BY <1>8 DEF Abort, Done, EditJob, Idle
<1>9. ASSUME NEW p \in PlanRows, SetPlan(p) PROVE Less
  BY <1>9 DEF SetPlan
<1>10. ASSUME NEW y \in BOOLEAN, SetCycle(y) PROVE Less
  BY <1>10 DEF SetCycle
<1>11. CASE UNCHANGED vars
  BY <1>11 DEF vars
<1> QED
  BY <1>1, <1>2, <1>3, <1>4, <1>5, <1>6, <1>7, <1>8, <1>9, <1>10, <1>11
     DEF Next, Create, Demo, Edit

\* Limits in the hands of threads come from a plan.
LEMMA LimitsStep ==
  ASSUME TypeOK, Bounded, Limits, [Next]_vars
  PROVE  Limits'
<1> USE DEF TypeOK, Limits, env
<1>1. ASSUME NEW h \in Handlers, CreateReadCycle(h) PROVE Limits'
  <2>1. job[h].plan \in PlanRows
    BY <1>1, JobShape DEF CreateReadCycle
  <2>2. MaxCasesFor(job[h].plan, yearly) \in 1 .. Ceiling
    BY <2>1, CasesAssumption DEF Bounded, MaxCasesFor, Plan
  <2> QED
    BY <1>1, <2>2 DEF CreateReadCycle, Take
<1>2. ASSUME NEW h \in Handlers, CreateReadPlan(h) \/ CreateCount(h) \/ DemoBegin(h) PROVE Limits'
  BY <1>2 DEF CreateReadPlan, CreateCount, DemoBegin, Take, Done, Idle
<1>3. ASSUME NEW h \in Handlers, NEW i \in Ids,
             \/ \E st \in Statuses : CreateInsert(h, i, st)
             \/ DemoInsert(h, i)
             \/ \E next \in {"patch", "status", "delete"} : EditRead(h, i, next)
      PROVE Limits'
  BY <1>3 DEF CreateInsert, DemoInsert, EditRead, Take, Done, Idle
<1>4. ASSUME NEW h \in Handlers, EditCheck(h) PROVE Limits'
  <2>1. job[h] \in EditJob
    BY <1>4, JobShape DEF EditCheck
  <2>2. \/ job' = [job EXCEPT ![h] = Idle]
        \/ job' = [job EXCEPT ![h].at = job[h].next]
    BY <1>4 DEF EditCheck, Done, Goto
  <2>3. job'[h].at # "count"
    BY <2>1, <2>2 DEF EditJob, Idle
  <2> QED
    BY <2>2, <2>3
<1>5. ASSUME NEW h \in Handlers,
             (\E st \in Statuses : PatchSave(h, st) \/ StatusSave(h, st)) \/ DeleteRow(h) \/ Abort(h)
      PROVE Limits'
  <2>1. job' = [job EXCEPT ![h] = Idle]
    BY <1>5 DEF PatchSave, StatusSave, DeleteRow, Abort, Done
  <2> QED
    BY <2>1 DEF Idle
<1>6. ASSUME NEW p \in PlanRows, SetPlan(p) PROVE Limits'
  BY <1>6 DEF SetPlan
<1>7. ASSUME NEW y \in BOOLEAN, SetCycle(y) PROVE Limits'
  BY <1>7 DEF SetCycle
<1>8. CASE UNCHANGED vars
  BY <1>8 DEF vars
<1> QED
  BY <1>1, <1>2, <1>3, <1>4, <1>5, <1>6, <1>7, <1>8 DEF Next, Create, Demo, Edit

LEMMA ClaimsInit == Init => CaseClaims
<1> SUFFICES ASSUME Init, Bounded PROVE Room /\ Limits
  BY ClaimsParts
<1>1. Claimed = {} /\ Admitted = {} /\ Limits
  BY DEF Init, Idle, Claimed, RegularCases, Regular, Editors, EditJob, Admitted, Limits
<1>2. Ceiling >= 1
  BY CasesAssumption DEF Init, Bounded, Plan
<1>3. Cardinality(Handlers) \in Nat
  BY CasesAssumption, FS_CardinalityType
<1> QED
  BY <1>1, <1>2, <1>3, CasesAssumption, FS_EmptySet DEF Room

LEMMA ClaimsStep == TypeOK /\ CaseClaims /\ [Next]_vars => CaseClaims'
<1> SUFFICES ASSUME TypeOK, CaseClaims, [Next]_vars, Bounded PROVE Room' /\ Limits'
  BY ClaimsParts DEF CaseClaims, Bounded, Room, Limits
<1>1. Room /\ Limits /\ TypeOK'
  BY ClaimsParts, TypeStep
<1>2. Room'
  BY <1>1, AdmitKeepsRoom, InsertKeepsRoom, OtherSteps, NothingNew
<1> QED
  BY <1>1, <1>2, LimitsStep

\* Claims stay within bounds whatever the interleaving (the strengthening of
\* the next theorem: _check_case_slot and serializer.save of cases/api.py).
THEOREM ClaimsHold == Spec => []CaseClaims
  BY TypeInit, TypeStep, ClaimsInit, ClaimsStep, PTL DEF Spec

\* The limit is overshot by less than the number of threads, for any number of
\* them and any sequence of plan changes (_check_case_slot of cases/api.py).
THEOREM CasesAreBounded == Spec => []CaseBound
<1>1. TypeOK /\ CaseClaims => CaseBound
  <2> SUFFICES ASSUME TypeOK, CaseClaims, Bounded
               PROVE  Cardinality(RegularCases) + 1 <= Ceiling + Cardinality(Handlers)
    BY DEF CaseBound, Bounded
  <2>1. Cardinality(RegularCases) <= Cardinality(Claimed)
    BY Counted, FS_Subset
  <2> QED
    BY <2>1, Counted, ClaimsParts, CasesAssumption DEF Room
<1> QED
  BY <1>1, TypeCorrect, ClaimsHold, PTL

-----------------------------------------------------------------------------
(* What is left of FreeTierFreezes without fairness *)

\* The threads whose request may still write: it passed the check of the plan.
Writers == {h \in Handlers :
              job[h].at \in {"cycle", "count", "insert", "demo", "patch", "status", "delete"}}

\* While the organization is on the Free plan no request is admitted any more, and
\* one that was admitted before changes a case at most once: with n threads the
\* cases change at most n times, whatever else is called (is_org_read_only, which
\* every handler asks once and before it writes).
THEOREM FreeAdmitsNobody ==
  Spec => [][plan.readOnly => /\ Writers' \subseteq Writers
                              /\ cases' # cases => Writers' # Writers]_vars
<1> DEFINE Frozen == plan.readOnly => /\ Writers' \subseteq Writers
                                      /\ cases' # cases => Writers' # Writers
<1>1. TypeOK /\ [Next]_vars => [Frozen]_vars
  <2> SUFFICES ASSUME TypeOK, Next, plan.readOnly
               PROVE  Writers' \subseteq Writers /\ (cases' # cases => Writers' # Writers)
    OBVIOUS
  <2> USE DEF TypeOK, Writers
  <2>1. CASE UNCHANGED <<job, cases>>
    BY <2>1
  <2>2. ASSUME NEW h \in Handlers, Done(h), cases' # cases => h \in Writers
        PROVE  Writers' \subseteq Writers /\ (cases' # cases => Writers' # Writers)
    <3>1. h \notin Writers' /\ \A g \in Handlers \ {h} : job'[g] = job[g]
      BY <2>2 DEF Done, Idle
    <3> QED
      BY <2>2, <3>1
  <2>3. ASSUME NEW h \in Handlers, Create(h)
        PROVE  Writers' \subseteq Writers /\ (cases' # cases => Writers' # Writers)
    <3>1. CASE CreateReadCycle(h) \/ (CreateCount(h) /\ ~Done(h))
      BY <3>1 DEF CreateReadCycle, CreateCount, Take
    <3>2. CASE CreateCount(h) /\ Done(h)
      BY <2>2, <3>2 DEF CreateCount
    <3>3. ASSUME NEW i \in Ids, NEW st \in Statuses, CreateInsert(h, i, st)
          PROVE  Done(h) /\ h \in Writers
      BY <3>3 DEF CreateInsert
    <3> QED
      BY <2>2, <2>3, <3>1, <3>2, <3>3 DEF Create, CreateReadPlan
  <2>4. ASSUME NEW h \in Handlers, Demo(h)
        PROVE  Writers' \subseteq Writers /\ (cases' # cases => Writers' # Writers)
    <3>1. Done(h) /\ h \in Writers
      BY <2>4 DEF Demo, DemoBegin, DemoInsert
    <3> QED
      BY <2>2, <3>1
  <2>5. ASSUME NEW h \in Handlers, Edit(h)
        PROVE  Writers' \subseteq Writers /\ (cases' # cases => Writers' # Writers)
    <3>1. ASSUME NEW i \in Ids, NEW next \in {"patch", "status", "delete"}, EditRead(h, i, next)
          PROVE  Writers' \subseteq Writers /\ cases' = cases
      BY <3>1 DEF EditRead, Take
    <3>2. CASE EditCheck(h)
      BY <2>2, <3>2 DEF EditCheck
    <3>3. CASE DeleteRow(h) \/ \E st \in Statuses : PatchSave(h, st) \/ StatusSave(h, st)
      <4>1. Done(h) /\ h \in Writers
        BY <3>3 DEF DeleteRow, PatchSave, StatusSave
      <4> QED
        BY <2>2, <4>1
    <3> QED
      BY <2>5, <3>1, <3>2, <3>3 DEF Edit
  <2>6. ASSUME NEW h \in Handlers, Abort(h)
        PROVE  Writers' \subseteq Writers /\ (cases' # cases => Writers' # Writers)
    BY <2>2, <2>6 DEF Abort
  <2> QED
    BY <2>1, <2>3, <2>4, <2>5, <2>6 DEF Next, SetPlan, SetCycle
<1> HIDE DEF Frozen
<1>2. Spec => [][Frozen]_vars
  BY <1>1, TypeInit, TypeStep, PTL DEF Spec
<1> QED
  BY <1>2 DEF Frozen

=============================================================================
