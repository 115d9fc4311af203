--------------------------- MODULE BillingProofs ---------------------------
(* Proofs about Billing for any number of organizations, plans, payments and *)
(* threads, in demo and in live mode, wherever requests die.                 *)
EXTENDS Billing, TLAPS

\* The label a thread stands at tells what its job carries.
LEMMA JobShape ==
  ASSUME TypeOK, NEW h \in Handlers
  PROVE  /\ job[h].at = "insert" => job[h] \in CheckoutJob
         /\ job[h].at \in {"hookPay", "hookSub", "hookOrg"} => job[h] \in WebhookJob
         /\ job[h].at \in {"cancelSub", "cancelOrg"} => job[h] \in CancelJob
         /\ job[h].at \in {"modifyReadSub", "modifyReadPlan"} => job[h] \in ModifyJob
         /\ job[h].at \in {"modifySub", "modifyOrg"} => job[h] \in SwitchJob
  BY DEF TypeOK, Idle, CheckoutJob, WebhookJob, CancelJob, ModifyJob, SwitchJob

-----------------------------------------------------------------------------
(* Types *)

LEMMA TypeRequest == ASSUME TypeOK, NEW h \in Handlers, Request(h) PROVE TypeOK'
<1> USE BillingAssumption DEF TypeOK, gateway, history, Tears, Mends
<1>1. ASSUME NEW p \in Plans, NEW row \in Offers, PatchPlan(h, p, row) PROVE TypeOK'
  BY <1>1 DEF PatchPlan
<1>2. ASSUME NEW o \in Orgs, NEW p \in Plans, NEW c \in Cycles, CheckoutCreate(h, o, p, c)
      PROVE TypeOK'
  BY <1>2 DEF CheckoutCreate, Take, CheckoutJob, rows
<1>3. ASSUME NEW o \in Orgs, NEW p \in Plans, NEW c \in Cycles, ModifyBegin(h, o, p, c)
      PROVE TypeOK'
  <2>1. org[o].plan \in Plans
    BY DEF OrgRow
  <2> QED
    BY <1>3, <2>1 DEF ModifyBegin, Take, ModifyJob, rows
<1>4. ASSUME NEW p \in Payments, CheckoutVerify(h, p) PROVE TypeOK'
  BY <1>4 DEF CheckoutVerify, SavePay, UpsertSubscription, LiveSub, SaveOrg,
              OrgRow, SubRow, PayRow
<1>5. ASSUME NEW p \in Payments, CheckoutVerifyRejected(h, p) PROVE TypeOK'
  BY <1>5 DEF CheckoutVerifyRejected, SavePay, PayRow
<1>6. ASSUME NEW o \in Orgs, CancelBegin(h, o) PROVE TypeOK'
  BY <1>6 DEF CancelBegin, Take, CancelJob, rows
<1>7. ASSUME NEW o \in Orgs, DowngradeFree(h, o) PROVE TypeOK'
  BY <1>7 DEF DowngradeFree, SaveOrg, OrgRow
<1> QED
  BY <1>1, <1>2, <1>3, <1>4, <1>5, <1>6, <1>7 DEF Request

LEMMA TypeContinue ==
  ASSUME TypeOK, JobsAreBacked, NEW h \in Handlers, Continue(h) PROVE TypeOK'
<1> USE BillingAssumption DEF TypeOK, gateway, history, Tears
<1>1. ASSUME NEW id \in Payments, CheckoutInsert(h, id) PROVE TypeOK'
  BY <1>1, JobShape DEF CheckoutInsert, Done, CheckoutJob, PayRow
<1>2. ASSUME WebhookSavePayment(h) PROVE TypeOK'
  BY <1>2, JobShape DEF WebhookSavePayment, SavePay, Goto, WebhookJob, PayRow,
              JobsAreBacked, RowsAreBacked, JobIsBacked
<1>3. ASSUME WebhookSaveSub(h) PROVE TypeOK'
  BY <1>3, JobShape DEF WebhookSaveSub, UpsertSubscription, LiveSub, Goto, WebhookJob,
                        PayRow, SubRow, JobsAreBacked, RowsAreBacked, JobIsBacked
<1>4. ASSUME WebhookSaveOrg(h) PROVE TypeOK'
  BY <1>4, JobShape DEF WebhookSaveOrg, SaveOrg, Acknowledge, Done, WebhookJob,
                        PayRow, OrgRow, JobsAreBacked, RowsAreBacked, JobIsBacked
<1>5. ASSUME CancelSaveSub(h) PROVE TypeOK'
  BY <1>5, JobShape DEF CancelSaveSub, CancelSub, Goto, CancelJob, SubRow, JobsAreBacked, RowsAreBacked, JobIsBacked
<1>6. ASSUME CancelSaveOrg(h) PROVE TypeOK'
  BY <1>6, JobShape DEF CancelSaveOrg, SaveOrg, Done, CancelJob, OrgRow
<1>7. ASSUME ModifyReadSub(h) PROVE TypeOK'
  <2> DEFINE row == sub[job[h].org]
             j   == [job[h] EXCEPT !.at = "modifyReadPlan",
                                   !.subCycle = IF row = None THEN None ELSE row.cycle]
  <2>1. job[h] \in ModifyJob
    BY <1>7, JobShape DEF ModifyReadSub
  <2>2. (IF row = None THEN None ELSE row.cycle) \in Cycles \cup {None}
    BY <2>1 DEF ModifyJob, SubRow
  <2>3. j \in ModifyJob
    BY <2>1, <2>2 DEF ModifyJob
  <2>4. job' = [job EXCEPT ![h] = j] /\ UNCHANGED <<rows, gateway, gratis, served, dropped, torn>>
    BY <1>7 DEF ModifyReadSub, Take
  <2> HIDE DEF j
  <2> QED
    BY <2>3, <2>4 DEF rows
<1>8. ASSUME ModifyApplies(h) PROVE TypeOK'
  BY <1>8, JobShape DEF ModifyApplies, Take, ModifyJob, SwitchJob, rows
<1>9. ASSUME ModifyDoesNothing(h) PROVE TypeOK'
  BY <1>9 DEF ModifyDoesNothing, Done, rows
<1>10. ASSUME ModifySaveSub(h) PROVE TypeOK'
  BY <1>10, JobShape DEF ModifySaveSub, CancelSub, Goto, SwitchJob, SubRow, JobsAreBacked, RowsAreBacked, JobIsBacked
<1>11. ASSUME ModifySaveOrg(h) PROVE TypeOK'
  BY <1>11, JobShape DEF ModifySaveOrg, SaveOrg, Done, SwitchJob, OrgRow
<1> QED
  BY <1>1, <1>2, <1>3, <1>4, <1>5, <1>6, <1>7, <1>8, <1>9, <1>10, <1>11 DEF Continue

LEMMA TypeGateway ==
  ASSUME TypeOK, JobsAreBacked, NEW p \in Payments,
         \/ \E h \in Handlers : Deliver(h, p)
         \/ CustomerPays(p)
         \/ AttemptDeclined(p)
  PROVE  TypeOK'
<1> USE DEF TypeOK, history
<1>1. ASSUME NEW h \in Handlers, WebhookSeesPaid(h, p) PROVE TypeOK'
  BY <1>1 DEF WebhookSeesPaid, Acknowledge, rows
<1>2. ASSUME NEW h \in Handlers, WebhookCaptured(h, p) PROVE TypeOK'
  BY <1>2 DEF WebhookCaptured, Take, WebhookJob, rows, gateway
<1>3. ASSUME NEW h \in Handlers, WebhookFailed(h, p) PROVE TypeOK'
  BY <1>3 DEF WebhookFailed, SavePay, Acknowledge, PayRow,
              JobsAreBacked, RowsAreBacked, JobIsBacked
<1>4. ASSUME CustomerPays(p) PROVE TypeOK'
  BY <1>4 DEF CustomerPays, Event, rows
<1>5. ASSUME AttemptDeclined(p) PROVE TypeOK'
  BY <1>5 DEF AttemptDeclined, Event, rows
<1> QED
  BY <1>1, <1>2, <1>3, <1>4, <1>5 DEF Deliver

\* Every request, statement, webhook and abort keeps the types.
LEMMA TypeStep == TypeOK /\ JobsAreBacked /\ [Next]_vars => TypeOK'
<1> SUFFICES ASSUME TypeOK, JobsAreBacked, [Next]_vars PROVE TypeOK'
  OBVIOUS
<1>1. ASSUME NEW h \in Handlers, Abort(h) PROVE TypeOK'
  BY <1>1, JobShape DEF TypeOK, Abort, LossyPoints, WebhookJob, Done, rows, gateway
<1>2. CASE UNCHANGED vars
  BY <1>2 DEF TypeOK, vars, rows, gateway, history
<1> QED
  BY <1>1, <1>2, TypeRequest, TypeContinue, TypeGateway DEF Next

-----------------------------------------------------------------------------
(* What no step takes back *)

Persist == /\ captured \subseteq captured'
           /\ \A p \in Payments : pay[p] # None =>
                /\ pay'[p] # None
                /\ pay'[p].org = pay[p].org
                /\ pay'[p].plan = pay[p].plan
                /\ pay'[p].cycle = pay[p].cycle
           /\ \A o \in Orgs : /\ sub[o] # None => sub'[o] # None
                              /\ gratis[o] \subseteq gratis'[o]

\* Rows are never deleted, the terms of a payment never change, money is not
\* un-captured and an offer once given is remembered.
LEMMA Persistence == TypeOK /\ JobsAreBacked /\ [Next]_vars => Persist
<1> SUFFICES ASSUME TypeOK, JobsAreBacked, [Next]_vars PROVE Persist
  OBVIOUS
<1>t. TypeOK'
  BY TypeStep
<1>1. ASSUME NEW p \in Payments, NEW st \in {"paid", "failed"}, pay[p] # None, SavePay(p, st)
      PROVE  \A q \in Payments : pay[q] # None =>
                /\ pay'[q] # None
                /\ pay'[q].org = pay[q].org
                /\ pay'[q].plan = pay[q].plan
                /\ pay'[q].cycle = pay[q].cycle
  <2>1. pay[p] \in PayRow
    BY <1>1 DEF TypeOK
  <2>2. [pay[p] EXCEPT !.status = st] \in PayRow
    BY <2>1 DEF PayRow
  <2> QED
    BY <1>1, <2>1, <2>2, BillingAssumption DEF SavePay, TypeOK, PayRow
<1>2. ASSUME NEW o \in Orgs, sub[o] # None, CancelSub(o)
      PROVE  \A q \in Orgs : sub[q] # None => sub'[q] # None
  <2>1. sub[o] \in SubRow
    BY <1>2 DEF TypeOK
  <2>2. [sub[o] EXCEPT !.status = "canceled"] \in SubRow
    BY <2>1 DEF SubRow
  <2> QED
    BY <1>2, <2>1, <2>2, BillingAssumption DEF CancelSub, TypeOK
<1>3. ASSUME NEW o \in Orgs, NEW p \in Plans, NEW c \in Cycles, UpsertSubscription(o, p, c)
      PROVE  sub'[o] # None /\ \A q \in Orgs : sub[q] # None => sub'[q] # None
  <2>1. LiveSub(o, p, c) \in SubRow
    BY DEF LiveSub, SubRow
  <2> QED
    BY <1>3, <2>1, BillingAssumption DEF UpsertSubscription, TypeOK
<1>4. ASSUME NEW h \in Handlers, Request(h) PROVE Persist
  <2>1. ASSUME NEW p \in Payments, CheckoutVerify(h, p) PROVE Persist
    <3>1. pay[p] \in PayRow
      BY <2>1 DEF CheckoutVerify, TypeOK
    <3> QED
      BY <2>1, <3>1, <1>1, <1>3 DEF CheckoutVerify, Persist, gateway, PayRow
  <2>2. ASSUME NEW p \in Payments, CheckoutVerifyRejected(h, p) PROVE Persist
    BY <2>2, <1>1 DEF CheckoutVerifyRejected, Persist, gateway, history
  <2> QED
    BY <1>4, <2>1, <2>2 DEF Request, Persist, PatchPlan, CheckoutCreate, ModifyBegin,
                             CancelBegin, DowngradeFree, rows, gateway, history
<1>5. ASSUME NEW h \in Handlers, Continue(h) PROVE Persist
  <2> USE JobShape DEF Persist, gateway, history
  <2>1. ASSUME NEW id \in Payments, CheckoutInsert(h, id) PROVE Persist
    BY <2>1 DEF CheckoutInsert, TypeOK
  <2>2. ASSUME WebhookSavePayment(h) PROVE Persist
    BY <2>2, <1>1 DEF WebhookSavePayment, WebhookJob, JobsAreBacked, RowsAreBacked, JobIsBacked
  <2>3. ASSUME WebhookSaveSub(h) PROVE Persist
    <3>1. job[h].pay \in Payments /\ pay[job[h].pay] \in PayRow
      BY <2>3 DEF WebhookSaveSub, WebhookJob, TypeOK, JobsAreBacked, RowsAreBacked, JobIsBacked
    <3> QED
      BY <2>3, <3>1, <1>3 DEF WebhookSaveSub, PayRow
  <2>4. ASSUME CancelSaveSub(h) PROVE Persist
    BY <2>4, <1>2 DEF CancelSaveSub, CancelJob, JobsAreBacked, JobIsBacked
  <2>5. ASSUME ModifyApplies(h) PROVE Persist
    BY <2>5 DEF ModifyApplies, rows, TypeOK
  <2>6. ASSUME ModifySaveSub(h) PROVE Persist
    BY <2>6, <1>2 DEF ModifySaveSub, SwitchJob, JobsAreBacked, JobIsBacked
  <2> QED
    BY <1>5, <2>1, <2>2, <2>3, <2>4, <2>5, <2>6
       DEF Continue, WebhookSaveOrg, CancelSaveOrg, ModifyReadSub, ModifyDoesNothing,
           ModifySaveOrg, rows
<1>6. ASSUME NEW h \in Handlers, NEW p \in Payments, Deliver(h, p) PROVE Persist
  <2>1. ASSUME WebhookFailed(h, p) PROVE Persist
    BY <2>1, <1>1 DEF WebhookFailed, Persist, history, JobsAreBacked, RowsAreBacked
  <2> QED
    BY <1>6, <2>1 DEF Deliver, WebhookSeesPaid, WebhookCaptured, Persist, rows, gateway, history
<1>7. ASSUME NEW p \in Payments, CustomerPays(p) \/ AttemptDeclined(p) PROVE Persist
  BY <1>7 DEF CustomerPays, AttemptDeclined, Persist, rows, history
<1>8. ASSUME NEW h \in Handlers, Abort(h) PROVE Persist
  BY <1>8 DEF Abort, Persist, rows, gateway, history
<1>9. CASE UNCHANGED vars
  BY <1>9 DEF vars, Persist, rows, gateway, history
<1> QED
  BY <1>4, <1>5, <1>6, <1>7, <1>8, <1>9 DEF Next

-----------------------------------------------------------------------------
(* The jobs of the threads *)

LEMMA RowsAreBackedStep == TypeOK /\ JobsAreBacked /\ [Next]_vars => RowsAreBacked'
<1> SUFFICES ASSUME TypeOK, JobsAreBacked, [Next]_vars PROVE RowsAreBacked'
  OBVIOUS
<1> USE Persistence, TypeStep DEF JobsAreBacked, RowsAreBacked, Persist, TypeOK, Event
<1>1. ASSUME NEW p \in Payments, CustomerPays(p) \/ AttemptDeclined(p) PROVE RowsAreBacked'
  BY <1>1 DEF CustomerPays, AttemptDeclined, rows
<1>2. ASSUME captured' = captured, outbox' \subseteq outbox PROVE RowsAreBacked'
  BY <1>2
<1>3. ASSUME NEW h \in Handlers, Request(h) PROVE RowsAreBacked'
  BY <1>2, <1>3 DEF Request, PatchPlan, CheckoutCreate, ModifyBegin, CheckoutVerify,
                    CheckoutVerifyRejected, CancelBegin, DowngradeFree, gateway
<1>4. ASSUME NEW h \in Handlers, Continue(h) PROVE RowsAreBacked'
  BY <1>2, <1>4 DEF Continue, CheckoutInsert, WebhookSavePayment, WebhookSaveSub,
                    WebhookSaveOrg, CancelSaveSub, CancelSaveOrg, ModifyReadSub,
                    ModifyApplies, ModifyDoesNothing, ModifySaveSub, ModifySaveOrg,
                    Acknowledge, gateway
<1>5. ASSUME NEW h \in Handlers, NEW p \in Payments, Deliver(h, p) PROVE RowsAreBacked'
  BY <1>2, <1>5 DEF Deliver, WebhookSeesPaid, WebhookCaptured, WebhookFailed,
                    Acknowledge, gateway
<1>6. ASSUME NEW h \in Handlers, Abort(h) PROVE RowsAreBacked'
  BY <1>2, <1>6 DEF Abort, gateway
<1>7. CASE UNCHANGED vars
  BY <1>2, <1>7 DEF vars, gateway
<1> QED
  BY <1>1, <1>3, <1>4, <1>5, <1>6, <1>7 DEF Next

\* A job no step touched stays backed, because nothing it rests on goes away.
LEMMA UntouchedJob ==
  ASSUME TypeOK, JobsAreBacked, [Next]_vars, NEW g \in Handlers, job'[g] = job[g]
  PROVE  JobIsBacked(g)'
<1>1. Persist
  BY Persistence
<1> QED
  BY <1>1, JobShape DEF JobIsBacked, JobsAreBacked, RowsAreBacked, Persist, WebhookJob,
                        CancelJob, ModifyJob, SwitchJob, TypeOK, PayRow

\* A thread whose job ended has nothing to back.
LEMMA IdleJob ==
  ASSUME TypeOK, NEW g \in Handlers, NEW h \in Handlers, Done(h)
  PROVE  job'[g] = job[g] \/ JobIsBacked(g)'
  BY DEF Done, TypeOK, Idle, JobIsBacked

LEMMA JobsAreBackedStep == TypeOK /\ JobsAreBacked /\ [Next]_vars => JobsAreBacked'
<1> SUFFICES ASSUME TypeOK, JobsAreBacked, [Next]_vars, NEW g \in Handlers
             PROVE  JobIsBacked(g)'
  BY RowsAreBackedStep DEF JobsAreBacked
<1> USE UntouchedJob, IdleJob DEF TypeOK, Take, Goto
<1>p. Persist
  BY Persistence
<1>1. ASSUME NEW h \in Handlers, Request(h) PROVE JobIsBacked(g)'
  <2>1. ASSUME NEW o \in Orgs, NEW p \in Plans, NEW c \in Cycles,
               CheckoutCreate(h, o, p, c) \/ ModifyBegin(h, o, p, c)
        PROVE  JobIsBacked(g)'
    BY <2>1 DEF CheckoutCreate, ModifyBegin, JobIsBacked
  <2>2. ASSUME NEW o \in Orgs, CancelBegin(h, o) PROVE JobIsBacked(g)'
    BY <2>2 DEF CancelBegin, JobIsBacked, rows
  <2> QED
    BY <1>1, <2>1, <2>2 DEF Request, PatchPlan, CheckoutVerify, CheckoutVerifyRejected,
                            DowngradeFree
<1>2. ASSUME NEW h \in Handlers, Continue(h) PROVE JobIsBacked(g)'
  <2> USE JobShape DEF JobsAreBacked, JobIsBacked
  <2>1. ASSUME WebhookSavePayment(h) PROVE JobIsBacked(g)'
    BY <2>1 DEF WebhookSavePayment, WebhookJob, gateway
  <2>2. ASSUME WebhookSaveSub(h) PROVE JobIsBacked(g)'
    <3>1. job[h].pay \in Payments /\ pay[job[h].pay] \in PayRow
      BY <2>2 DEF WebhookSaveSub, WebhookJob, RowsAreBacked
    <3>2. sub'[pay[job[h].pay].org] # None
      BY <2>2, <3>1, BillingAssumption
         DEF WebhookSaveSub, UpsertSubscription, LiveSub, SubRow, PayRow
    <3> QED
      BY <2>2, <3>1, <3>2 DEF WebhookSaveSub, WebhookJob, gateway
  <2>3. ASSUME CancelSaveSub(h) PROVE JobIsBacked(g)'
    BY <2>3 DEF CancelSaveSub, CancelJob
  <2>4. ASSUME ModifyReadSub(h) PROVE JobIsBacked(g)'
    <3> DEFINE c == IF sub[job[h].org] = None THEN None ELSE sub[job[h].org].cycle
    <3>1. job'[h].at = "modifyReadPlan" /\ job'[h].org = job[h].org /\ job'[h].subCycle = c
      BY <2>4 DEF ModifyReadSub, ModifyJob
    <3>2. sub' = sub /\ (g # h => job'[g] = job[g])
      BY <2>4 DEF ModifyReadSub, rows
    <3> QED
      BY <3>1, <3>2
  <2>5. ASSUME ModifyApplies(h) PROVE JobIsBacked(g)'
    <3>1. job[h] \in ModifyJob
      BY <2>5 DEF ModifyApplies
    <3>2. job[h].plan \in {Free} \cup gratis'[job[h].org]
      BY <2>5, <3>1 DEF ModifyApplies, AppliesAtOnce, ModifyJob
    <3> QED
      BY <2>5, <3>1, <3>2 DEF ModifyApplies, ModifyJob, rows
  <2>6. ASSUME ModifySaveSub(h) PROVE JobIsBacked(g)'
    BY <2>6 DEF ModifySaveSub, SwitchJob, history
  <2> QED
    BY <1>2, <2>1, <2>2, <2>3, <2>4, <2>5, <2>6
       DEF Continue, CheckoutInsert, WebhookSaveOrg, CancelSaveOrg, ModifyDoesNothing,
           ModifySaveOrg
<1>3. ASSUME NEW h \in Handlers, NEW p \in Payments, Deliver(h, p) PROVE JobIsBacked(g)'
  BY <1>3 DEF Deliver, WebhookSeesPaid, WebhookCaptured, WebhookFailed, JobIsBacked,
              JobsAreBacked, RowsAreBacked, gateway
<1>4. ASSUME NEW h \in Handlers, Abort(h) PROVE JobIsBacked(g)'
  BY <1>4 DEF Abort
<1>5. ASSUME NEW p \in Payments, CustomerPays(p) \/ AttemptDeclined(p) PROVE JobIsBacked(g)'
  BY <1>5 DEF CustomerPays, AttemptDeclined
<1>6. CASE UNCHANGED vars
  BY <1>6 DEF vars
<1> QED
  BY <1>1, <1>2, <1>3, <1>4, <1>5, <1>6 DEF Next

-----------------------------------------------------------------------------
(* Who writes the organization and the subscription *)

\* How a step may leave the plan of an organization: as it was, Free, given
\* free, or the plan of a settled payment of that organization whose
\* Subscription row is already written.
OrgMove(o) ==
  \/ org'[o].plan = org[o].plan
  \/ org'[o].plan \in {Free} \cup gratis[o]
  \/ \E p \in Payments : /\ Settled(p)
                         /\ pay[p].org = o
                         /\ org'[o].plan = pay[p].plan
                         /\ sub'[o] # None

\* How a step may leave a Subscription row.
SubMove(o) ==
  \/ sub'[o] = sub[o]
  \/ sub[o] # None /\ sub'[o].plan = sub[o].plan /\ sub'[o].cycle = sub[o].cycle
  \/ \E p \in Payments : /\ Settled(p)
                         /\ pay[p].org = o
                         /\ sub'[o].plan = pay[p].plan
                         /\ sub'[o].cycle = pay[p].cycle

LEMMA Moves ==
  ASSUME TypeOK, JobsAreBacked, [Next]_vars, NEW o \in Orgs
  PROVE  OrgMove(o) /\ SubMove(o)
<1> USE DEF TypeOK
<1>1. ASSUME org' = org, sub' = sub PROVE OrgMove(o) /\ SubMove(o)
  BY <1>1 DEF OrgMove, SubMove
<1>2. ASSUME NEW h \in Handlers, Request(h) PROVE OrgMove(o) /\ SubMove(o)
  <2>1. ASSUME NEW p \in Payments, CheckoutVerify(h, p) PROVE OrgMove(o) /\ SubMove(o)
    <3>1. Settled(p) /\ pay[p] \in PayRow
      BY <2>1 DEF CheckoutVerify, SignatureValid, Settled
    <3>2. LiveSub(pay[p].org, pay[p].plan, pay[p].cycle) \in SubRow
      BY <3>1 DEF LiveSub, SubRow, PayRow
    <3>3. CASE o = pay[p].org
      BY <2>1, <3>1, <3>2, <3>3, BillingAssumption
         DEF CheckoutVerify, UpsertSubscription, SaveOrg, LiveSub, OrgMove, SubMove
    <3>4. CASE o # pay[p].org
      BY <2>1, <3>1, <3>4
         DEF CheckoutVerify, UpsertSubscription, SaveOrg, OrgMove, SubMove
    <3> QED
      BY <3>3, <3>4
  <2>2. ASSUME NEW q \in Orgs, DowngradeFree(h, q) PROVE OrgMove(o) /\ SubMove(o)
    BY <2>2 DEF DowngradeFree, SaveOrg, OrgMove, SubMove
  <2> QED
    BY <1>1, <1>2, <2>1, <2>2 DEF Request, PatchPlan, CheckoutCreate, ModifyBegin,
                                  CheckoutVerifyRejected, CancelBegin, rows
<1>3. ASSUME NEW h \in Handlers, Continue(h) PROVE OrgMove(o) /\ SubMove(o)
  <2> USE JobShape DEF JobsAreBacked, JobIsBacked
  <2>0. ASSUME WebhookSaveSub(h) \/ WebhookSaveOrg(h)
        PROVE  Settled(job[h].pay) /\ job[h].pay \in Payments /\ pay[job[h].pay] \in PayRow
    BY <2>0 DEF WebhookSaveSub, WebhookSaveOrg, WebhookJob, Settled, RowsAreBacked
  <2>1. ASSUME WebhookSaveSub(h) PROVE OrgMove(o) /\ SubMove(o)
    BY <2>0, <2>1 DEF WebhookSaveSub, UpsertSubscription, LiveSub, PayRow, OrgMove, SubMove
  <2>2. ASSUME WebhookSaveOrg(h) PROVE OrgMove(o) /\ SubMove(o)
    BY <2>0, <2>2 DEF WebhookSaveOrg, SaveOrg, PayRow, OrgMove, SubMove
  <2>3. ASSUME NEW q \in Orgs, sub[q] # None, CancelSub(q), org' = org
        PROVE  OrgMove(o) /\ SubMove(o)
    <3>1. sub[q] \in SubRow
      BY <2>3
    <3> QED
      BY <2>3, <3>1 DEF CancelSub, SubRow, OrgMove, SubMove
  <2>4. ASSUME CancelSaveOrg(h) PROVE OrgMove(o) /\ SubMove(o)
    BY <2>4 DEF CancelSaveOrg, SaveOrg, CancelJob, OrgMove, SubMove
  <2>5. ASSUME ModifySaveOrg(h) PROVE OrgMove(o) /\ SubMove(o)
    BY <2>5 DEF ModifySaveOrg, SaveOrg, SwitchJob, OrgMove, SubMove
  <2>6. ASSUME CancelSaveSub(h) PROVE OrgMove(o) /\ SubMove(o)
    BY <2>3, <2>6 DEF CancelSaveSub, CancelJob
  <2>7. ASSUME ModifySaveSub(h) PROVE OrgMove(o) /\ SubMove(o)
    BY <2>3, <2>7 DEF ModifySaveSub, SwitchJob
  <2> QED
    BY <1>1, <1>3, <2>1, <2>2, <2>4, <2>5, <2>6, <2>7
       DEF Continue, CheckoutInsert, WebhookSavePayment, ModifyReadSub, ModifyApplies,
           ModifyDoesNothing, rows
<1>4. ASSUME NEW h \in Handlers, NEW p \in Payments, Deliver(h, p)
      PROVE  OrgMove(o) /\ SubMove(o)
  BY <1>1, <1>4 DEF Deliver, WebhookSeesPaid, WebhookCaptured, WebhookFailed, rows
<1>5. ASSUME NEW h \in Handlers, Abort(h) PROVE OrgMove(o) /\ SubMove(o)
  BY <1>1, <1>5 DEF Abort, rows
<1>6. ASSUME NEW p \in Payments, CustomerPays(p) \/ AttemptDeclined(p)
      PROVE  OrgMove(o) /\ SubMove(o)
  BY <1>1, <1>6 DEF CustomerPays, AttemptDeclined, rows
<1>7. CASE UNCHANGED vars
  BY <1>1, <1>7 DEF vars, rows
<1> QED
  BY <1>2, <1>3, <1>4, <1>5, <1>6, <1>7 DEF Next

-----------------------------------------------------------------------------
(* The invariants *)

LEMMA PlanIsEarnedStep ==
  TypeOK /\ JobsAreBacked /\ PlanIsEarned /\ [Next]_vars => PlanIsEarned'
<1> SUFFICES ASSUME TypeOK, JobsAreBacked, PlanIsEarned, [Next]_vars, NEW o \in Orgs
             PROVE  org'[o].plan \in {Free} \cup gratis'[o]
                      \cup {pay'[p].plan : p \in {q \in Payments : Settled(q)' /\ pay'[q].org = o}}
  BY DEF PlanIsEarned
<1>1. Persist /\ OrgMove(o)
  BY Persistence, Moves
<1>2. ASSUME NEW p \in Payments, Settled(p), pay[p].org = o
      PROVE  Settled(p)' /\ pay'[p].org = o /\ pay'[p].plan = pay[p].plan
  BY <1>1, <1>2 DEF Persist, Settled
<1>3. \/ org[o].plan \in {Free} \cup gratis[o]
      \/ \E p \in Payments : Settled(p) /\ pay[p].org = o /\ org[o].plan = pay[p].plan
  BY DEF PlanIsEarned
<1>4. \/ org'[o].plan \in {Free} \cup gratis[o]
      \/ \E p \in Payments : Settled(p) /\ pay[p].org = o /\ org'[o].plan = pay[p].plan
  BY <1>1, <1>3 DEF OrgMove
<1>5. CASE org'[o].plan \in {Free} \cup gratis[o]
  BY <1>1, <1>5 DEF Persist
<1>6. CASE \E p \in Payments : Settled(p) /\ pay[p].org = o /\ org'[o].plan = pay[p].plan
  BY <1>2, <1>6
<1> QED
  BY <1>4, <1>5, <1>6

LEMMA SubscriptionStep ==
  TypeOK /\ JobsAreBacked /\ SubscriptionFromOnePayment /\ [Next]_vars
    => SubscriptionFromOnePayment'
<1> SUFFICES ASSUME TypeOK, JobsAreBacked, SubscriptionFromOnePayment, [Next]_vars,
                    NEW o \in Orgs, sub'[o] # None
             PROVE  \E p \in Payments : /\ Settled(p)'
                                       /\ pay'[p].org = o
                                       /\ pay'[p].plan = sub'[o].plan
                                       /\ pay'[p].cycle = sub'[o].cycle
  BY DEF SubscriptionFromOnePayment
<1>1. Persist /\ SubMove(o)
  BY Persistence, Moves
<1>2. \E p \in Payments : /\ Settled(p)
                         /\ pay[p].org = o
                         /\ pay[p].plan = sub'[o].plan
                         /\ pay[p].cycle = sub'[o].cycle
  BY <1>1 DEF SubMove, SubscriptionFromOnePayment
<1> QED
  BY <1>1, <1>2 DEF Persist, Settled

LEMMA PaidPlanStep ==
  TypeOK /\ JobsAreBacked /\ PaidPlanHasSubscription /\ [Next]_vars
    => PaidPlanHasSubscription'
<1> SUFFICES ASSUME TypeOK, JobsAreBacked, PaidPlanHasSubscription, [Next]_vars,
                    NEW o \in Orgs, org'[o].plan \notin {Free} \cup gratis'[o]
             PROVE  sub'[o] # None
  BY DEF PaidPlanHasSubscription
<1>1. Persist /\ OrgMove(o)
  BY Persistence, Moves
<1> QED
  BY <1>1 DEF Persist, OrgMove, PaidPlanHasSubscription

LEMMA InitInvariant == Init => IInv
  BY BillingAssumption
     DEF Init, IInv, TypeOK, OrgRow, Idle, JobsAreBacked, RowsAreBacked,
         JobIsBacked, PlanIsEarned, SubscriptionFromOnePayment, PaidPlanHasSubscription,
         PlanRow

LEMMA InvariantStep == IInv /\ [Next]_vars => IInv'
  BY TypeStep, JobsAreBackedStep, PlanIsEarnedStep, SubscriptionStep, PaidPlanStep DEF IInv

THEOREM Invariant == Spec => []IInv
  BY InitInvariant, InvariantStep, PTL DEF Spec

\* Every variable keeps its type, whatever the interleaving.
THEOREM TypeCorrect == Spec => []TypeOK
  BY Invariant, PTL DEF IInv

\* Threads only ever work on what is there and was paid for.
THEOREM JobsBacked == Spec => []JobsAreBacked
  BY Invariant, PTL DEF IInv

\* No organization is ever on a plan that it neither paid for nor was given.
THEOREM PlansAreEarned == Spec => []PlanIsEarned
  BY Invariant, PTL DEF IInv

\* A paying organization always has a subscription row.
THEOREM PaidPlansHaveSubscription == Spec => []PaidPlanHasSubscription
  BY Invariant, PTL DEF IInv

-----------------------------------------------------------------------------
(* PAID payments are activated, but for those whose webhook died on the way *)

\* What has been activated, or was lost, stays recorded.
LEMMA ServedGrows == [Next]_vars => served \subseteq served' /\ dropped \subseteq dropped'
<1> DEFINE Grows == served \subseteq served' /\ dropped \subseteq dropped'
<1> SUFFICES ASSUME [Next]_vars PROVE Grows
  OBVIOUS
<1>1. ASSUME NEW h \in Handlers, Request(h) PROVE Grows
  BY <1>1 DEF Request, PatchPlan, CheckoutCreate, ModifyBegin, CheckoutVerify,
              CheckoutVerifyRejected, CancelBegin, DowngradeFree, history
<1>2. ASSUME NEW h \in Handlers, Continue(h) PROVE Grows
  BY <1>2 DEF Continue, CheckoutInsert, WebhookSavePayment, WebhookSaveSub,
              WebhookSaveOrg, CancelSaveSub, CancelSaveOrg, ModifyReadSub,
              ModifyApplies, ModifyDoesNothing, ModifySaveSub, ModifySaveOrg, history
<1> QED
  BY <1>1, <1>2 DEF Next, Deliver, WebhookSeesPaid, WebhookCaptured, WebhookFailed, Abort,
                    CustomerPays, AttemptDeclined, vars, history

\* A webhook thread that has marked its payment PAID activates it or dies.
LEMMA ActivationGoesOn ==
  ASSUME TypeOK, [Next]_vars,
         NEW g \in Handlers, NEW p, job[g].at \in LossyPoints, job[g].pay = p
  PROVE  \/ p \in served' \cup dropped'
         \/ job'[g].at \in LossyPoints /\ job'[g].pay = p
<1> USE JobShape DEF TypeOK, LossyPoints
<1>0. job[g] # Idle
  BY DEF Idle
<1>1. ASSUME NEW h \in Handlers, Request(h) PROVE job'[g] = job[g]
  BY <1>0, <1>1 DEF Request, PatchPlan, CheckoutCreate, ModifyBegin, CheckoutVerify,
              CheckoutVerifyRejected, CancelBegin, DowngradeFree, Take
<1>2. ASSUME NEW h \in Handlers, NEW q \in Payments, Deliver(h, q) PROVE job'[g] = job[g]
  BY <1>0, <1>2 DEF Deliver, WebhookSeesPaid, WebhookCaptured, WebhookFailed, Take
<1>3. ASSUME NEW h \in Handlers, Abort(h) PROVE job'[g] = job[g] \/ p \in dropped'
  BY <1>3 DEF Abort, Done
<1>4. ASSUME NEW h \in Handlers, Continue(h), h # g PROVE job'[g] = job[g]
  BY <1>4 DEF Continue, CheckoutInsert, WebhookSavePayment, WebhookSaveSub,
              WebhookSaveOrg, CancelSaveSub, CancelSaveOrg, ModifyReadSub,
              ModifyApplies, ModifyDoesNothing, ModifySaveSub, ModifySaveOrg,
              Take, Goto, Done
<1>5. ASSUME Continue(g) PROVE p \in served' \/ (job'[g].at \in LossyPoints /\ job'[g].pay = p)
  <2>1. WebhookSaveSub(g) \/ WebhookSaveOrg(g)
    BY <1>5 DEF Continue, CheckoutInsert, WebhookSavePayment, CancelSaveSub,
              CancelSaveOrg, ModifyReadSub, ModifyApplies, ModifyDoesNothing,
              ModifySaveSub, ModifySaveOrg
  <2> QED
    BY <2>1 DEF WebhookSaveSub, WebhookSaveOrg, Goto, WebhookJob
<1>6. ASSUME job' = job PROVE job'[g] = job[g]
  BY <1>6
<1> QED
  BY <1>1, <1>2, <1>3, <1>4, <1>5, <1>6
     DEF Next, CustomerPays, AttemptDeclined, vars

\* A payment becomes PAID in the step that activates it, or in the webhook
\* statement after which the same thread activates it.
LEMMA PaidIsServedStep ==
  ASSUME TypeOK, JobsAreBacked, PaidIsServed, [Next]_vars
  PROVE  PaidIsServed'
<1> SUFFICES ASSUME NEW p \in Payments, pay'[p] # None, pay'[p].status = "paid"
             PROVE  \/ p \in served' \cup dropped'
                    \/ \E h \in Handlers : job'[h].at \in LossyPoints /\ job'[h].pay = p
  BY DEF PaidIsServed
<1> USE JobShape DEF TypeOK, LossyPoints
<1>1. ASSUME NEW h \in Handlers, WebhookSavePayment(h), job[h].pay = p
      PROVE  job'[h].at \in LossyPoints /\ job'[h].pay = p
  BY <1>1 DEF WebhookSavePayment, Goto, WebhookJob
<1>2. served \subseteq served' /\ dropped \subseteq dropped'
  BY ServedGrows
<1>3. ASSUME NEW g \in Handlers, job[g].at \in LossyPoints, job[g].pay = p
      PROVE  \/ p \in served' \cup dropped'
             \/ job'[g].at \in LossyPoints /\ job'[g].pay = p
  BY <1>3, ActivationGoesOn
<1>4. \/ pay[p] # None /\ pay[p].status = "paid"
      \/ p \in served'
      \/ \E h \in Handlers : WebhookSavePayment(h) /\ job[h].pay = p
  <2>1. ASSUME NEW q \in Payments, NEW st \in {"paid", "failed"}, pay[q] # None, SavePay(q, st)
        PROVE  (pay[p] # None /\ pay[p].status = "paid") \/ (p = q /\ st = "paid")
    <3>1. CASE p # q
      BY <2>1, <3>1 DEF SavePay
    <3>2. CASE p = q
      BY <2>1, <3>2 DEF SavePay, PayRow
    <3> QED
      BY <3>1, <3>2
  <2>2. ASSUME pay' = pay PROVE pay[p] # None /\ pay[p].status = "paid"
    BY <2>2
  <2>3. ASSUME NEW h \in Handlers, Request(h)
        PROVE  (pay[p] # None /\ pay[p].status = "paid") \/ p \in served'
    BY <2>1, <2>2, <2>3 DEF Request, PatchPlan, CheckoutCreate, ModifyBegin, CheckoutVerify,
                CheckoutVerifyRejected, CancelBegin, DowngradeFree, rows
  <2>4. ASSUME NEW h \in Handlers, NEW id \in Payments, CheckoutInsert(h, id)
        PROVE  pay[p] # None /\ pay[p].status = "paid"
    BY <2>4 DEF CheckoutInsert, CheckoutJob
  <2>5. ASSUME NEW h \in Handlers, WebhookSavePayment(h)
        PROVE  (pay[p] # None /\ pay[p].status = "paid") \/ job[h].pay = p
    BY <2>1, <2>5 DEF WebhookSavePayment, WebhookJob, JobsAreBacked, RowsAreBacked, JobIsBacked
  <2>6. ASSUME NEW h \in Handlers, NEW q \in Payments, Deliver(h, q)
        PROVE  pay[p] # None /\ pay[p].status = "paid"
    BY <2>1, <2>2, <2>6 DEF Deliver, WebhookSeesPaid, WebhookCaptured, WebhookFailed,
                JobsAreBacked, RowsAreBacked, rows
  <2> QED
    BY <2>2, <2>3, <2>4, <2>5, <2>6
       DEF Next, Continue, Abort, CustomerPays, AttemptDeclined, vars, rows,
           WebhookSaveSub, WebhookSaveOrg, CancelSaveSub, CancelSaveOrg, ModifyReadSub,
           ModifyApplies, ModifyDoesNothing, ModifySaveSub, ModifySaveOrg
<1>5. CASE pay[p] # None /\ pay[p].status = "paid"
  BY <1>2, <1>3, <1>5 DEF PaidIsServed
<1> QED
  BY <1>1, <1>4, <1>5

\* No PAID payment is left without its activation but by a webhook that died in
\* the two statements after it set the status, wherever else requests die.
THEOREM PaidPaymentsAreServed == Spec => []PaidIsServed
<1>1. Init => PaidIsServed
  BY DEF Init, PaidIsServed
<1>2. IInv /\ PaidIsServed /\ [Next]_vars => PaidIsServed'
  BY PaidIsServedStep DEF IInv
<1> QED
  BY <1>1, <1>2, Invariant, PTL DEF Spec

-----------------------------------------------------------------------------
(* Money the gateway took *)

\* The gateway will report the payment again, or a thread is about to activate it.
IsPending(p) == \/ <<p, "captured">> \in outbox
                \/ \E h \in Handlers : job[h].at \in LossyPoints /\ job[h].pay = p

\* What CapturedIsServed rests on: money that bought nothing yet is not forgotten.
CapturedIsPending == \A p \in captured : p \in served \cup dropped \/ IsPending(p)

\* An event is acknowledged for a payment that is PAID already, or by the thread
\* that has just activated it.
LEMMA EventsStay ==
  ASSUME TypeOK, JobsAreBacked, [Next]_vars,
         NEW p \in Payments, <<p, "captured">> \in outbox, <<p, "captured">> \notin outbox'
  PROVE  (pay[p] # None /\ pay[p].status = "paid") \/ p \in served'
<1> USE DEF TypeOK
<1>0. pay[p] # None
  <2> DEFINE e == <<p, "captured">>
  <2>1. e \in outbox /\ e[1] = p
    OBVIOUS
  <2> HIDE DEF e
  <2> QED
    BY <2>1 DEF JobsAreBacked, RowsAreBacked
<1>1. ASSUME NEW h \in Handlers, NEW q \in Payments, Deliver(h, q)
      PROVE  pay[p].status = "paid"
  BY <1>1 DEF Deliver, WebhookSeesPaid, WebhookCaptured, WebhookFailed, Acknowledge, gateway
<1>2. ASSUME NEW h \in Handlers, WebhookSaveOrg(h) PROVE p \in served'
  BY <1>2 DEF WebhookSaveOrg, Acknowledge
<1>3. ASSUME NEW h \in Handlers, Continue(h) PROVE p \in served'
  BY <1>2, <1>3 DEF Continue, CheckoutInsert, WebhookSavePayment, WebhookSaveSub,
              CancelSaveSub, CancelSaveOrg, ModifyReadSub, ModifyApplies,
              ModifyDoesNothing, ModifySaveSub, ModifySaveOrg, gateway
<1>4. ASSUME NEW h \in Handlers, Request(h) PROVE outbox' = outbox
  BY <1>4 DEF Request, PatchPlan, CheckoutCreate, ModifyBegin, CheckoutVerify,
              CheckoutVerifyRejected, CancelBegin, DowngradeFree, gateway
<1> QED
  BY <1>0, <1>1, <1>3, <1>4 DEF Next, Abort, CustomerPays, AttemptDeclined, vars, gateway

LEMMA CapturedStep ==
  ASSUME TypeOK, JobsAreBacked, PaidIsServed, CapturedIsPending, [Next]_vars
  PROVE  CapturedIsPending'
<1> SUFFICES ASSUME NEW p \in captured', p \notin served' \cup dropped' PROVE IsPending(p)'
  BY DEF CapturedIsPending
<1>1. CASE \E h \in Handlers : job[h].at \in LossyPoints /\ job[h].pay = p
  BY <1>1, ActivationGoesOn DEF IsPending
<1>2. CASE p \notin captured
  <2>1. CustomerPays(p)
    BY <1>2 DEF Next, Request, PatchPlan, CheckoutCreate, ModifyBegin, CheckoutVerify,
                CheckoutVerifyRejected, CancelBegin, DowngradeFree, Continue, CheckoutInsert,
                WebhookSavePayment, WebhookSaveSub, WebhookSaveOrg, CancelSaveSub,
                CancelSaveOrg, ModifyReadSub, ModifyApplies, ModifyDoesNothing, ModifySaveSub,
                ModifySaveOrg, Abort, Deliver, WebhookSeesPaid, WebhookCaptured, WebhookFailed,
                AttemptDeclined, CustomerPays, vars, gateway
  <2> QED
    BY <2>1 DEF CustomerPays, IsPending
<1>3. CASE /\ p \in captured
           /\ ~\E h \in Handlers : job[h].at \in LossyPoints /\ job[h].pay = p
  <2>1. p \notin served \cup dropped /\ p \in Payments
    BY <1>3, ServedGrows DEF TypeOK
  <2>2. <<p, "captured">> \in outbox
    BY <1>3, <2>1 DEF CapturedIsPending, IsPending
  <2>3. ~(pay[p] # None /\ pay[p].status = "paid")
    BY <1>3, <2>1 DEF PaidIsServed
  <2>4. <<p, "captured">> \in outbox'
    BY <2>1, <2>2, <2>3, EventsStay
  <2> QED
    BY <2>4 DEF IsPending
<1> QED
  BY <1>1, <1>2, <1>3

\* A payment the gateway has captured is activated, or being activated, or will be
\* reported again, however often it was marked failed, verified or reported before
\* and wherever requests died, unless its own webhook died right after it set the
\* status (webhook(): PAID is answered at once; CheckoutVerifyAPI.post).
THEOREM CapturedIsNeverForgotten == Spec => []CapturedIsPending
<1>1. Init => CapturedIsPending
  BY DEF Init, CapturedIsPending
<1>2. TypeOK /\ JobsAreBacked /\ PaidIsServed /\ CapturedIsPending /\ [Next]_vars
        => CapturedIsPending'
  BY CapturedStep
<1>3. Spec => []PaidIsServed
  BY PaidPaymentsAreServed
<1> QED
  BY <1>1, <1>2, <1>3, TypeCorrect, JobsBacked, PTL DEF Spec

-----------------------------------------------------------------------------
(* The books *)

\* What BooksAgree says of one organization.
BooksOf(o) == IsPaidFor(o) => /\ org[o].status = "active"
                              /\ sub[o] # None
                              /\ sub[o].status = "active"
                              /\ sub[o].plan = org[o].plan

\* The thread will make o's plan the one its Subscription already has.
ActivatesOn(h, o) == /\ sub[o] # None
                     /\ sub[o].status = "active"
                     /\ sub[o].plan = pay[job[h].pay].plan

IsHookOn(h, o) == job[h].at = "hookOrg" /\ pay[job[h].pay].org = o

\* BooksAgree speaks of organizations at rest.  Until the first accident, the
\* books of an organization are in order or a thread is between the two writes,
\* and if that is a webhook it will make the plan what the Subscription says.
BooksHold(o) ==
  o \notin torn => /\ BooksOf(o) \/ ~AtRest(o)
                   /\ \A h \in Handlers : IsHookOn(h, o) => ActivatesOn(h, o)

BooksInv == \A o \in Orgs : BooksHold(o)

\* Splits and IsHookOn look at a thread's job and the terms of its payment, which
\* a step of another thread leaves alone.
LEMMA OthersSplit ==
  ASSUME TypeOK, JobsAreBacked, [Next]_vars, NEW g \in Handlers, job'[g] = job[g], NEW o
  PROVE  /\ Splits(g, o)' <=> Splits(g, o)
         /\ IsHookOn(g, o)' <=> IsHookOn(g, o)
         /\ job[g].at = "hookOrg" => pay'[job[g].pay].plan = pay[job[g].pay].plan
<1>1. job[g].at = "hookOrg" => /\ pay'[job[g].pay].org = pay[job[g].pay].org
                               /\ pay'[job[g].pay].plan = pay[job[g].pay].plan
  BY Persistence, JobShape DEF Persist, WebhookJob, JobsAreBacked, RowsAreBacked, JobIsBacked
<1> QED
  BY <1>1 DEF Splits, IsHookOn

\* A step that leaves the rows of o alone, by a thread that was not between them.
LEMMA BooksStay ==
  ASSUME TypeOK, JobsAreBacked, [Next]_vars, NEW o \in Orgs, BooksHold(o), o \notin torn,
         NEW h \in Handlers, ~Splits(h, o), ~IsHookOn(h, o)',
         \A g \in Handlers : g # h => job'[g] = job[g],
         org'[o] = org[o], sub'[o] = sub[o]
  PROVE  BooksHold(o)'
<1>1. gratis[o] \subseteq gratis'[o]
  BY Persistence DEF Persist
<1>2. BooksOf(o) => BooksOf(o)'
  BY <1>1 DEF BooksOf, IsPaidFor
<1>3. ~AtRest(o) => ~AtRest(o)'
  BY OthersSplit DEF AtRest
<1>4. ASSUME NEW g \in Handlers, IsHookOn(g, o)' PROVE ActivatesOn(g, o)'
  <2>1. g # h /\ job'[g] = job[g]
    BY <1>4
  <2>2. IsHookOn(g, o) /\ pay'[job[g].pay].plan = pay[job[g].pay].plan
    BY <1>4, <2>1, OthersSplit DEF IsHookOn
  <2> QED
    BY <2>1, <2>2 DEF BooksHold, ActivatesOn
<1> QED
  BY <1>2, <1>3, <1>4 DEF BooksHold

\* A step that writes a row of o while no other thread is between the two.
LEMMA BooksWritten ==
  ASSUME TypeOK, JobsAreBacked, [Next]_vars, NEW o \in Orgs,
         NEW h \in Handlers, ~SplitByOther(h, o),
         \A g \in Handlers : g # h => job'[g] = job[g],
         BooksOf(o)' \/ Splits(h, o)', IsHookOn(h, o)' => ActivatesOn(h, o)'
  PROVE  BooksHold(o)'
<1>1. ASSUME NEW g \in Handlers, IsHookOn(g, o)' PROVE g = h
  <2> SUFFICES ASSUME g # h PROVE FALSE
    OBVIOUS
  <2>1. Splits(g, o)'
    BY <1>1 DEF IsHookOn, Splits
  <2> QED
    BY <2>1, OthersSplit DEF SplitByOther
<1> QED
  BY <1>1 DEF BooksHold, AtRest

LEMMA BooksContinue ==
  ASSUME TypeOK, JobsAreBacked, [Next]_vars, NEW o \in Orgs, BooksHold(o), o \notin torn',
         NEW h \in Handlers, Continue(h)
  PROVE  BooksHold(o)'
<1> USE JobShape DEF TypeOK
<1>1. ASSUME NEW p \in Payments, CheckoutInsert(h, p) PROVE BooksHold(o)'
  BY <1>1, BooksStay DEF CheckoutInsert, Done, Idle, history, Splits, IsHookOn
<1>2. ASSUME WebhookSavePayment(h) PROVE BooksHold(o)'
  <2>1. job'[h].at = "hookSub"
    BY <1>2 DEF WebhookSavePayment, Goto, WebhookJob
  <2> QED
    BY <1>2, <2>1, BooksStay DEF WebhookSavePayment, Goto, history, Splits, IsHookOn
<1>3. ASSUME WebhookSaveSub(h) PROVE BooksHold(o)'
  <2> DEFINE row == pay[job[h].pay]
  <2>1. row \in PayRow /\ job[h].pay \in Payments
    BY <1>3 DEF WebhookSaveSub, WebhookJob, JobsAreBacked, JobIsBacked, RowsAreBacked
  <2>2. /\ job'[h].at = "hookOrg" /\ job'[h].pay = job[h].pay /\ pay' = pay
        /\ \A g \in Handlers : g # h => job'[g] = job[g]
    BY <1>3 DEF WebhookSaveSub, Goto, WebhookJob
  <2>3. /\ sub' = [sub EXCEPT ![row.org] = LiveSub(row.org, row.plan, row.cycle)]
        /\ LiveSub(row.org, row.plan, row.cycle) # None /\ row.org \in Orgs
    <3>1. LiveSub(row.org, row.plan, row.cycle) \in SubRow
      BY <2>1 DEF LiveSub, SubRow, PayRow
    <3> QED
      BY <1>3, <2>1, <3>1, BillingAssumption DEF WebhookSaveSub, UpsertSubscription, PayRow
  <2>4. CASE row.org = o
    <3>1. ~SplitByOther(h, o)
      BY <1>3, <2>4 DEF WebhookSaveSub, Tears
    <3>2. Splits(h, o)' /\ ActivatesOn(h, o)'
      BY <2>2, <2>3, <2>4 DEF Splits, ActivatesOn, LiveSub
    <3> QED
      BY <2>2, <3>1, <3>2, BooksWritten
  <2>5. CASE row.org # o
    <3>1. ~Splits(h, o) /\ ~IsHookOn(h, o)'
      BY <1>3, <2>2, <2>5 DEF WebhookSaveSub, Splits, IsHookOn
    <3>2. o \notin torn /\ org'[o] = org[o] /\ sub'[o] = sub[o]
      BY <1>3, <2>3, <2>5 DEF WebhookSaveSub, Tears
    <3> QED
      BY <2>2, <3>1, <3>2, BooksStay
  <2> QED
    BY <2>4, <2>5
<1>4. ASSUME WebhookSaveOrg(h) PROVE BooksHold(o)'
  <2> DEFINE row == pay[job[h].pay]
  <2>1. row \in PayRow
    BY <1>4 DEF WebhookSaveOrg, WebhookJob, JobsAreBacked, JobIsBacked, RowsAreBacked
  <2>2. /\ org' = [org EXCEPT ![row.org] = [plan |-> row.plan, status |-> "active"]]
        /\ sub' = sub /\ row.org \in Orgs /\ o \notin torn
        /\ job'[h].at = "idle" /\ \A g \in Handlers : g # h => job'[g] = job[g]
    BY <1>4, <2>1 DEF WebhookSaveOrg, SaveOrg, PayRow, Done, Idle, Tears
  <2>3. ~IsHookOn(h, o)'
    BY <2>2 DEF IsHookOn
  <2>4. CASE row.org = o
    <3>1. ~SplitByOther(h, o)
      BY <1>4, <2>4 DEF WebhookSaveOrg, Tears
    <3>2. ActivatesOn(h, o)
      BY <1>4, <2>2, <2>4 DEF WebhookSaveOrg, BooksHold, IsHookOn
    <3>3. BooksOf(o)'
      BY <2>2, <2>4, <3>2 DEF BooksOf, ActivatesOn
    <3> QED
      BY <2>2, <2>3, <3>1, <3>3, BooksWritten
  <2>5. CASE row.org # o
    BY <1>4, <2>2, <2>3, <2>5, BooksStay DEF WebhookSaveOrg, Splits
  <2> QED
    BY <2>4, <2>5
<1>5. ASSUME CancelSaveSub(h) \/ ModifySaveSub(h) PROVE BooksHold(o)'
  <2>1. /\ job'[h].at \in {"cancelOrg", "modifyOrg"} /\ job'[h].org = job[h].org
        /\ \A g \in Handlers : g # h => job'[g] = job[g]
    BY <1>5 DEF CancelSaveSub, ModifySaveSub, Goto, CancelJob, SwitchJob
  <2>2. ~IsHookOn(h, o)' /\ o \notin torn
    BY <1>5, <2>1 DEF IsHookOn, CancelSaveSub, ModifySaveSub, Tears
  <2>3. CASE job[h].org = o
    BY <1>5, <2>1, <2>2, <2>3, BooksWritten DEF CancelSaveSub, ModifySaveSub, Tears, Splits
  <2>4. CASE job[h].org # o
    <3>1. ~Splits(h, o)
      BY <1>5 DEF CancelSaveSub, ModifySaveSub, Splits
    <3>2. org'[o] = org[o] /\ sub'[o] = sub[o]
      BY <1>5, <2>4 DEF CancelSaveSub, ModifySaveSub, CancelSub
    <3> QED
      BY <2>1, <2>2, <3>1, <3>2, BooksStay
  <2> QED
    BY <2>3, <2>4
<1>6. ASSUME CancelSaveOrg(h) \/ ModifySaveOrg(h) PROVE BooksHold(o)'
  <2>1. /\ job[h] \in CancelJob \cup SwitchJob /\ job[h].at \in {"cancelOrg", "modifyOrg"}
        /\ sub' = sub /\ gratis' = gratis /\ job'[h].at = "idle" /\ o \notin torn
        /\ \A g \in Handlers : g # h => job'[g] = job[g]
    BY <1>6 DEF CancelSaveOrg, ModifySaveOrg, Done, Idle, Tears
  <2>2. PICK p \in {Free} \cup gratis[job[h].org], st \in {"active", "canceled"} :
          org' = [org EXCEPT ![job[h].org] = [plan |-> p, status |-> st]]
    BY <1>6 DEF CancelSaveOrg, ModifySaveOrg, SaveOrg, JobsAreBacked, JobIsBacked
  <2>3. ~IsHookOn(h, o)'
    BY <2>1 DEF IsHookOn
  <2>4. CASE job[h].org = o
    <3>1. ~SplitByOther(h, o)
      BY <1>6, <2>4 DEF CancelSaveOrg, ModifySaveOrg, Tears
    <3>2. BooksOf(o)'
      BY <2>1, <2>2, <2>4 DEF BooksOf, IsPaidFor
    <3> QED
      BY <2>1, <2>3, <3>1, <3>2, BooksWritten
  <2>5. CASE job[h].org # o
    <3>1. ~Splits(h, o)
      BY <2>1, <2>5 DEF Splits
    <3>2. org'[o] = org[o] /\ sub'[o] = sub[o]
      BY <2>1, <2>2, <2>5
    <3> QED
      BY <2>1, <2>3, <3>1, <3>2, BooksStay
  <2> QED
    BY <2>4, <2>5
<1>7. ASSUME ModifyReadSub(h) \/ ModifyApplies(h) \/ ModifyDoesNothing(h) PROVE BooksHold(o)'
  <2>1. job[h] \in ModifyJob
    BY <1>7 DEF ModifyReadSub, ModifyApplies, ModifyDoesNothing
  <2>2. job'[h].at \in {"modifyReadPlan", "modifyOrg", "modifySub", "idle"}
    <3>1. CASE ModifyReadSub(h)
      <4>1. job'[h] = [job[h] EXCEPT !.at = "modifyReadPlan", !.subCycle = job'[h].subCycle]
        BY <2>1, <3>1 DEF ModifyReadSub, Take, ModifyJob
      <4> QED
        BY <2>1, <4>1 DEF ModifyJob
    <3>2. CASE ModifyApplies(h) \/ ModifyDoesNothing(h)
      BY <3>2 DEF ModifyApplies, ModifyDoesNothing, Take, Done, Idle
    <3> QED
      BY <1>7, <3>1, <3>2
  <2>3. ~Splits(h, o) /\ ~IsHookOn(h, o)'
    BY <1>7, <2>2 DEF ModifyReadSub, ModifyApplies, ModifyDoesNothing, Splits, IsHookOn
  <2>4. UNCHANGED <<org, sub, torn>> /\ \A g \in Handlers : g # h => job'[g] = job[g]
    BY <1>7 DEF ModifyReadSub, ModifyApplies, ModifyDoesNothing, rows, history, Take, Done
  <2> QED
    BY <2>3, <2>4, BooksStay
<1> QED
  BY <1>1, <1>2, <1>3, <1>4, <1>5, <1>6, <1>7 DEF Continue

LEMMA BooksRequest ==
  ASSUME TypeOK, JobsAreBacked, [Next]_vars, NEW o \in Orgs, BooksHold(o), o \notin torn',
         NEW h \in Handlers, Request(h)
  PROVE  BooksHold(o)'
<1> USE DEF TypeOK
<1>1. ASSUME NEW p \in Payments, CheckoutVerify(h, p) PROVE BooksHold(o)'
  <2>1. pay[p] \in PayRow /\ job[h] = Idle /\ job' = job /\ ~Splits(h, o) /\ ~IsHookOn(h, o)'
    BY <1>1 DEF CheckoutVerify, Idle, Splits, IsHookOn
  <2>2. LiveSub(pay[p].org, pay[p].plan, pay[p].cycle) # None
    <3>1. LiveSub(pay[p].org, pay[p].plan, pay[p].cycle) \in SubRow
      BY <2>1 DEF LiveSub, SubRow, PayRow
    <3> QED
      BY <3>1, BillingAssumption
  <2>3. CASE pay[p].org = o
    <3>1. ~SplitByOther(h, o)
      BY <1>1, <2>3 DEF CheckoutVerify, Mends
    <3>2. BooksOf(o)'
      BY <1>1, <2>1, <2>2, <2>3
      DEF CheckoutVerify, UpsertSubscription, LiveSub, SaveOrg, PayRow, BooksOf
    <3> QED
      BY <2>1, <3>1, <3>2, BooksWritten
  <2>4. CASE pay[p].org # o
    <3>1. o \notin torn /\ org'[o] = org[o] /\ sub'[o] = sub[o]
      BY <1>1, <2>1, <2>4
      DEF CheckoutVerify, Mends, UpsertSubscription, SaveOrg, PayRow
    <3> QED
      BY <2>1, <3>1, BooksStay
  <2> QED
    BY <2>3, <2>4
<1>2. ASSUME NEW q \in Orgs, DowngradeFree(h, q) PROVE BooksHold(o)'
  <2>1. job' = job /\ sub' = sub /\ ~Splits(h, o) /\ ~IsHookOn(h, o)' /\ o \notin torn
    BY <1>2 DEF DowngradeFree, Idle, Splits, IsHookOn, Tears
  <2>2. CASE q = o
    <3>1. ~SplitByOther(h, o) /\ BooksOf(o)'
      BY <1>2, <2>2 DEF DowngradeFree, Tears, SaveOrg, BooksOf, IsPaidFor
    <3> QED
      BY <2>1, <3>1, BooksWritten
  <2>3. CASE q # o
    BY <1>2, <2>1, <2>3, BooksStay DEF DowngradeFree, SaveOrg
  <2> QED
    BY <2>2, <2>3
<1>3. ASSUME job[h] = Idle, job'[h].at # "hookOrg", UNCHANGED <<org, sub, torn>>,
             \A g \in Handlers : g # h => job'[g] = job[g]
      PROVE BooksHold(o)'
  BY <1>3, BooksStay DEF Idle, Splits, IsHookOn
<1> QED
  BY <1>1, <1>2, <1>3
  DEF Request, PatchPlan, CheckoutCreate, ModifyBegin, CheckoutVerifyRejected, CancelBegin,
      Take, Idle, rows, history

LEMMA BooksStep == TypeOK /\ JobsAreBacked /\ BooksInv /\ [Next]_vars => BooksInv'
<1> SUFFICES ASSUME TypeOK, JobsAreBacked, BooksInv, [Next]_vars, NEW o \in Orgs, o \notin torn'
             PROVE  BooksHold(o)'
  BY DEF BooksInv, BooksHold
<1> USE DEF TypeOK
<1>0. BooksHold(o)
  BY DEF BooksInv
<1>1. ASSUME NEW h \in Handlers, NEW p \in Payments, Deliver(h, p) PROVE BooksHold(o)'
  <2>1. ~Splits(h, o) /\ ~IsHookOn(h, o)' /\ UNCHANGED <<org, sub, torn>>
    BY <1>1 DEF Deliver, WebhookSeesPaid, WebhookCaptured, WebhookFailed, Take, Idle, rows,
                history, Splits, IsHookOn
  <2>2. \A g \in Handlers : g # h => job'[g] = job[g]
    BY <1>1 DEF Deliver, WebhookSeesPaid, WebhookCaptured, WebhookFailed, Take
  <2> QED
    BY <1>0, <2>1, <2>2, BooksStay
<1>2. ASSUME NEW h \in Handlers, Abort(h) PROVE BooksHold(o)'
  <2>1. ~Splits(h, o) /\ ~IsHookOn(h, o)' /\ o \notin torn /\ UNCHANGED <<org, sub>>
    BY <1>2 DEF Abort, Done, Idle, rows, IsHookOn
  <2>2. \A g \in Handlers : g # h => job'[g] = job[g]
    BY <1>2 DEF Abort, Done
  <2> QED
    BY <1>0, <2>1, <2>2, BooksStay
<1>3. CASE UNCHANGED <<org, sub, pay, job, gratis, torn>>
  BY <1>0, <1>3 DEF BooksHold, BooksOf, IsPaidFor, AtRest, Splits, IsHookOn, ActivatesOn
<1> QED
  BY <1>0, <1>1, <1>2, <1>3, BooksContinue, BooksRequest
  DEF Next, CustomerPays, AttemptDeclined, vars, rows, history

THEOREM BooksInvariant == Spec => []BooksInv
<1>1. Init => BooksInv
  BY DEF Init, BooksInv, BooksHold, BooksOf, IsPaidFor, IsHookOn, Idle
<1>2. IInv /\ BooksInv /\ [Next]_vars => BooksInv'
  BY BooksStep DEF IInv
<1> QED
  BY <1>1, <1>2, Invariant, PTL DEF Spec

\* For any number of threads, organizations and payments, wherever requests die:
\* only a request that died between its two writes, or one that wrote between the
\* two of another, leaves Organization and Subscription in disagreement, until a
\* checkout is verified (_activate_subscription, SubscriptionCancelAPI, ModifyAPI).
THEOREM BooksAlwaysAgree == Spec => []BooksAgree
<1>1. BooksInv => BooksAgree
  BY DEF BooksInv, BooksHold, BooksAgree, BooksOf
<1> QED
  BY <1>1, BooksInvariant, PTL

\* Under the same accidents only, the plan and the cycle that limit_status
\* combines were not bought together by one payment.
THEOREM LimitsAlwaysBought == Spec => []LimitsAreBought
<1>1. BooksAgree /\ SubscriptionFromOnePayment => LimitsAreBought
  BY DEF BooksAgree, SubscriptionFromOnePayment, LimitsAreBought, BillingCycleOf
<1> QED
  BY <1>1, BooksAlwaysAgree, Invariant, PTL DEF IInv

-----------------------------------------------------------------------------
(* Billing implements the ledger of Entitlement *)

Abs == [o \in Orgs |-> org[o].plan]

\* Grants in the form the steps below use.
LEMMA GrantsMember ==
  ASSUME NEW o \in Orgs, NEW p \in Plans
  PROVE  <<o, p>> \in Grants <=>
           \/ p \in gratis[o]
           \/ \E q \in Payments : Settled(q) /\ pay[q].org = o /\ pay[q].plan = p
  BY DEF Grants

\* A step that settles nothing and offers nothing leaves the grants alone.
LEMMA GrantsFixed ==
  ASSUME Persist, gratis' = gratis, captured' = captured,
         \A q \in Payments : pay'[q] # None => pay[q] # None
  PROVE  Grants' = Grants
<1>1. \A q \in Payments : Settled(q)' <=> Settled(q)
  BY DEF Settled, Persist
<1>2. \A q \in Payments : Settled(q) => pay'[q].org = pay[q].org /\ pay'[q].plan = pay[q].plan
  BY DEF Settled, Persist
<1>3. {<<pay'[q].org, pay'[q].plan>> : q \in {r \in Payments : Settled(r)'}}
        = {<<pay[q].org, pay[q].plan>> : q \in {r \in Payments : Settled(r)}}
  BY <1>1, <1>2
<1> QED
  BY <1>3 DEF Grants

\* What a step does to one organization's plan is a move of the ledger.
LEMMA SaveIsLedgerStep ==
  ASSUME TypeOK, Grants' = Grants, NEW o \in Orgs, NEW p \in Plans,
         NEW st, SaveOrg(o, p, st), p = Free \/ <<o, p>> \in Grants
  PROVE  Ledger!Next
<1>1. Abs' = [Abs EXCEPT ![o] = p]
  BY DEF Abs, SaveOrg, TypeOK
<1> QED
  BY <1>1 DEF Ledger!Next, Ledger!Drop, Ledger!Raise, Abs

\* A step that only earns grants for one organization and plan.
LEMMA EarnIsLedgerStep ==
  ASSUME TypeOK, org' = org, NEW o \in Orgs, NEW p \in Plans,
         Grants' = Grants \cup {<<o, p>>}
  PROVE  Ledger!Next
  BY DEF Ledger!Next, Ledger!Earn

LEMMA LedgerStep == IInv /\ [Next]_vars => [Ledger!Next]_Ledger!vars
<1> SUFFICES ASSUME TypeOK, JobsAreBacked, [Next]_vars PROVE [Ledger!Next]_Ledger!vars
  BY DEF IInv
<1> DEFINE Moved == [Ledger!Next]_Ledger!vars
<1>0. Persist
  BY Persistence
<1>1. ASSUME org' = org, Grants' = Grants PROVE Moved
  BY <1>1 DEF Ledger!vars
<1>2. ASSUME gratis' = gratis, captured' = captured,
             \A q \in Payments : pay'[q] # None => pay[q] # None
      PROVE  Grants' = Grants
  BY <1>0, <1>2, GrantsFixed
<1>3. ASSUME NEW q \in Payments, NEW st, SavePay(q, st), pay[q] # None
      PROVE  \A r \in Payments : pay'[r] # None => pay[r] # None
  BY <1>3 DEF SavePay, TypeOK
<1> HIDE DEF Moved
<1>4. ASSUME NEW h \in Handlers, Request(h) PROVE Moved
  <2>1. ASSUME NEW q \in Payments, CheckoutVerify(h, q) PROVE Moved
    <3>1. Settled(q) /\ pay[q].org \in Orgs /\ pay[q].plan \in Plans
      BY <2>1 DEF CheckoutVerify, SignatureValid, Settled, TypeOK, PayRow
    <3>2. Grants' = Grants
      BY <2>1, <1>2, <1>3 DEF CheckoutVerify, gateway
    <3>3. <<pay[q].org, pay[q].plan>> \in Grants
      BY <3>1, GrantsMember
    <3> QED
      BY <2>1, <3>1, <3>2, <3>3, SaveIsLedgerStep DEF CheckoutVerify, Moved
  <2>2. ASSUME NEW q \in Payments, CheckoutVerifyRejected(h, q) PROVE Moved
    BY <2>2, <1>1, <1>2, <1>3 DEF CheckoutVerifyRejected, gateway, history
  <2>3. ASSUME NEW o \in Orgs, DowngradeFree(h, o) PROVE Moved
    BY <2>3, <1>2, SaveIsLedgerStep, BillingAssumption
       DEF DowngradeFree, gateway, history, Moved
  <2> QED
    BY <1>1, <1>2, <1>4, <2>1, <2>2, <2>3
       DEF Request, PatchPlan, CheckoutCreate, ModifyBegin, CancelBegin, rows, gateway, history
<1>5. ASSUME NEW h \in Handlers, Continue(h) PROVE Moved
  <2> USE JobShape
  <2>1. ASSUME NEW id \in Payments, CheckoutInsert(h, id) PROVE Moved
    <3> DEFINE row == [org |-> job[h].org, plan |-> job[h].plan, cycle |-> job[h].cycle,
                       status |-> "created"]
    <3>1. job[h].org \in Orgs /\ job[h].plan \in Plans /\ row \in PayRow
      BY <2>1 DEF CheckoutInsert, CheckoutJob, PayRow
    <3>2. pay[id] = None /\ pay' = [pay EXCEPT ![id] = row] /\ captured' = captured
            /\ gratis' = gratis /\ org' = org
      BY <2>1 DEF CheckoutInsert, gateway, history
    <3> HIDE DEF row
    <3>3. pay'[id] = row /\ row # None /\ \A q \in Payments : q # id => pay'[q] = pay[q]
      BY <3>1, <3>2, BillingAssumption DEF TypeOK
    <3>4. ~Settled(id) /\ id \notin captured
      BY <3>2 DEF Settled, JobsAreBacked, RowsAreBacked
    <3>5. \A q \in Payments : q # id => (Settled(q)' <=> Settled(q))
      BY <3>2, <3>3 DEF Settled
    <3>6. Settled(id)' <=> Demo
      BY <3>2, <3>3, <3>4 DEF Settled
    <3>7. CASE Demo
      <4>1. {q \in Payments : Settled(q)'} = {q \in Payments : Settled(q)} \cup {id}
        BY <3>4, <3>5, <3>6, <3>7
      <4>2. Grants' = Grants \cup {<<row.org, row.plan>>}
        BY <3>2, <3>3, <3>4, <4>1 DEF Grants
      <4>3. row.org = job[h].org /\ row.plan = job[h].plan
        BY DEF row
      <4> QED
        BY <3>1, <3>2, <4>2, <4>3, EarnIsLedgerStep DEF Moved
    <3>8. CASE ~Demo
      <4>1. {q \in Payments : Settled(q)'} = {q \in Payments : Settled(q)}
        BY <3>4, <3>5, <3>6, <3>8
      <4>2. Grants' = Grants
        BY <3>2, <3>3, <3>4, <4>1 DEF Grants
      <4> QED
        BY <1>1, <3>2, <4>2
    <3> QED
      BY <3>7, <3>8
  <2>2. ASSUME WebhookSavePayment(h) PROVE Moved
    BY <2>2, <1>1, <1>2, <1>3
       DEF WebhookSavePayment, WebhookJob, JobsAreBacked, RowsAreBacked, JobIsBacked,
           gateway, history
  <2>3. ASSUME WebhookSaveOrg(h) PROVE Moved
    <3> DEFINE q == job[h].pay
    <3>1. q \in Payments /\ Settled(q) /\ pay[q].org \in Orgs /\ pay[q].plan \in Plans
      BY <2>3 DEF WebhookSaveOrg, WebhookJob, Settled, JobsAreBacked, RowsAreBacked,
                  JobIsBacked, TypeOK, PayRow
    <3>2. Grants' = Grants
      BY <2>3, <1>2 DEF WebhookSaveOrg
    <3>3. <<pay[q].org, pay[q].plan>> \in Grants
      BY <3>1, GrantsMember
    <3> QED
      BY <2>3, <3>1, <3>2, <3>3, SaveIsLedgerStep DEF WebhookSaveOrg, Moved
  <2>4. ASSUME CancelSaveOrg(h) PROVE Moved
    BY <2>4, <1>2, SaveIsLedgerStep, BillingAssumption
       DEF CancelSaveOrg, CancelJob, gateway, history, Moved
  <2>5. ASSUME ModifySaveOrg(h) PROVE Moved
    <3>1. /\ job[h].org \in Orgs /\ job[h].plan \in Plans
          /\ job[h].plan \in {Free} \cup gratis[job[h].org]
      BY <2>5 DEF ModifySaveOrg, SwitchJob, JobsAreBacked, JobIsBacked
    <3>2. job[h].plan = Free \/ <<job[h].org, job[h].plan>> \in Grants
      BY <3>1, GrantsMember
    <3> QED
      BY <2>5, <3>1, <3>2, <1>2, SaveIsLedgerStep DEF ModifySaveOrg, gateway, history, Moved
  <2>6. ASSUME ModifyApplies(h) PROVE Moved
    <3> DEFINE o == job[h].org
               p == job[h].plan
               G == {x \in {p} \ {Free} : catalogue[x].free}
    <3>1. o \in Orgs /\ p \in Plans
      BY <2>6 DEF ModifyApplies, ModifyJob
    <3>2. org' = org /\ pay' = pay /\ captured' = captured /\ gratis' = [gratis EXCEPT ![o] = @ \cup G]
      BY <2>6 DEF ModifyApplies, rows, gateway
    <3>3. \A q \in Payments : Settled(q)' <=> Settled(q)
      BY <3>2 DEF Settled
    <3>4. ASSUME NEW g \in Orgs \X Plans
          PROVE  g[2] \in gratis'[g[1]] <=> (g[2] \in gratis[g[1]] \/ (g[1] = o /\ g[2] \in G))
      BY <3>1, <3>2, <3>4 DEF TypeOK
    <3> HIDE DEF G, o, p
    <3>a. G = {} \/ G = {p}
      BY DEF G
    <3>b. {g \in Orgs \X Plans : g[2] \in gratis'[g[1]]}
            = {g \in Orgs \X Plans : g[2] \in gratis[g[1]]} \cup {<<o, x>> : x \in G}
      BY <3>1, <3>4, <3>a
    <3>5. {r \in Payments : Settled(r)'} = {r \in Payments : Settled(r)}
      BY <3>3
    <3>6. Grants' = Grants \cup {<<o, x>> : x \in G}
      BY <3>2, <3>5, <3>b DEF Grants
    <3>7. Grants' = Grants \/ Grants' = Grants \cup {<<o, p>>}
      BY <3>6, <3>a
    <3> QED
      BY <1>1, <3>1, <3>2, <3>7, EarnIsLedgerStep DEF Moved
  <2> QED
    BY <1>1, <1>2, <1>5, <2>1, <2>2, <2>3, <2>4, <2>5, <2>6
       DEF Continue, WebhookSaveSub, CancelSaveSub, ModifyReadSub, ModifyDoesNothing,
           ModifySaveSub, rows, gateway, history
<1>6. ASSUME NEW h \in Handlers, NEW q \in Payments, Deliver(h, q) PROVE Moved
  <2>1. ASSUME WebhookFailed(h, q) PROVE Moved
    BY <2>1, <1>1, <1>2, <1>3 DEF WebhookFailed, history, JobsAreBacked, RowsAreBacked
  <2> QED
    BY <1>1, <1>2, <1>6, <2>1
       DEF Deliver, WebhookSeesPaid, WebhookCaptured, rows, gateway, history
<1>7. ASSUME NEW q \in Payments, CustomerPays(q) PROVE Moved
  <2>1. /\ ~Demo /\ pay[q] # None /\ captured' = captured \cup {q}
        /\ pay' = pay /\ org' = org /\ gratis' = gratis
        /\ pay[q].org \in Orgs /\ pay[q].plan \in Plans
    BY <1>7 DEF CustomerPays, rows, history, TypeOK, PayRow
  <2>2. {r \in Payments : Settled(r)'} = {r \in Payments : Settled(r)} \cup {q}
    BY <2>1 DEF Settled
  <2>3. Grants' = Grants \cup {<<pay[q].org, pay[q].plan>>}
    BY <2>1, <2>2 DEF Grants
  <2> QED
    BY <2>1, <2>3, EarnIsLedgerStep DEF Moved
<1>8. ASSUME NEW q \in Payments, AttemptDeclined(q) PROVE Moved
  BY <1>8, <1>1, <1>2 DEF AttemptDeclined, rows, history
<1>9. ASSUME NEW h \in Handlers, Abort(h) PROVE Moved
  BY <1>9, <1>1, <1>2 DEF Abort, rows, gateway, history
<1>10. ASSUME UNCHANGED vars PROVE Moved
  BY <1>10, <1>1, <1>2 DEF vars, rows, gateway, history
<1>11. Moved
  BY <1>4, <1>5, <1>6, <1>7, <1>8, <1>9, <1>10 DEF Next
<1> QED
  BY <1>11 DEF Moved

LEMMA LedgerInit == Init => Ledger!Init
  BY DEF Init, Ledger!Init, Grants, Settled

\* Every behaviour of the handlers, the gateway and the administrator is a
\* behaviour of the ledger of grants.
THEOREM BillingImplementsLedger == Spec => ImplementsLedger
  BY LedgerInit, LedgerStep, Invariant, PTL DEF Spec, ImplementsLedger, Ledger!Spec
=============================================================================
