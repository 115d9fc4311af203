------------------------------ MODULE Billing ------------------------------
(* The billing app: the Plan, Organization, Subscription and Payment rows,   *)
(* the request handlers of billing/api.py, the Razorpay webhook, and the     *)
(* gateway they talk to.                                                     *)
(*                                                                           *)
(* The project sets no ATOMIC_REQUESTS, so every ORM statement commits on    *)
(* its own and requests served by different threads interleave between       *)
(* statements.  A handler is therefore a thread with a job: one action per   *)
(* statement that reads or writes a row, the local variables of the handler  *)
(* kept in job[h].  A handler whose reads cannot change what it writes (and  *)
(* the block under transaction.atomic()) is a single action.  Permission     *)
(* checks only reject requests; they change no row and are not repeated.     *)
EXTENDS Integers, FiniteSets

CONSTANTS
  Orgs,        \* organizations, the tenants
  Plans,       \* keys of the Plan table
  Free,        \* Plan.Key.FREE, the plan of a new organization
  Cycles,      \* Subscription.Cycle
  Monthly,     \* Subscription.Cycle.MONTHLY
  Payments,    \* ids available for Payment rows (bounds the checkouts)
  Handlers,    \* server threads
  None,        \* no row
  Offers,      \* what the administrator may set a plan to (bounds the patches)
  Unreliable,  \* payments of which the gateway may decline an attempt (a bound)
  Demo,        \* TRUE when no Razorpay keys are configured
  AbortPoints  \* the statements before which a request may die

PlanRow == [free : BOOLEAN, public : BOOLEAN]
OrgRow  == [plan : Plans, status : {"active", "canceled"}]
SubRow  == [plan : Plans, cycle : Cycles, status : {"active", "canceled"}]
PayRow  == [org : Orgs, plan : Plans, cycle : Cycles,
            status : {"created", "paid", "failed"}]

ASSUME BillingAssumption == /\ Free \in Plans
                            /\ Monthly \in Cycles
                            /\ Offers \subseteq PlanRow
                            /\ Unreliable \subseteq Payments
                            /\ None \notin Cycles \cup SubRow \cup PayRow
                            /\ Demo \in BOOLEAN

VARIABLES
  catalogue,  \* [plan -> is it priced zero, is it public]
  org,        \* [organization -> its row]
  sub,        \* [organization -> its Subscription row, or None]
  pay,        \* [id -> Payment row, or None]
  captured,   \* the orders the gateway has taken money for
  outbox,     \* webhook events the gateway has not seen acknowledged
  job,        \* [handler -> the request it is serving]
  gratis,     \* history: other plans an organization was given at price zero
  served,     \* history: payments whose activation ran to its end
  dropped,    \* history: payments whose webhook died after it marked them PAID
  torn        \* history: organizations whose two rows two requests may have left

rows    == <<catalogue, org, sub, pay>>
gateway == <<captured, outbox>>
history == <<gratis, served, dropped, torn>>
vars    == <<rows, gateway, job, history>>

-----------------------------------------------------------------------------
(* State *)

Event   == Payments \X {"captured", "failed"}

\* What a thread holds between two statements; "at" is the next statement.
Idle        == [at |-> "idle"]
CheckoutJob == [at : {"insert"}, org : Orgs, plan : Plans, cycle : Cycles]
WebhookJob  == [at : {"hookPay", "hookSub", "hookOrg"}, pay : Payments]
CancelJob   == [at : {"cancelSub", "cancelOrg"}, org : Orgs]
ModifyJob   == [at : {"modifyReadSub", "modifyReadPlan"},
                org : Orgs, plan : Plans, cycle : Cycles,
                ownPlan : Plans, subCycle : Cycles \cup {None}]
SwitchJob   == [at : {"modifySub", "modifyOrg"}, org : Orgs, plan : Plans]

TypeOK == /\ catalogue \in [Plans -> PlanRow]
          /\ org \in [Orgs -> OrgRow]
          /\ sub \in [Orgs -> SubRow \cup {None}]
          /\ pay \in [Payments -> PayRow \cup {None}]
          /\ captured \subseteq Payments
          /\ outbox \subseteq Event
          /\ job \in [Handlers -> {Idle} \cup CheckoutJob \cup WebhookJob
                                    \cup CancelJob \cup ModifyJob \cup SwitchJob]
          /\ gratis \in [Orgs -> SUBSET Plans]
          /\ served \subseteq Payments
          /\ dropped \subseteq Payments
          /\ torn \subseteq Orgs

\* Organizations have just signed up (SignupSerializer.create); the plans are
\* seeded, each public, only the Free plan priced at zero.
Init == /\ catalogue = [p \in Plans |-> [free |-> p = Free, public |-> TRUE]]
        /\ org = [o \in Orgs |-> [plan |-> Free, status |-> "active"]]
        /\ sub = [o \in Orgs |-> None]
        /\ pay = [p \in Payments |-> None]
        /\ captured = {}
        /\ outbox = {}
        /\ job = [h \in Handlers |-> Idle]
        /\ gratis = [o \in Orgs |-> {}]
        /\ served = {}
        /\ dropped = {}
        /\ torn = {}

-----------------------------------------------------------------------------
(* Row updates shared by the handlers *)

Take(h, j) == job' = [job EXCEPT ![h] = j]
Goto(h, l) == job' = [job EXCEPT ![h].at = l]
Done(h)    == job' = [job EXCEPT ![h] = Idle]

\* save(update_fields=["plan", "subscription_status"]): one UPDATE, both columns.
SaveOrg(o, p, st) == org' = [org EXCEPT ![o] = [plan |-> p, status |-> st]]

\* (mutant) A new subscription waits for its first renewal.
PastDueSub(o, p, c) == [plan |-> p, cycle |-> c, status |-> "past_due"]

\* The row update_or_create leaves, whether it inserts or overwrites.
LiveSub(o, p, c) == [plan |-> p, cycle |-> c, status |-> "active"]

\* (mutant) billing_cycle is missing from the defaults: a new row gets the
\* column's default, an existing one keeps what it has.
UpsertKeepsCycle(o, p, c) ==
  sub' = [sub EXCEPT ![o] = LiveSub(o, p, IF sub[o] = None THEN Monthly ELSE sub[o].cycle)]

\* First half of _activate_subscription: update_or_create, one transaction.
UpsertSubscription(o, p, c) == sub' = [sub EXCEPT ![o] = LiveSub(o, p, c)]

\* (mutant) A canceled subscription is deleted.
CancelDeletesSub(o) == sub' = [sub EXCEPT ![o] = None]

\* subscription.status = CANCELED, saved with update_fields.
CancelSub(o) == sub' = [sub EXCEPT ![o].status = "canceled"]

SavePay(p, st) == pay' = [pay EXCEPT ![p].status = st]

\* The response to a webhook: the gateway drops the event, or never sees the
\* response and will deliver again.
Acknowledge(e) == outbox' \in {outbox, outbox \ {e}}

\* billing_cycle_of: whatever row there is counts, canceled or not.
BillingCycleOf(o) == IF sub[o] = None THEN Monthly ELSE sub[o].cycle

-----------------------------------------------------------------------------
(* History: what an organization's two rows went through.  Nothing reads it  *)
(* but the properties.                                                       *)

\* The thread is between its write of o's Subscription and its write of o.
Splits(h, o) == \/ job[h].at = "hookOrg" /\ pay[job[h].pay].org = o
                \/ job[h].at \in {"cancelOrg", "modifyOrg"} /\ job[h].org = o

SplitByOther(h, o) == \E g \in Handlers \ {h} : Splits(g, o)

\* h writes one of o's rows, perhaps while another thread is between the two.
Tears(h, o) == torn' = torn \cup {q \in {o} : SplitByOther(h, q)}

\* h writes both rows in one transaction.
Mends(h, o) == torn' = (torn \ {o}) \cup {q \in {o} : SplitByOther(h, q)}

-----------------------------------------------------------------------------
(* The platform administrator *)

\* PlanAdminDetailAPI.patch: is_free (both prices zero) and is_public of one plan.
\* The serializer saves the whole row, so a patch that raced with another may
\* write any mix of the two.
PatchPlan(h, p, row) ==
  /\ job[h] = Idle
  /\ catalogue' = [catalogue EXCEPT ![p] = row]
  /\ UNCHANGED <<org, sub, pay, gateway, job, history>>

-----------------------------------------------------------------------------
(* The gateway (external): an order can be attempted once its id was         *)
(* returned, an attempt may be declined before one is captured, and events   *)
(* stay in the outbox until an acknowledgement arrives, in any order.        *)

CustomerPays(p) ==
  /\ ~Demo
  /\ pay[p] # None
  /\ p \notin captured
  /\ captured' = captured \cup {p}
  /\ outbox' = outbox \cup {<<p, "captured">>}
  /\ UNCHANGED <<rows, job, history>>

AttemptDeclined(p) ==
  /\ ~Demo
  /\ p \in Unreliable
  /\ pay[p] # None
  /\ p \notin captured
  /\ outbox' = outbox \cup {<<p, "failed">>}
  /\ UNCHANGED <<rows, captured, job, history>>

-----------------------------------------------------------------------------
(* CheckoutCreateAPI *)

\* The bound on Payment ids: a checkout starts only if one is left for it.
RoomForPayment ==
  Cardinality({h \in Handlers : job[h].at = "insert"})
    < Cardinality({p \in Payments : pay[p] = None})

CheckoutCreate(h, o, p, c) ==
  /\ job[h] = Idle
  /\ RoomForPayment
  /\ catalogue[p].public
  /\ ~catalogue[p].free
  /\ Take(h, [at |-> "insert", org |-> o, plan |-> p, cycle |-> c])
  /\ UNCHANGED <<rows, gateway, history>>

\* The gateway has answered with an order; the Payment row is created.
CheckoutInsert(h, id) ==
  /\ job[h].at = "insert"
  /\ pay[id] = None
  /\ pay' = [pay EXCEPT ![id] = [org |-> job[h].org, plan |-> job[h].plan,
                                 cycle |-> job[h].cycle, status |-> "created"]]
  /\ Done(h)
  /\ UNCHANGED <<catalogue, org, sub, gateway, history>>

-----------------------------------------------------------------------------
(* CheckoutVerifyAPI *)

\* (mutant) The signature is not checked.
SignatureIgnored(p) == TRUE

\* verify_payment_signature: Razorpay signs for an order it has captured; in
\* demo mode there is nothing to check.
SignatureValid(p) == Demo \/ p \in captured

\* The block under transaction.atomic().  The status of the row is not looked
\* at: a second call for the same payment activates again.
CheckoutVerify(h, p) ==
  /\ job[h] = Idle
  /\ pay[p] # None
  /\ SignatureValid(p)
  /\ SavePay(p, "paid")
  /\ UpsertSubscription(pay[p].org, pay[p].plan, pay[p].cycle)
  /\ SaveOrg(pay[p].org, pay[p].plan, "active")
  /\ served' = served \cup {p}
  /\ Mends(h, pay[p].org)
  /\ UNCHANGED <<catalogue, gateway, job, gratis, dropped>>

\* A call without a valid signature, e.g. verify({}) when the checkout script
\* did not load: the row is marked failed, whatever it was.
CheckoutVerifyRejected(h, p) ==
  /\ job[h] = Idle
  /\ pay[p] # None
  /\ ~Demo
  /\ SavePay(p, "failed")
  /\ UNCHANGED <<catalogue, org, sub, gateway, job, history>>

-----------------------------------------------------------------------------
(* webhook(): payment.captured is four statements, payment.failed is one *)

\* The payment is loaded; a row already PAID is answered at once.
WebhookSeesPaid(h, p) ==
  /\ job[h] = Idle
  /\ <<p, "captured">> \in outbox
  /\ pay[p].status = "paid"
  /\ Acknowledge(<<p, "captured">>)
  /\ UNCHANGED <<rows, captured, job, history>>

\* (mutant) Only a CREATED payment is activated: one that failed before is not.
WebhookCreatedOnly(h, p) ==
  /\ job[h] = Idle
  /\ <<p, "captured">> \in outbox
  /\ pay[p].status = "created"
  /\ Take(h, [at |-> "hookPay", pay |-> p])
  /\ UNCHANGED <<rows, gateway, history>>

WebhookCaptured(h, p) ==
  /\ job[h] = Idle
  /\ <<p, "captured">> \in outbox
  /\ pay[p].status # "paid"
  /\ Take(h, [at |-> "hookPay", pay |-> p])
  /\ UNCHANGED <<rows, gateway, history>>

\* (mutant) The activation after the save is forgotten.
WebhookOnlyMarksPaid(h) ==
  /\ job[h].at = "hookPay"
  /\ SavePay(job[h].pay, "paid")
  /\ Done(h)
  /\ UNCHANGED <<catalogue, org, sub, gateway, history>>

WebhookSavePayment(h) ==
  /\ job[h].at = "hookPay"
  /\ SavePay(job[h].pay, "paid")
  /\ Goto(h, "hookSub")
  /\ UNCHANGED <<catalogue, org, sub, gateway, history>>

WebhookSaveSub(h) ==
  /\ job[h].at = "hookSub"
  /\ LET row == pay[job[h].pay] IN UpsertSubscription(row.org, row.plan, row.cycle)
  /\ Tears(h, pay[job[h].pay].org)
  /\ Goto(h, "hookOrg")
  /\ UNCHANGED <<catalogue, org, pay, gateway, gratis, served, dropped>>

WebhookSaveOrg(h) ==
  /\ job[h].at = "hookOrg"
  /\ LET row == pay[job[h].pay] IN SaveOrg(row.org, row.plan, "active")
  /\ served' = served \cup {job[h].pay}
  /\ Tears(h, pay[job[h].pay].org)
  /\ Acknowledge(<<job[h].pay, "captured">>)
  /\ Done(h)
  /\ UNCHANGED <<catalogue, sub, pay, captured, gratis, dropped>>

\* payment.failed: an UPDATE that looks at nothing but the order id.
WebhookFailed(h, p) ==
  /\ job[h] = Idle
  /\ <<p, "failed">> \in outbox
  /\ SavePay(p, "failed")
  /\ Acknowledge(<<p, "failed">>)
  /\ UNCHANGED <<catalogue, org, sub, captured, job, history>>

-----------------------------------------------------------------------------
(* SubscriptionCancelAPI *)

\* The Subscription row is looked up before anything is written.
CancelBegin(h, o) ==
  /\ job[h] = Idle
  /\ Take(h, [at |-> IF sub[o] = None THEN "cancelOrg" ELSE "cancelSub", org |-> o])
  /\ UNCHANGED <<rows, gateway, history>>

CancelSaveSub(h) ==
  /\ job[h].at = "cancelSub"
  /\ CancelSub(job[h].org)
  /\ Tears(h, job[h].org)
  /\ Goto(h, "cancelOrg")
  /\ UNCHANGED <<catalogue, org, pay, gateway, gratis, served, dropped>>

\* (mutant) Only the status is set; the plan stays.
CancelKeepsPlan(h) ==
  /\ job[h].at = "cancelOrg"
  /\ SaveOrg(job[h].org, org[job[h].org].plan, "canceled")
  /\ Tears(h, job[h].org)
  /\ Done(h)
  /\ UNCHANGED <<catalogue, sub, pay, gateway, gratis, served, dropped>>

CancelSaveOrg(h) ==
  /\ job[h].at = "cancelOrg"
  /\ SaveOrg(job[h].org, Free, "canceled")
  /\ Tears(h, job[h].org)
  /\ Done(h)
  /\ UNCHANGED <<catalogue, sub, pay, gateway, gratis, served, dropped>>

-----------------------------------------------------------------------------
(* SubscriptionModifyAPI: three reads, then a decision *)

ModifyBegin(h, o, p, c) ==
  /\ job[h] = Idle
  /\ Take(h, [at |-> "modifyReadSub", org |-> o, plan |-> p, cycle |-> c,
              ownPlan |-> org[o].plan, subCycle |-> None])
  /\ UNCHANGED <<rows, gateway, history>>

ModifyReadSub(h) ==
  /\ job[h].at = "modifyReadSub"
  /\ LET row == sub[job[h].org]
     IN  Take(h, [job[h] EXCEPT !.at = "modifyReadPlan",
                                !.subCycle = IF row = None THEN None ELSE row.cycle])
  /\ UNCHANGED <<rows, gateway, history>>

NoChange(j) == /\ j.plan = j.ownPlan
               /\ \/ j.subCycle = None
                  \/ j.subCycle = j.cycle
                  \/ catalogue[j.plan].free

\* Only a switch to a plan priced zero is applied here; a paid plan is left to
\* the checkout ("requires_checkout").
AppliesAtOnce(j) == /\ catalogue[j.plan].public
                    /\ ~NoChange(j)
                    /\ catalogue[j.plan].free

ModifyApplies(h) ==
  /\ job[h].at = "modifyReadPlan"
  /\ AppliesAtOnce(job[h])
  /\ Take(h, [at |-> IF job[h].subCycle = None THEN "modifyOrg" ELSE "modifySub",
              org |-> job[h].org, plan |-> job[h].plan])
  /\ gratis' = [gratis EXCEPT ![job[h].org] =
                 @ \cup {p \in {job[h].plan} \ {Free} : catalogue[p].free}]
  /\ UNCHANGED <<rows, gateway, served, dropped, torn>>

ModifyDoesNothing(h) ==
  /\ job[h].at = "modifyReadPlan"
  /\ ~AppliesAtOnce(job[h])
  /\ Done(h)
  /\ UNCHANGED <<rows, gateway, history>>

ModifySaveSub(h) ==
  /\ job[h].at = "modifySub"
  /\ CancelSub(job[h].org)
  /\ Tears(h, job[h].org)
  /\ Goto(h, "modifyOrg")
  /\ UNCHANGED <<catalogue, org, pay, gateway, gratis, served, dropped>>

ModifySaveOrg(h) ==
  /\ job[h].at = "modifyOrg"
  /\ SaveOrg(job[h].org, job[h].plan, "active")
  /\ Tears(h, job[h].org)
  /\ Done(h)
  /\ UNCHANGED <<catalogue, sub, pay, gateway, gratis, served, dropped>>

-----------------------------------------------------------------------------
\* DowngradeFreeAPI: the Subscription row is not touched.
DowngradeFree(h, o) ==
  /\ job[h] = Idle
  /\ SaveOrg(o, Free, "active")
  /\ Tears(h, o)
  /\ UNCHANGED <<catalogue, sub, pay, gateway, job, gratis, served, dropped>>

\* The statements at which a dying webhook loses an activation: the payment is
\* already PAID, so the redelivered event is answered without activating.
LossyPoints == {"hookSub", "hookOrg"}

\* The request dies before its next statement: the process is killed, or the
\* statement raises ("database is locked").  What was committed stays.
Abort(h) ==
  /\ job[h].at \in AbortPoints
  /\ Done(h)
  /\ dropped' = IF job[h].at \in LossyPoints THEN dropped \cup {job[h].pay} ELSE dropped
  /\ torn' = torn \cup {o \in Orgs : Splits(h, o)}
  /\ UNCHANGED <<rows, gateway, gratis, served>>

-----------------------------------------------------------------------------
\* A request that arrives at an idle thread.
Request(h) ==
  \/ \E p \in Plans, row \in Offers : PatchPlan(h, p, row)
  \/ \E o \in Orgs, p \in Plans, c \in Cycles :
       CheckoutCreate(h, o, p, c) \/ ModifyBegin(h, o, p, c)
  \/ \E p \in Payments :
       \/ CheckoutVerify(h, p)
       \/ CheckoutVerifyRejected(h, p)
  \/ \E o \in Orgs : CancelBegin(h, o) \/ DowngradeFree(h, o)

\* A webhook event handed to an idle thread.
Deliver(h, p) == \/ WebhookSeesPaid(h, p)
                 \/ WebhookCaptured(h, p)
                 \/ WebhookFailed(h, p)

\* The next statement of the request a thread is serving.
Continue(h) == \/ \E p \in Payments : CheckoutInsert(h, p)
               \/ WebhookSavePayment(h) \/ WebhookSaveSub(h) \/ WebhookSaveOrg(h)
               \/ CancelSaveSub(h) \/ CancelSaveOrg(h)
               \/ ModifyReadSub(h) \/ ModifyApplies(h) \/ ModifyDoesNothing(h)
               \/ ModifySaveSub(h) \/ ModifySaveOrg(h)

Next == \/ \E h \in Handlers : Request(h) \/ Continue(h) \/ Abort(h)
        \/ \E h \in Handlers, p \in Payments : Deliver(h, p)
        \/ \E p \in Payments : CustomerPays(p) \/ AttemptDeclined(p)

Spec == Init /\ [][Next]_vars

\* Requests stop dying at some point; a thread then runs its request to the
\* end, and the task queue of the server is first-in first-out: a delivery that
\* keeps being offered gets a thread.
FairSpec == /\ Spec
            /\ <>[][\A h \in Handlers : ~Abort(h)]_vars
            /\ \A h \in Handlers : WF_vars(Continue(h))
            /\ \A p \in Payments :
                 SF_vars(\E h \in Handlers : WebhookCaptured(h, p) \/ WebhookSeesPaid(h, p))

-----------------------------------------------------------------------------
(* Properties *)

\* The payment behind a grant is settled: the gateway took the money, or the
\* deployment runs in demo mode, where a checkout is all there is.
Settled(p) == pay[p] # None /\ (Demo \/ p \in captured)

\* An organization is never on a plan nobody paid for: its plan is Free, or was
\* given to it while priced zero, or is the plan of a settled payment of its
\* own -- however verify, webhook, cancel and modify requests interleave and
\* wherever they die (_activate_subscription, SubscriptionModifyAPI).
PlanIsEarned ==
  \A o \in Orgs :
    org[o].plan \in {Free} \cup gratis[o]
      \cup {pay[p].plan : p \in {q \in Payments : Settled(q) /\ pay[q].org = o}}

\* An organization on a plan it paid for has a Subscription row, also when the
\* activation died half-way: billing_cycle_of never falls back to "monthly"
\* for a paying organization (_activate_subscription writes the row first).
PaidPlanHasSubscription ==
  \A o \in Orgs : org[o].plan \notin {Free} \cup gratis[o] => sub[o] # None

\* A PAID payment has been activated, or a thread is still on its way to do it,
\* or its webhook died in the two statements between: nothing else loses an
\* activation, and what those deaths lose stays lost to every redelivery
\* (webhooks.py:39-43).
PaidIsServed ==
  \A p \in Payments :
    pay[p] # None /\ pay[p].status = "paid" =>
      \/ p \in served \cup dropped
      \/ \E h \in Handlers : job[h].at \in LossyPoints /\ job[h].pay = p

\* What an organization is on because it paid for it.
IsPaidFor(o) == org[o].plan \notin {Free} \cup gratis[o]

\* No thread is between the two writes of the organization.
AtRest(o) == \A h \in Handlers : ~Splits(h, o)

\* The books agree: an organization on a plan it paid for has an active status
\* and an active Subscription for that very plan.  Only a request that died
\* between its two writes, or one that wrote while another was between them,
\* can leave it otherwise, and the next checkout verified on its own makes it
\* right again (_activate_subscription, SubscriptionCancelAPI, ModifyAPI).
BooksAgree ==
  \A o \in Orgs \ torn : AtRest(o) /\ IsPaidFor(o) =>
    /\ org[o].status = "active"
    /\ sub[o] # None
    /\ sub[o].status = "active"
    /\ sub[o].plan = org[o].plan

\* The plan of the Organization and the cycle of the Subscription, which
\* limit_status multiplies into the number of cases (access.py:60-63), were
\* bought together by one settled payment: nobody gets the yearly bonus of a
\* plan paid by the month but by the accidents recorded in torn.
LimitsAreBought ==
  \A o \in Orgs \ torn : AtRest(o) /\ IsPaidFor(o) =>
    \E p \in Payments : /\ Settled(p)
                       /\ pay[p].org = o
                       /\ pay[p].plan = org[o].plan
                       /\ pay[p].cycle = BillingCycleOf(o)

\* The claim of access.py:48-50 and README.md:134-136: only a live Subscription
\* makes the limits of an organization above the Free plan the yearly ones.
LimitsAreLive ==
  \A o \in Orgs : AtRest(o) /\ org[o].plan # Free /\ BillingCycleOf(o) # Monthly =>
    sub[o].status = "active"

\* Money the gateway took buys something: every captured payment is activated
\* in the end, by the browser's verify call or by the webhook, whichever
\* failures are reported in between, unless its own webhook died right after
\* marking it PAID (needs FairSpec and a webhook secret).
CapturedIsServed == \A p \in Payments : p \in captured ~> p \in served \cup dropped

\* The grants an organization holds: settled payments and plans given free.
Grants == {<<pay[p].org, pay[p].plan>> : p \in {q \in Payments : Settled(q)}}
            \cup {g \in Orgs \X Plans : g[2] \in gratis[g[1]]}

\* Refinement: the plan of an organization moves only as the ledger of grants
\* allows, one settled payment or one free offer at a time.
Ledger == INSTANCE Entitlement WITH plan   <- [o \in Orgs |-> org[o].plan],
                                    grants <- Grants

ImplementsLedger == Ledger!Spec

\* The inductive invariant behind the properties: money and events belong to
\* existing rows; a webhook thread works for a captured payment and has written
\* the Subscription before it writes the Organization; a row a thread is about
\* to cancel is there; a modify request was granted the plan it writes.
JobIsBacked(h) ==
  /\ job[h].at \in {"hookPay", "hookSub", "hookOrg"} => job[h].pay \in captured
  /\ job[h].at = "hookOrg" => sub[pay[job[h].pay].org] # None
  /\ job[h].at \in {"cancelSub", "modifySub"} => sub[job[h].org] # None
  /\ job[h].at \in {"modifySub", "modifyOrg"} =>
       job[h].plan \in {Free} \cup gratis[job[h].org]
  /\ job[h].at = "modifyReadPlan" /\ job[h].subCycle # None => sub[job[h].org] # None

RowsAreBacked == /\ \A p \in captured : pay[p] # None
                 /\ \A e \in outbox : /\ pay[e[1]] # None
                                      /\ e[2] = "captured" => e[1] \in captured

JobsAreBacked == RowsAreBacked /\ \A h \in Handlers : JobIsBacked(h)

\* The plan and the cycle of a Subscription row come from one settled payment.
SubscriptionFromOnePayment ==
  \A o \in Orgs : sub[o] # None =>
    \E p \in Payments : /\ Settled(p)
                       /\ pay[p].org = o
                       /\ pay[p].plan = sub[o].plan
                       /\ pay[p].cycle = sub[o].cycle

IInv == /\ TypeOK
        /\ JobsAreBacked
        /\ PlanIsEarned
        /\ SubscriptionFromOnePayment
        /\ PaidPlanHasSubscription

=============================================================================
