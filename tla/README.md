# Agamya CyberTech DFS in TLA+

Specifications of the server behind the forensic suite in `src/`: a Django
project that keeps cases and browser evidence for several organizations, sells
plans through Razorpay, and runs either on a shared server or inside a desktop
window. The modules here describe what its requests do to the database, the
evidence store and the payment gateway, statement by statement; TLC checks them
on small instances and TLAPS proves the invariants for instances of any size.

To check a run: `tlc -config BillingRace.cfg MCBilling.tla`. To check the
proofs: `tlapm BillingProofs.tla` (also `CasesProofs.tla`, `EvidenceProofs.tla`,
`EvidenceCountProofs.tla`, `TrailProofs.tla`, `AccountsProofs.tla`, `IntakeProofs.tla`).
`PROJECT.json` lists the runs, the source lines behind every definition, the
hazards, the theorems, and for every property a mutation of the code that it
catches; the mutated forms stand in the modules, marked `(mutant)`, just before
the definition they mutate.

## The system

| Part | Source | State | Operations | Module |
|---|---|---|---|---|
| Billing | `billing/api.py`, `webhooks.py`, `models.py`, `razorpay_client.py` | Plan, Organization, Subscription, Payment rows; the gateway's orders and undelivered events | plan administration, checkout, verify, webhook, modify, cancel, downgrade | `Billing`, `Entitlement` |
| Access rules | `billing/access.py` | none (reads plan and subscription) | `limit_status`, `billing_cycle_of`, `evidence_limit_status`, `is_org_read_only`, `has_feature` | in `Billing` (what plan and cycle combine to), `Cases`, `Evidence`, `Intake`, `Trail` |
| Permissions | `core/permissions.py`, `accounts/models.py` | none | view and edit rules by role, tenant and plan | `Trail`; the Free rule in `Cases` too |
| Cases | `cases/api.py`, `models.py`, `serializers.py` | Case rows | create, patch, change status, delete, report | `Cases` (limits), `Trail` (who, and the entry) |
| Evidence | `evidence/api.py`, `services.py`, `models.py`, `forms.py` | files in the store, work directories, EvidenceItem rows, five tables of parsed rows | upload, local scan, demo case, parse, re-parse, delete | `Evidence` (threads and failures), `Intake` (which files, and what becomes of each) |
| Type detection, parsers | `core/parsers/*` | none | file to type, file to rows | `Artifacts` |
| Browser search | `core/browser_detect.py` | none | machine to files | `Intake` |
| Core utilities | `core/utils.py` | the work directories | `safe_copy_db`, `cleanup_dir`, hashing | in `Evidence` |
| Accounts | `accounts/*` | User, Profile, Organization, sessions | signup, login, logout, profile edit, password change, superuser | `Accounts` |
| Audit trail | `auditlog/*` | AuditLogEntry rows | `log_action`, the signals of a login, the list | `Trail` |
| Desktop launcher | `desktop_app.py`, `seed_plans` | the secret key file, the Plan table, a port and a process per copy | launch, seed, serve, show, end | `Launch` |
| Dashboard | `dashboard/api.py` | none | recent activity, counters | in `Trail` (recent activity) |
| Exports, reports | `evidence/downloads.py`, `cases/report.py` | none | hand out a table or a report | in `Trail` (who, and the entry) |
| SPA host, settings, frontend | see `PROJECT.json` | none of their own | | not modelled |

How the parts touch each other. Requests run on the threads of the WSGI server
(waitress with 8 threads, `desktop_app.py:125`). The settings do not set
`ATOMIC_REQUESTS`, so outside the one `transaction.atomic()` block of
`CheckoutVerifyAPI` every ORM statement commits by itself, and two requests
interleave between any two statements. The shared state is the database: billing
writes `Organization.plan` and `Subscription`, and the access rules read both on
behalf of cases and evidence; deleting a case cascades to items and parsed rows,
and not to files. Signup makes the organization billing then works on, on a
Plan row the launcher seeded, and its session is signed with the key the
launcher keeps in a file. The gateway talks to billing twice about one payment, through
the browser (verify) and through webhook events that it repeats until it sees an
answer.

What makes the system hard, and what therefore is modelled in full:

* **Interleaving.** A handler that reads a row and writes it later is a thread
  with a job; `job[h]` holds what its local variables hold, `job[h].at` names the
  next statement. Every statement on which another request could act is an
  action of its own.
* **Requests that die.** `Abort(h)` ends a request before any statement in
  `AbortPoints`: the process is killed, or the statement raises ("database is
  locked"). What was committed stays. In `Cases` a request may end before any
  statement.
* **Webhook delivery.** Events are lost to a dying request, repeated, and
  delivered in any order, also before and after the browser's verify call.
* **Stale reads.** A plan, a count, a cycle or a whole row read before it is
  used; an administrator who changes prices meanwhile.
* **Processes that share a directory.** Copies of the desktop application use
  one key file, one database and neighbouring ports; each may be killed between
  any two of its writes.
* **Files beside rows.** Files and rows are written by separate steps, and an
  item or its case may go while a parser works for it.
* **Knowledge in many places.** The browser search, the type detection, the
  upload form and the parsers each list file names and tables of their own.
* **A trail beside the deed.** The entry and what it speaks of are two
  statements, in one order or the other, or, when evidence is deleted, on both sides
  of the entry; and the entry may fail silently.

**Accidents are recorded, not assumed away.** Much of this code has no lock, no
transaction and no repair, so that some of what one would like to hold does not
after a death or an overlap at the wrong moment. The theorems exclude no such
moment, and the runs none that matters to what they check: a history variable
records, per object, that it came (`dropped` and `torn` in `Billing`; `bereft`,
`crossed` and `cut` in `Evidence`; `met`, `rival` and `broken` in `Launch`; `raced`,
`spoilt` and `skimped` in `Accounts`), no guard reads it, and the property speaks of
all objects it did not come to. So a property of this kind says two things: what
holds, with any number of threads that die anywhere, and that the accident named is
the only one that breaks it. Where the code repairs what was broken (a verified
checkout, a parse that runs alone, a launch that completes the writing), the record
is cleared, and the property holds again from there. The accidents that come true
are listed below, under "Where documents and code disagree" and in `PROJECT.json`.

## Modules

**`Entitlement`** is what billing promises: an organization is on Free, or on a
plan it holds a grant for, and a grant is earned by a settled payment of its own
or by an offer at price zero. It has no counterpart in the code; `Billing`
implements it (`ImplementsLedger`, `Grants` being the refinement mapping).

**`Billing`** models the four tables, the eight handlers that write them, the
webhook and the gateway. `catalogue` keeps of a Plan only whether it is free and
public; `org` the plan and `subscription_status`; `sub` plan, cycle and status, or
`None`; `pay` the organization, plan, cycle and status of a Payment. `captured` and
`outbox` are the gateway's. Of the history variables, `gratis` and `served` record
the zero-price offers an organization took and the payments whose activation ran to
its end, `dropped` the payments whose webhook died after it had marked them PAID,
and `torn` the organizations one of whose requests died between its two writes or
wrote between those of another; `Splits`, `Tears` and `Mends` only serve to keep it.
`BillingCycleOf` is the cycle the limits are made of. `_activate_subscription` is
two statements (`WebhookSaveSub`, `WebhookSaveOrg`), and one action inside the
atomic block of `CheckoutVerify`. `update_or_create` runs in a transaction of its
own and is one action.

**`Cases`** models the Case rows of one organization with the cases limit of its
plan. `PlanRows` are the plans the organization may be put on, `yearly` its
cycle. A creation is four statements (plan, cycle, count, insert), an edit three
(read, check, write). `PatchSave` and `StatusSave` write the whole row the
request read earlier, so they undo concurrent changes and bring a deleted row
back: that is what Django's `save()` does when the UPDATE finds no row.

**`Evidence`** models the items of one organization, their files, the number of
tables filled for each (`entries`), and whether a work directory was left behind
(`litter`). `Ingest*` are the loop of `EvidenceUploadAPI` and `LocalScanAPI`
around `_ingest_evidence_file`, `Demo*` the demo case, `Parse*` the statements of
`parse_evidence` and `load_demo_data`, `Remove*` the deletion. Four kinds stand
for the ten evidence types: `history` (Chromium History: two tables), `table`
(any other SQLite file), `direct` (read in place) and `other` (not parsed). The
five deletes of `_clear_existing` are taken as one. A demo item is filled without
an exception handler: `DemoFails` ends the request wherever `load_demo_data` raises.
The histories: `bereft`, items whose deletion ended after the file and before the
row; `crossed`, items two requests parsed at once, until one clears them alone;
`cut`, items whose parse was cut off, until they are parsed anew.

**`Artifacts`** holds no state: `Detect` is `detect_evidence_type`, `FormAccepts`
the upload form, `ParsedTables` what `parse_evidence` makes of a file of a given
type. A file is its name and what the readers tell apart of its content: the tables
of a database, whether columns have drifted or the logins of a JSON object are no
list of objects (`drift`), the keys of such an object, a zip. `Natural` is the
reference: the table of files in `README.md:263-267`, as browsers write them.

**`Intake`** is one request that takes files into a case, by upload or by a scan of
the machine: `DetectAll` is the search for profiles, `Copy` to `ParseNew` are the
steps of `_ingest_evidence_file`, `Unreadable`, `Refused` and `Blocked` its ways
out. `journal` holds the browser files that have committed rows in a `-wal` file
only; `Commit` and `Checkpoint` are the browser's. `store` is the evidence store,
with what SQLite leaves beside a copy that is probed. A file may be impossible to
copy at any moment, uploaded or not; a search may raise, and a browser's folder may
be one nobody may list (`Failing`). `Delete` may leave the copy behind, since what
`unlink` raises is swallowed, and `DeleteCase` leaves every copy. What is on a
machine is any part of `Disk` in which no folder has two files of one name
(`IsMachine`). It is one request at a time: threads, and deaths between a file and
its row, are in `Evidence`. That removing a refused copy may itself fail is left
out.

**`Trail`** is about people and the record of what they do: the handlers of cases,
evidence, exports and reports with the permission checks of each, made on a row
loaded before the deed, and `log_action` before or after it (`LogsFirst`). The
deletion of an item is three statements: its bytes (`ItemUnlink`), the entry, its row.
`Members` gives every user its profile. `deeds` and `died` are histories, as are
the fields `req` and `of` of an entry. `CanView` and `CanEdit` are
`core/permissions.py`; `AuditList` and `RecentActivity` are what members are
shown. What limits and files are about is left to `Cases` and `Evidence`.

**`Launch`** models the copies of the desktop application: `app[c]` holds where
`main()` is (`at`), the key in its environment, its port and its server thread;
`keyFile` and `plans` are what they share. Opening the key file empties it and is
a step of its own; so is every `update_or_create` of `seed_plans`. The port probe
and the bind of the server thread are separate steps, as in the code. Copies
start, overlap and are killed at any of `KillPoints`; from the start of the server
thread on `main()` writes nothing and is at one place, `"window"`. `met[c]` tells what
of another copy's unfinished business c came upon: the key file or the plans
while they were being written or after a copy was killed at that (`broken`), or
a port both had probed; `rival`, that a key was drawn while another copy had yet
to write its own.

**`Accounts`** extends `Launch`: requests run on a copy whose server is up, and
`Stop(c)` ends a copy with its requests. `MakeBegin` to `SignupLogin` are the
statements of a signup, and those of `createsuperuser` and the `post_save` signal
with `super` set. `user[n].profile` says whether there is a Profile row and which
organization it names; `session[n]` is the key the session was signed with and the
password it was made under. `PassRead` to `PassRehash` are the change of a password,
`PatchRead` to `PatchSave` the profile form, which saves the user row too. Anybody
may log in as soon as the user row is there. The histories: `chosen`, the password
last chosen; `raced`, users whose password was changed during an edit; `spoilt`,
accounts whose making was cut off, or during which an edit loaded them; `skimped`,
organizations made by a copy that had found the plans half-seeded.

`MCBilling`, `MCCases`, `MCEvidence`, `MCIntake`, `MCTrail` and `MCAccounts` give TLC
the sets. The proofs stand in `BillingProofs`, `CasesProofs`, `EvidenceProofs` and
`EvidenceCountProofs`, `TrailProofs`, `AccountsProofs` (with those about `Launch`) and
`IntakeProofs` (with those about `Artifacts`).

## Properties and runs

Billing:

| Run | Bounds | Checks |
|---|---|---|
| `billing_race` | 2 threads, 1 organization, 2 payments, 2 plans, 2 cycles, deaths anywhere | `TypeOK`; `PlanIsEarned`; `PaidPlanHasSubscription`: a paying organization always has the row `billing_cycle_of` reads; `PaidIsServed`: a PAID payment is activated, or on its way, or in `dropped`; `BooksAgree`: organization and subscription tell the same story but for those in `torn`; `LimitsAreBought`: with the same exception, the plan of the one and the cycle of the other, which make the limit, were bought together |
| `billing_offers` | 2 fair threads, 1 payment, any change of price, deaths anywhere | `ImplementsLedger`: no plan that was neither paid for nor offered free; `CapturedIsServed`: money the gateway took buys an activation, unless in `dropped` |

Two payments and two threads are what it takes for one activation to overtake
another, or for verify and webhook to serve the same payment; a third thread adds
no new pair of statements, and every exception needs two at most. Two cycles and
two payments are what it takes for a limit to be made of two purchases. Demo mode
(`Demo = TRUE`) is covered by the proofs, which leave `Demo` open; it widens
`SignatureValid` and closes the gateway, and adds no action. A grant does not
expire: that a second verify call for a payment activates a subscription canceled
since is in the model (`CheckoutVerify` does not look at the status), and no
document says that it may not.

Cases:

| Run | Bounds | Checks |
|---|---|---|
| `cases_race` | 2 threads, 4 keys, a limit of 1 with a bonus of 1, and Free | `TypeOK`; `CaseBound`: with n threads the limit is overshot by at most n-1 cases; `FreeTierFreezes`: once the plan stays Free the cases stop changing, after the requests in flight |

Four keys are the ceiling of two plus one overshoot plus one more, so the bound is
reached and could be passed. Status is not told apart: nothing the properties say
depends on it.

Evidence:

| Run | Bounds | Checks |
|---|---|---|
| `evidence_race` | 2 threads, 3 items, 1 case, 2 kinds, a limit of 1, deaths where disk and database differ: between file and row, and between unlink and delete | `StoredFilesAreApart`; `RowsAreLinked`: no parsed row without item, no item without case; `BytesAreKept`: no listed item without its file, unless its deletion died half-way; `EvidenceBound`: uploads overshoot the limit by less than the number of threads |
| `evidence_parse` | 2 fair threads, 1 item and 1 case deleted at any time, all kinds, deaths anywhere | `TypeOK`; `CountIsTrue`: `row_count` is what the tables hold, unless the last parse was crossed or cut; `FilledOnce`: no table holds the rows of two parses unless they were crossed; `ParseSettles`: an item to be parsed ends parsed, failed or deleted, unless cut |

Three items are the limit of one, its one overshoot and the one that would be too
many. What one item's parses do to each other needs one item and two threads.
`evidence_race` has one value of the limit; that a change of plan in the middle of
a batch keeps the bound is what the theorem says. `evidence_twice` shows what
`crossed` excludes.

Intake:

| Run | Bounds | Checks |
|---|---|---|
| `intake` | 1 request for the case, then any re-parses and deletions, failing ones too; batches of one file (6 stems, 5 extensions, the tables of up to two browsers or of half of one, or JSON, zip and other) and of pairs; 8 files on the machine, any subset of them there; 2 searches that may raise and a browser's folder that may be forbidden; 4 plans; 3 types given by hand | `TypeOK`; `EveryFileIsAnswered`; `NaturalFilesAreRead`: a file as a browser writes it ends in that browser's table; `ContentIsParsed`: a type taken from the content is one whose parser works, but for drifted columns and logins of another shape; `ParsedIsRead`: PARSED means rows in the item's own table, but for two readers; `StoreIsAccountedFor`: every item has its copy, and a copy without item was one's that was deleted; `ProfilesAreTaken`: the files of every profile that could be looked at, once each, wherever the Cookies are and whatever else could not be |

A decision about a file depends on that file alone, so batches of one reach all of
them; pairs are for the limit and for what one file's failure does to the next.
Two browsers' tables in one file are what it takes for one signature to shadow
another.

Audit trail and permissions:

| Run | Bounds | Checks |
|---|---|---|
| `audit_trail` | 2 threads, 2 requests, 5 members of 2 organizations and of none, 1 case, 1 item, any initial case and plans, any change of plan, deaths anywhere | `TypeOK`; `EveryDeedIsRecorded`; `EntriesAreEarned`; `DeedsAreEntitled`; `TrailIsWhole`; `TrailKeeps`: the trail is append-only but for the link to a deleted case |

`EveryDeedIsRecorded` says which deeds always have their entry or a warning on the
console (`RecordedFirst`: the rows deleted, the tables and reports handed out) and of
the others that only the death of their own request can keep it from them. The
bytes of an item are one of those others. Each property speaks of one case, one
entry or one deed, and of what a second
request did meanwhile; the proofs drop the bounds. `TrailIsWhole` is about members
of an organization: a user whose organization is unset matches every entry of a
user without organization and every entry without case, whoever made it, since
`Q(case__organization=None)` is true of a missing case.

Accounts and launcher:

| Run | Bounds | Checks |
|---|---|---|
| `accounts_launch` | 2 copies that start, overlap, end and are killed at their first writes too, 2 keys, 2 ports, 1 user name, 2 organizations, 2 requests at a time, 1 change of password, signups cut off between any two statements | `TypeOK`; `FreshInstallWorks`: past its bootstrap a copy has all plans and a key, unless it met them half-written; `WindowIsServed`: a copy past its bootstrap has a server of its own, unless two probed one port at once; `SessionsSurvive`: every copy signs with the key the sessions were signed with, unless two had drawn one each or the copy met the file half-written; `AccountsAreWhole`, `OneOrgEach`: an account has exactly one organization, its own, unless its own making was cut off or edited, also when two signups ask for one name; `PasswordStands`: a password that was changed stays changed, unless a profile edit had loaded the row before; `PlansByStanding`: superusers start on Enterprise and nobody else does, unless made by a copy that met a half-done seeding |

One name is enough: requests of different users share no row but the plans. The
kill and cut points of the run are those that leave something half-written; a
copy killed elsewhere leaves what closing its window leaves, and the theorems hold
for every set of points. `accounts_early` shows what one of the accidents does.

The constants that bound a run are `Payments` (checkouts), `Offers` (the
administrator's changes), `PlanRows`, `Limits` and `Ceiling` (plans), `Ids` and
`CaseIds` (rows and names ever alive together), `DemoSize`, `Handlers`, `Statuses`
and `AbortPoints`; `Batches`, `Disk`, `Overrides`, `Plans` and `MaxRequests`;
`Failing` and `Unreliable`; and `Copies`, `Secrets`, `Ports`, `KillPoints`, `Names`,
`OrgIds`, `Threads`, `Changes`, `CutPoints`. `CHECK_DEADLOCK` is on everywhere.
Symmetry is used in safety runs only.

**Fairness.** `CapturedIsServed` assumes that a request a thread serves reaches
its next statement (`WF` on `Continue`), that requests stop dying at some point,
and that an event the gateway keeps delivering is served again and again (`SF`):
waitress hands tasks to its threads first-in first-out, and Razorpay redelivers
until it is answered. Payments in `dropped`, whose webhook died between "payment
saved as PAID" and "organization saved", are exempt: there a redelivered event is
answered without an activation, because the handler takes PAID for done
(`webhooks.py:39`). The run shows that this window is the only one.
`ParseSettles` assumes only that a request that does not die goes on; an item whose
own parse is cut off is exempt, since nothing resumes it.

### Where documents and code disagree

Four runs are expected to fail, each on one sentence of the repository:

* `billing_lapsed`: "Orgs without a live Subscription row (i.e. on Free) are treated
  as monthly" (`billing/access.py:48`), and the limit comes "from the org's live
  `Subscription.billing_cycle`" (`README.md:134`). `billing_cycle_of` does not look at
  the status: after a yearly plan and a switch to one at price zero, the canceled
  Subscription still gives the yearly bonus.
* `evidence_twice`: "Clear any previous parse" (`evidence/services.py:57`). Two
  parses of one item both clear before either inserts, and every row is there
  twice.
* `accounts_early`: "Every user belongs to exactly one Organization"
  (`billing/models.py:109`). Who logs in while the signup is being answered and
  saves the profile form writes the organization back to NULL, since
  `ProfileSerializer.update` saves the whole row.
* `intake_journal`: the safe copy takes the "-wal/-shm/-journal siblings if present,
  since modern browsers keep uncommitted data there" (`core/utils.py:42`). The
  browser's are never there: only the file itself is copied into the store.

Others were met on the way and need no run, one line of a model shows them:

* "cancel subscription (reverts to Free at period end)" (`README.md:153`):
  `CancelSaveOrg` sets Free in the same request.
* The demo case is "still subject to the same read-only / case-limit plan rules"
  (`evidence/api.py:333`): `DemoInsert` follows `DemoBegin` without a slot check.
* The safe copy "is deleted again immediately after" (`evidence/services.py:4`):
  `ParseCopyFails` leaves its directory (`litter`), and re-parsing a demo item,
  which has no file, always takes that way.
* "A free-plan org has no Subscription row" (`billing/models.py:153`), while cancel,
  modify and downgrade keep it.
* "Active cases per organization" (`billing/models.py:36`), while `case_count` counts
  closed and archived cases too.
* The form is "a no-op in the normal auto-detected case" (`evidence/api.py:90`): a
  Firefox or Safari database under another extension is recognised by its content
  and then refused for its name (`Expectations`).
* Parsers run "always against a COPY" (`core/utils.py:4`): the detection opens the
  stored evidence itself (`Probed`), and SQLite leaves `-wal` and `-shm` files there.
* "Raises ParseError on failure" (`evidence/services.py:49`): an unreadable zip or
  JSON is PARSED with no rows (`ParseLogins`, `ScanCacheZip`).
* What cannot be read is "reported per-file" (`evidence/api.py:229`): a folder the
  search may not look into is passed over in silence (`DetectAll`).
* The full history "requires the plan's feature_audit_log" (`auditlog/api.py`): the
  dashboard shows its latest entries without (`RecentActivity`).
* "Session Logs shows every action taken in the case" (`README.md:258`): an entry that
  cannot be written is a warning on the console and the deed goes on (`LogFails`), and
  the bytes of an item are gone before its entry is written (`ItemUnlink`), so that a
  request that dies there leaves none.

## What is proved

For every number of organizations, members, plans, payments, threads, copies, items
and cases, wherever requests and copies die; no theorem assumes that accidents do
not happen or that one thread runs alone:

* `BillingProofs`: `TypeCorrect`, `JobsBacked`, `PlansAreEarned`,
  `PaidPlansHaveSubscription` and `BillingImplementsLedger`, all from one inductive
  invariant, `IInv`. `PlanIsEarned` alone is not inductive: a thread about to write
  a plan must already have earned it, so `JobIsBacked` says of every job that its
  payment is captured, that the subscription precedes the organization, and that a
  free switch was recorded; `RowsAreBacked` says that captured orders and events
  belong to rows; `SubscriptionFromOnePayment`, that plan and cycle of a
  Subscription come from one settled payment. `PaidPaymentsAreServed` and
  `CapturedIsNeverForgotten` add that an event is only dropped for a payment that
  was PAID or has just been activated. `BooksAlwaysAgree` rests on `BooksHold`:
  until an accident tears them, the books of an organization are in order or a
  thread is between their two writes, and if that is an activation it will make the
  plan what the Subscription says. `LimitsAlwaysBought` is what the books and the
  one payment come to together.
* `CasesProofs`: `TypeCorrect`, `ClaimsHold`, `CasesAreBounded`, `FreeAdmitsNobody`.
  The bound on cases is not inductive, since threads that passed the check still
  insert and threads that hold a row may bring it back. `CaseClaims` counts rows,
  held rows and admitted requests against the ceiling plus the threads, and the
  proof carries that sum through every action with the cardinality theorems.
* `EvidenceProofs`: `TypeCorrect`, `RowsLinked`, `StoredApart` and `BytesKept`. The
  proof states once what a step of a thread does to keys, files and items
  (`Effects`), shows it for every statement, and derives the invariants from it.
* `EvidenceCountProofs`: `UploadsAreBounded`, along the lines of `CaseClaims`:
  `Room` counts the uploads of a case and the threads past the limit check; what a
  parse returns to is the start of a loop (`BatchesResume`), so that no thread comes
  past the check by another way. `CountsAreTrue` and `OneParseFillsOnce` follow from
  `ItemInv`: of an item whose parses did not overlap, one thread at most is parsing
  it, what that has filled so far is what it will save, and only while it is at it
  may the count be wrong. `NobodyIsForgotten`: an item to be parsed has a thread
  that is parsing it, or its parse was cut off.
* `TrailProofs`: all six properties of `audit_trail`. A request's checks were made
  on a row it loaded, so `DeedInv` adds that all who know a case (the table, the
  requests holding it, the deeds done to it) know the same row, and that the id of a
  case somebody still holds is not given to another. `FirstIsDone` says of a request
  between its two statements that the first is behind it, which makes
  `EveryDeedIsRecorded` and `EntriesAreEarned` inductive; `EntriesArePlaced`, that
  an entry's organization is that of its user and of its case, gives `TrailIsWhole`.
* `AccountsProofs`: the eight properties of `accounts_launch`, for any number of
  copies, users and requests, and every set of kill and cut points. That a copy's
  requests end with it and that a superuser is made on a copy of its own
  (`RequestsAreServed`) keeps the types; `MakersAreOne`, that a name is made by one
  request, keeps `OneOrgEach`; `EditsAreFresh`, that an edit which was not overtaken
  holds the password of the row, keeps `PasswordStands`. `PortInv` says that a
  server that is starting finds its port free and to itself but for those probed
  together; `KeyInv`, that an empty key file is being written or somebody was killed
  at that; `SignInv`, that without a second draw whoever draws finds no key in use
  yet and afterwards the file's is the only one; `SeedInv`, that the table of plans
  is empty, full, being filled, or was left half-filled. `StandingIsKept` carries
  the plan a request has read to the organization it makes. `WholeInv`: a user
  without organization is still being made or spoilt, and what an edit will write
  back names an organization unless the account was spoilt.
* `IntakeProofs`: the seven properties of `intake`: for any batches, machines, plans
  and types given by hand, where TLC tries some. `AnswersInv`: a file set out is
  answered or still to come. `SourcesInv`: every file is in one place only, to come,
  stored, or an item. `StoreInv`: every entry of the store has an owner (`IsOwned`),
  an item or the file in hand. `ItemsInv`: every item has the type the rules give
  its file (`IsTyped`) and what its parser makes of it (`IsOutcome`), and a refusal
  has its ground. `ScanInv`: what was set out to do is what the searches find that
  could look. From there the properties are facts about the tables of `Artifacts`:
  `QueriesFeed`, that what a parser selects feeds the tables its type is shown in;
  `TablesAreSelected`, that a signature names what its parser selects; and
  `FirstFits`, that the least rule that fits decides, taken from the `CHOOSE` of
  `SniffTables` without an induction over the rules.

The assumptions are those the modules name. Of rows, that `None` is none of them, also
where a row is a set or a key (`NoneIsNoRow`, `NoneIsNoAnswer`). Of sets, that those
whose members are counted are finite: threads, ids, files on a disk and in a batch. Of
values, that kinds, limits, plans and ports are what the code has
(`BillingAssumption`, `CasesAssumption`, `EvidenceAssumption`, `TrailAssumption`,
`LaunchAssumption`, `AccountsAssumption`, `IntakeAssumption`). TLC evaluates those of a
module in each of its runs. The two bounds, `CaseBound` and `EvidenceBound`, say in their
own formulas that they are about limits that are none unlimited; no theorem
assumes anything else.

Every invariant of a run that passes is proved. Only model-checked are the liveness
properties (`CapturedIsServed`, `FreeTierFreezes`, `ParseSettles`), which rest on
fairness and are out of the prover's reach. The safety they rest on is proved:
`CapturedIsNeverForgotten`, that money which bought nothing yet is still being dealt
with; `FreeAdmitsNobody`, that on Free nobody is admitted and each change uses up
somebody who was; `NobodyIsForgotten`, that an item to be parsed has a thread parsing
it. What fairness adds is that those threads and redeliveries come. `JobsAreBacked`
and `CaseClaims`, parts of the inductive invariants, are proved and in no run.

## What is not modelled, and why

* `current_period_start`, `current_period_end` and `cancel_at_period_end`: the
  first two are written and never read, the last always goes with the status.
* Amounts, invoice numbers, signatures as bytes: `SignatureValid` keeps what
  they decide.
* The filter of the case list (`visible_cases_qs`), a query by organization, role and
  owner.
* The superuser's organization in `Billing`, whose organizations have signed up;
  `Accounts` makes both.
* Display names of a profile, and the rules for what a password may be.
* `migrate`, taken as having run; two copies that migrate at once.
* Edits through the Django admin site, which can write any row.
* Counters, search, sorting and paging of the lists, and the formatting of
  reports and exports: they change no state. (One thing met there: the columns
  that may be sorted by are one set for all tables, `table_config.py:78`, so that
  sorting one table by a column of another raises.)
* The values parsers decode (timestamps, expiry, cache headers) and the synthetic
  rows of a demo case.
* `status` and `closed_at` of a case, and `row_count` of a failed item, which the code
  does not tie to each other.
* Settings, URLs, the SPA host and the frontend: configuration, and a client
  whose calls are requests in any order.

## Plan

1. `Suite`: Billing, Cases and Evidence composed over one organization, so that
   a change of plan in one is the change of limit in the others; that its steps are
   steps of its parts.
2. `Billing.Init` as a refinement of what `Accounts` reaches.
3. Proofs: the refinement of 2; of `Suite`, that the properties of its parts carry over.
