# Extralessons: a TLA+ model of the booking system

Extralessons lets families request places in after-school classes, and lets a
school office approve them, keep waiting lists, offer freed seats and tell
everybody what happened. It is a Django application on PostgreSQL: several web
workers, an MCP server and a scheduled notifier share one database and nothing
else. Whatever can go wrong between them goes wrong there, in transactions that
overlap, and in messages that leave the database for the outside world.

This directory specifies that core, checks it with TLC on small instances and
proves its safety with TLAPS for every instance. `PROJECT.json` lists the runs,
the mutants that show that each property can fail, the source lines behind each
definition, the hazards the properties are for, and the theorems.

    tlc -workers 2 -config MCEnrollmentsDeadlines.cfg MCEnrollments
    tlapm TxProofs.tla             # and the other *Proofs.tla, EnrollmentsSafety.tla

## 1. Inventory

| Component (source) | State it keeps | Operations | Talks to |
|---|---|---|---|
| Enrolment services (`apps/enrollments/services.py`, `models.py`) | `Enrollment` rows: child, class, status, reason, deadlines | register, admin_register, transfer, approve, reject, offer, confirm, decline, expire, cancel, parent_cancel, request / confirm / decline cancellation, cancel_class | locks `ActivityClass`, queues messages in the same transaction |
| Office decisions (`apps/enrollments/admin.py`) | none | buttons, bulk actions and the move page | the services, from rows a page showed earlier |
| Class lifecycle and edits (`apps/catalog/models.py`, `admin.py`, `mcp_server.py`) | `ActivityClass` rows: status, capacity, schedule; terms, holidays | publish, archive, cancel, save, upsert, copy into a term | unlocked saves beside the services; a raise calls capacity_increased |
| Session calendar (`generate_sessions`, holidays, cancelled lessons) | `ClassSession`, `Holiday`, `Attendance` rows | reconcile, cancel and restore lessons | queues lesson notices |
| Outbox and worker (`apps/notifications/services.py`, `worker.py`, `run_notifier`) | `Notification` rows: status, attempts, next_attempt_at | queue, claim, send, record, recover_stuck, retry_failed | the e-mail and WhatsApp providers; runs expire_offers |
| Accounts and guardians (`apps/accounts`) | users, guardians, invitations, SiteConfig | sign up, invite, accept, preferences | decides who is told, and whether |
| Instructors, certificates, files (`apps/dashboards/provider_*.py`, `apps/media`) | instructor profiles, certificates, stored blobs | upload, check, clear, prune, attendance | the media storage |
| Pages, transport, rendering, deployment | none, or configuration | read-only views, MCP HTTP, templates, rich text, scripts | |

What is hard in it:

* **Concurrency.** Each service is one transaction that takes the class row as a
  mutex (`_locked_class`). `transfer` takes two, `reject_request` none. The forms
  and tools that edit a class take none either, and save rows they read earlier.
* **Time.** Offers lapse, withdrawal windows close, claims grow old, and the
  sweep that acts on it may run much later than the deadline.
* **Delivery.** A message is sent outside any transaction: a pass may die with it
  in hand, or lose the provider's answer, or overlap with another pass.
* **Ordering.** What a family is told has to agree with the place it has, however
  its own clicks, the office's decisions and the sweep were ordered.

What makes each component correct: the services never take a class over its
capacity by accident, never leave a free seat in front of a waiting list in
silence, keep one live registration per child and class, in open classes only,
and tell the family the truth. The class edits do not undo a lifecycle decision.
What a page, a tool or an announcement reads with its own query agrees with what
the services do next, and the office is never taken over a capacity without
being told. The outbox sends each message once unless an acceptance was lost,
respects consent, gives no message up for a trouble that is not its own, and
finishes. A calendar that has been reconciled has the lessons of its term, and
no holiday, schedule or term ever takes a taught lesson away. The alerts of a
class reach somebody who can act, a used invitation is used up, and nobody is
locked out by being taken off one provider. A certificate's stamp belongs to the
document that was looked at, and the document opens.

## 2. Modules

| Module | Models | Role |
|---|---|---|
| `Enrollments` | `services.py`, the models it writes, publish, archive and capacity edits | the services as atomic actions: the abstract specification |
| `EnrollmentTx` (extends it) | the same calls as transactions | begin, lock, read and check, commit, crash; implements `Enrollments` |
| `ClassEdits` (extends that) | `ActivityClass.save`, the form, `upsert_class`, `publish_*`, `archive_*` | unlocked read-check-write edits beside the transactions |
| `Pages` (extends `Enrollments`) | `with_counts`, the catalogue, the request queue, the workbook, home pages, registers, audiences | what is read from the registrations, as functions of the state, and what the pages owe each other |
| `Desk` (extends `Pages`) | the roster, the office's buttons, the waiting list of every page | requests that read before and after a service without its lock |
| `Delivery` | what the outbox promises of each message | abstract specification |
| `Outbox` | `worker.py`, the status logic of `services.py`, `run_notifier`, `retry_failed`, the channels | overlapping passes; implements `Delivery` |
| `SessionCalendar` | `generate_sessions`, `apply_holidays`, the lessons in admin, MCP and provider pages | lessons, holidays, registers and lesson notices |
| `People` | accounts, guardians, invitations, members, instructors, administrators | who may do what, and whom alerts reach |
| `Certificates` | `Instructor` profile and certificate, `DatabaseStorage`, `prune_stored_files`, announcement pictures | requests as runs of statements, killed anywhere |
| `EnrollmentsProofs` | | theorems about `Enrollments`: types and seats |
| `EnrollmentsSafety` (extends it) | | theorems about `Enrollments`: registrations, alerts and news |
| `TxProofs` (extends that) | | theorems about `EnrollmentTx` and `ClassEdits`: the refinement, deadlock, the edits |
| `DeskProofs` (extends `EnrollmentsSafety`) | | theorems about `Pages` and `Desk` |
| `OutboxProofs`, `CalendarProofs`, `PeopleProofs`, `CertificatesProofs` | | theorems about `Outbox`, `SessionCalendar`, `People`, `Certificates` |
| `MC*` | | instances for TLC: symmetry sets and keys |

**Enrollments.** `enrollments` is the table, in primary-key order, a row
`UNSAVED` until it is created. `class_status`, `capacity` and `term_active` are
the columns of the class (`term_active` is kept per class: terms are not shared
in the model). `now` is an abstract clock; `offer_expires_at` and
`cancel_requested_at` are ticks of it. `news` keeps, for a child and a class, the
newest event the outbox has for the family, which is all the properties ask of
it; the outbox itself is `Outbox`. There is one action per service, with its
guards taken from the raises and early returns. The settings
`offer_ttl_hours` and `withdrawal_window_days` may change between any two calls:
they are chosen by `\E` in the step that reads them. Two history variables make
the seat rules statable: `alerted` (the admins were told of a free seat since
the class was last full) and `over_allocated` (a decision of an administrator
took the class over its capacity since it was last within it). A lapse and
`_alert_if_waiting` queue different admin events; both tell the admins of the
seat, and both toggles are taken to be on.

**EnrollmentTx.** `tx[p]` is the transaction a process runs: the call, the class
locks it holds, and once it has read and checked, its plan, the rows it saves
and the messages it queues. `ClassesToLock` and `NextLock` are the lock
discipline of the code; `RowsFree` is `select_for_update` on the rows. Reads
happen when all locks are held, the writes become visible together at `Commit`,
and `Crash` rolls back at any time. Between its reads and its commit nothing else
can change what the call read, unless a lock is missing: `AtomicServices` checks
that none is. A transaction's several calls of `timezone.now()` count as one
instant; the term's flag, which `_require_open` reads without a lock, does not
change in this module. A registration or decision begins from any row that was
ever saved, as a stale page does.

**ClassEdits.** An editor's session loads a class, measures the old capacity,
and writes every column back, or writes the status alone, waiting only for the
row lock that PostgreSQL's UPDATE needs. Publishing and archiving are here as the
two steps they are; in `Enrollments` they are atomic.

**Outbox.** `row[m]` is the notification, with `next_attempt_at` kept relative to
now; `pass[w]` is what a worker holds in memory, the claimed batch with the
consent and attempts it read, and the reply it has not recorded yet. A message
stands for one recipient and one channel. `losses` bounds crashes and lost
replies. `accepted` and `excused` are histories: how often the provider took the
message, and how often that was lost before it was recorded.

The channels are functions from what became of a request at the provider
(`Answer`: taken, taken and the answer lost or unreadable, never arrived,
throttled, out of order, locked out, malformed) to what `deliver` hears:
`ZeptoMail`, `SMTP` and `WhatsAppReply`. Which e-mail backend is configured is
left open. `Promise` says that a message is only ever given up before its last
try for what the message is; over WhatsApp and SMTP the adapters cannot tell, and
`Unfit` names what they mistake for it.

**Pages.** No variables: each page is an operator with the name of its view or
query, written as that query is (in the database, or in Python over rows), so
that two pages that show the same thing have two definitions. The reader is a
super administrator, whom the code shows everything; `People` has the scoping.

**Desk.** `desk[q]` is what a request of the office is doing: reading a roster
list by list, having counted a target before a move, or owing its answer after a
service. The services are the actions of `Enrollments`, one step each.
`waitlisted_at` is finer than a tick, so it is the number of the stamp. `told`
remembers that the office has heard of a class over its capacity. The clock
stands still here; `Enrollments` and `Pages` have the deadlines.

**SessionCalendar.** Days are numbers, a week has `Week` of them. `lesson[c][d]`
is the `ClassSession` of a class on a date, on, off, or kept through holidays;
`marked` are the lessons with a register, `told[l]` counts the e-mails about a
lesson since it was last on. Every request is one step, with
`apply_holidays` as the tail of every save and deletion of a `Holiday`, but for
the admin's own regeneration, which runs in no transaction: `pass` holds the
periods it has read between its loop that creates and its loop that deletes.
`synced` are the classes nothing but a holiday has touched since they were last
reconciled, which is what `Reconciled` speaks of: neither the form of a term nor
the form of a class reconciles anything.

**People.** An e-mail address is the person who reads it. The rows of `User`,
`Guardian`, `GuardianInvite`, `Instructor`, `Provider.members` and the two
many-to-many tables of a class are sets. A request is a step, except that
accepting an invitation is the three autocommitted statements it is, with a
crash between any two. `unlinked`, `officeOff` and `offWhenMade` remember why a
guardian is off a child and why an account is off.

**Certificates.** `ATOMIC_REQUESTS` is off, so a request of the profile page is a
run of statements: store the photo, save the row, store the certificate, save
again, delete the old file, each with the row as it was loaded. The admin's own
form is one transaction. `row.checked` stands for the timestamp and holds the
file the office had in front of it. `lost` remembers that a request has written
over a change it had not read, which full saves do; the properties hold up to
that, and section 4 says what happens then. `minted` names are never used twice.

## 3. Runs

Every property of a passing run has a mutant in `PROJECT.json`, a plausible bug
in a mapped definition that makes TLC find that property violated under the same
configuration.

| Run | What it asks | Bounds, and why they are enough |
|---|---|---|
| `enrollments_deadlines` | deadlines, changes of the capacity, that a lapsed offer leaves the roster, and that pages, registers and audiences agree with the services | 2 children, 2 rows, 1 class, 3 ticks, offers that last 1, window 1, capacity 0 or 1: actions before, at and after each deadline, one child in a place and one asking for it, in a class that may grow, shrink or close meanwhile |
| `enrollment_tx_seats` | the twelve single-class calls other than `admin_register`, two at a time | 2 processes, 1 class, 2 rows, 2 ticks: any missing lock shows with two transactions |
| `enrollment_tx_moves` | moves in both directions, with registrations and rejections: no deadlock, every call ends | 2 processes, 2 classes, 1 child, 3 rows: a row in each class to move the other way |
| `class_edits_races` | admission, seats and alerts under every unlocked edit | 2 processes, 1 editor, 1 class, capacity 0 or 1 |
| `class_edits_publish` | what `publish_class` is documented to refuse | 1 editor, 1 process |
| `desk` | what the office reads around a service call, with moves, and the queue on every page | 2 children, 2 classes, 2 rows, 1 request at the desk beside families and other administrators: a queue of two, a class filled between a count and a move |
| `outbox_passes` | ownership, duplicates, consent, the promise, and that every message ends | 2 workers, 2 messages, one e-mail to a stranger and one WhatsApp, batches of 2, 2 attempts, 2 losses |
| `outbox_slow`, `outbox_invite` | what the comments of the worker and the invitation say | one message, two workers |
| `calendar` | what a reconciliation leaves and may never take, lesson notices, and the pages | 1 class, 4 days, weeks of 2 days, 1 holiday at a time, 1 edit of a row or admin action, 1 edit of schedule or term: a holiday that takes one lesson of two or all of them, a past, a present and a coming lesson, two weekdays, and one change of each kind in any order |
| `people` | alerts, invitations, lock-outs, foreign instructors, the record of archived classes | 3 people, 1 child, 2 providers, 1 class, 1 invitation, 1 edit of the office: an instructor of both providers, a second admin, and one edit anywhere in between |
| `certificates` | the check, the file, uploads under way, strays | 2 requests, 2 files ever stored: a certificate and its replacement, or the photo or picture beside it |

`TypeOK` is checked by a run for `Enrollments` and `Outbox`; the type invariants
of the other modules hold in the same configurations (add `TypeOK`, `TxTypeOK` or
`DeskTypeOK` to the cfg).

Symmetry is used in runs without liveness only, over children, classes (where keys do not
tell them apart), processes, requests, editors and workers.

`enrollments_deadlines` has one class, so nowhere to move a child to: its
specification is `FairSpec` without the disjunct of `Transfer`, whose moves are in
`desk` and `enrollment_tx_moves`.

**Fairness.** `Enrollments`: weak fairness of the sweep, which the scheduled
`run_notifier` starts again and again. `EnrollmentTx`: strong fairness of taking
locks, because PostgreSQL queues those who wait for a row, and weak fairness of
the commit; nothing is assumed of the users. `Outbox`: weak fairness of claiming
and of carrying on with a batch, of `recover_stuck` and of the clock. A pass that
crashes needs no fairness, as crashes are bounded by `MaxLosses`.
`EveryMessageEnds` has a premise of its own, that the office does not retry
failed rows forever: batches go by primary key, and without it a row the office
keeps requeueing can keep a later one waiting.

`Prompt` (`Outbox`) says that a pass deals with each of its rows within
`STUCK_SENDING_MINUTES` of the claim. The code does not enforce it. It is what
`OneOwner` and `DuplicateOnlyAfterLoss` need, and `outbox_slow` shows what
happens without it.

## 4. Findings

Three are runs that TLC ends with a counterexample; `PROJECT.json` quotes the
statement that the behaviour contradicts.

* `class_edits_publish`: "Cancelled classes cannot be published", but a publish
  that read the class before a cancellation committed publishes it after.
* `outbox_slow`: a pass that is slower than `STUCK_SENDING_MINUTES` is treated as
  a dead one and its rows are sent twice, with no crash anywhere.
* `outbox_invite`: the invitation that must go out "whatever its notification
  preferences" is queued, and skipped at delivery.

The model shows more of the same kind, which no run is spent on. An archive that
races a registration strands it in an archived class. A form, or `upsert_class`,
saved over a lifecycle action writes the old status back, and a capacity may be
saved below the seats given out while it was validated. Of two overlapping saves
of a class, a raise may be measured against an overwritten capacity and alert
nobody (so `FreedSeatNeverSilent` is checked with one editor). The consent check
"just before sending" uses the account as it was at the claim (`OptOutHonoured`
is stated for the claim). `cancel_requested_at`, "cleared when an admin confirms
or keeps the place", survives a confirmation. A class may be over its capacity
though no offer was made in it, against the docstring of `seats_over_capacity`.
What the services themselves guarantee survives all of these:
`class_edits_races`.

What the other modules show, and how the properties take it into account:

* Pages. `with_counts` says that `places_free` decides "how many offers can go
  out"; `offer_seat` ignores it on purpose, so `PagesForetell` speaks of
  approvals. An archived class that was once called off can be published again,
  and an announcement to everyone then reaches only who registers anew. The
  audience "everyone who ever had a place" includes requests that were rejected.
* Desk. The roster's four queries may miss a registration that moves while they
  run (never list it twice); the register and `list_registrations` read rows and
  positions in two queries, so a row that left the queue in between sorts first.
  The notes about a full class use the capacity the service has read. A request
  killed between its commit and its note tells nobody.
* Calendar. A lesson called off on a date that becomes a holiday is deleted, and
  comes back on when the holiday goes: `CalendarKeeps` forbids a step that calls
  a lesson on or off, not these two. A holiday over a whole term empties a calendar, and
  `apply_holidays` skips a class without lessons, so that shortening the holiday
  does not refill it (`Overlooked`). A called-off row moved to another date is
  announced to nobody (`Quiet`). `upsert_holiday` fails on two holidays of one
  name. The check for a register and the deletion of the lesson are two
  statements without a lock, which the model takes as one.
* Accounts. `instructor_add` links a provider account that is switched off, and
  neither switches it on nor invites it. `upsert_class` and the form of an
  instructor change a provider and leave instructors of another on the class
  (`StrangersByMovesOnly` names the two). `still_used` looks at memberships and
  profiles only, not at the admin role or at children. An acceptance killed
  half-way leaves its invitation open.
* Certificates. `mark_certificate_checked` stamps whatever file is on the row
  when it saves, which may be newer than the one the office had open. A full save
  of a profile loaded earlier brings back a check, a deleted certificate, or a
  removed instructor. A certificate replaced or deleted in the admin leaves its
  old file stored. A picture uploaded more than a day before its announcement is
  sent may have been pruned.
* Channels. WhatsApp takes 401 and 403, which are about the account, for
  permanent, where ZeptoMail's adapter does not; an accepted WhatsApp message
  with an unreadable answer is retried and sent twice; over SMTP a temporary
  refusal of the recipient is permanent.

## 5. Proofs

Every theorem holds for all values of the constants that satisfy the named
assumptions of the modules, which say no more than this: bounds and settings are
natural numbers, attempts and days are positive, "nobody" and "nowhere" are no
child and no class (`NamesAssumption`), the founder, the deputy and the
organiser are three people and the holidays and terms are made of days,
different classes have different keys (`PkAssumption`), the kinds of messages
and recipients of `Outbox` do not overlap where the code keeps them apart
(`OutboxAssumption`), and the backoffs grow with the attempts
(`PowersAssumption`, a law of arithmetic about `2 ^ n` that the provers, who
know nothing of powers, cannot derive). Four theorems about `Outbox` have the
hypothesis `Prompt`, one about `ClassEdits` has `LoneEditor` (at most one editor
saves classes), and what is said of a certificate holds until an update is lost
(`lost`), as in the runs. In each module an inductive invariant is proved first
(TLC has checked the parts the properties do not name as invariants of the same
instances) and the properties follow from it, or from it and one step.

**The services** (`EnrollmentsProofs`, `EnrollmentsSafety`).

| Theorem | Says |
|---|---|
| `TypeCorrect` | `[]TypeOK` |
| `NeverAccidentallyOver` | `[]NoAccidentalOversubscription` |
| `SeatsFreedAloud` | `[]FreedSeatNeverSilent` |
| `NeverTwice` | `[]OneActiveRegistration` |
| `OnlyPublishedHold` | `[]ActiveOnlyInPublished` |
| `OfferHeldOrSwept` | `[]OfferHeldOrLapsed` |
| `CancelledForGood` | `CancelledIsFinal` |
| `NewsTrue` | `[]NewsMatchesPlace` |

`TypeOK` is inductive. `NoAccidentalOversubscription` is inductive relative to
it: it already speaks of the history `over_allocated`, so what has to be shown
of each step is that a class outside the decisions of that step, which is over
its capacity after it, was over before. The argument goes through one notion,
`NoNewSeat(f)`: row `f` holds no seat after the step that it did not hold
before. `SeatsShrink` says that if all rows but one have it, the seat holders
grow by at most that row, for a clock that does not run backwards, and
`NotTakenOver` turns it into cardinalities: the class is not taken over its
capacity if that row held a seat already (a confirmed offer, which is why
`ConfirmOffer` must refuse a lapsed one) or there was a free one (an approval).

The theorems about registrations rest on one lemma, `RowLife`: whatever the
step, a row is left alone, or born (`Born`: into an open class where its child
has no live registration), or, while it is active, changed or ended in its class
(`Changed`). `OfferHeldOrLapsed` needs a strengthening: an offered row always
has a deadline.

`FreedSeatNeverSilent` is inductive through the history it names. `StillHeard`
lists the four ways a step may keep it for a class: it tells the admins, it
empties the waiting list, it leaves no free seat, or it is `Quiet` (no seat is
given up, nobody joins the waiting list, no lapsed offer disappears). The clock
frees a seat only by letting an offer lapse, which then waits for the sweep.

`NewsMatchesPlace` speaks of the newest registration of a child in a class, so
its invariant `NewsOK` adds what "newest" needs: keys are handed out in order
(`InOrder`), a row not saved yet is blank (`BlankUnsaved`), a live registration
is the child's newest in its class (`LiveIsNewest`), and only an enrolled child
has asked to leave (`AskedOnceIn`).

**Transactions and edits** (`TxProofs`).

| Theorem | Says |
|---|---|
| `ServicesAreAtomic`, `TransactionsAreServices` | `TxSpec => AtomicServices`, `TxSpec => Spec`: the transactions implement the services, for any number of processes, classes and rows |
| `NobodyWaitsInACircle` | `TxSpec => []NoDeadlock` |
| `EditsNeverAccidentallyOver` | `EditsSpec => []NoAccidentalOversubscription` |
| `EditsKeepFamilies` | `EditsSpec => [](OneActiveRegistration /\ OfferHeldOrLapsed /\ NewsMatchesPlace)` |
| `EditsKeepCancelled` | `EditsSpec => CancelledIsFinal` |
| `EditsAdmitPublishedOnly` | `EditsSpec => AdmittedWhilePublished` |
| `LoneEditorIsHeard` | `EditsSpec => []FreedSeatNeverSilent`, with `LoneEditor` |

The invariant is `Safe`, `TypeOK` with `TxOK` and `HistoryOK`. `TxOK` says of a
transaction that it holds only classes it asks for, in the order of their keys,
that no class and no row is locked twice, and, once it is about to commit, that
it is `Current`: if it read everything again now, it would decide and write the
same. That this survives the steps of the others is the core of the proof: a
plan stays inside the classes that are locked (`PlanInside`), so a commit
touches nothing of a class it has not locked (`CommitTouchesOwn`), and what a
call reads is in its own classes, so that it stays current (`StillCurrent`).
`reject_request`, which locks no class, is the exception that has to be argued
separately: its row is locked, and it only cancels a request, which no other call
counts. A commit of a current plan is then a step of the service (`Serves`), and
every other step of a transaction leaves the tables alone. By
`TransactionsAreServices` everything proved of the services holds of the
transactions.

Deadlock: rows are locked by a plan, and who still waits for a lock has no plan,
so that in a circle everybody would wait for a class. It is one with a higher
key than those the waiting transaction holds (`InKeyOrder`), and only finitely
many transactions are at work (`FewBusy`), so that the one that waits for the
highest key waits for somebody outside the circle.

The edits change `class_status` and `capacity` without the lock, but for the row
lock that keeps them away from a class some transaction holds, so `Current`
survives them; hence the services' guarantees that do not depend on the edits
being atomic survive too. A step of the edits is a step of the services or
leaves registrations, clock and news alone (`EditsKeepRows`), so that what the
services promise a family about its own rows holds beside the edits too
(`FamilySafe`: one live registration, dated offers, `NewsOK`).
`ActiveOnlyInPublished` is not among these: an archiving or a form that
overlaps a registration breaks it. With one editor the capacity it has measured is still
the class's when it saves (`WellMeasured`), and a raise is recognised.

**Pages and desk** (`DeskProofs`). `ForetoldRight` (`PagesForetell`) and
`PagesSameStory` (`EveryPageAgrees`) hold of every state of the services: the
pages' ways of counting are shown equal, as set equalities and cardinalities,
from `OneActiveRegistration` and `NewsOK`. `QueueIsTheSame` (`OneQueue`) needs
types only: `waitlist_position` counts the rows before one, `Before` orders the
waiting rows without ties, so counting maps them one to one into 1..n and, there
being n of them, onto it (`Places`). The inverse is a list in that order
(`QueueExists`), and there is no other (`OneOrder`), so that walking the list,
sorting by the numbers walked and counting agree. `NeverQuiet`, `ListedOnce`,
`QueueIsFair` and `DeskKeepsServices` rest on `DeskOK`: a roster has seen each
row at or before the list the row is now in (`RostersRead`), a class over its
capacity has been told of or somebody with no larger capacity in mind is about
to tell (`ToldOrTelling`), and no row has a later stamp than the last
(`StampsInOrder`). `DeskServes` shows that a step of the desk is a step of the
services, so their invariants carry over.

**Outbox** (`OutboxProofs`). `Typed` adds to `TypeOK` that a row on the queue,
or claimed, has a try left. With `Prompt`, `Owned` (a claimed row is SENDING,
not stuck, with the tries of its copy, and in one batch) gives `SingleOwner`;
`Counted` (every acceptance is recorded, about to be, or excused) gives
`DuplicatesExcused`; `Consented` gives `ConsentAtClaim`; and `Truthful` (the
answer a pass holds is one the row may be settled by) gives
`OutboxKeepsPromise`: `Spec => KeepsPromise`, that `Outbox` implements
`Delivery`. `Prompt` cannot be dropped from the first two: `outbox_slow` is the
counterexample. What survives without it is `LogIsTruthful`: `Truthful` is
inductive however slow the passes are, and so the log says SENT only of what a
provider took, FAILED only of what has had all its tries or cannot be
delivered, and SKIPPED of nothing addressed to a stranger, even where two
passes send one row and overwrite each other's outcome. (`LogTellsTheTruth`,
defined in `OutboxProofs`, is a theorem only; no run lists it.)

**Calendar** (`CalendarProofs`). `CalendarKept`, `ToldOnce`, `ReconciledStays`
and `PagesAlike`. The invariant `CalendarOK`: the counter of a lesson says
whether it was announced (`ToldRight`), a class in `synced` has exactly the
lessons of its schedule (`SyncedFit`), and a regeneration that nothing came
between has the holidays and the lessons of now (`PassFresh`).

**People** (`PeopleProofs`). `RemovedForGood`, `InstructorsKeepAccess`,
`AlertsArrive`, `StrangersExplained`, `HistoryRemembered`. `RemovedStaysRemoved`
is not inductive by itself: no open invitation and no acceptance under way may
be for somebody who was taken off (`TakenOff`).

**Certificates** (`CertificatesProofs`). `CheckedMeansSeen`, `FilesAreThere`,
`UploadsSurvive`, `NothingLeftBehind`. Four parts are inductive together: every
name in use was given out and fits its column (`Typed`), a file whose row is not
saved yet is young and named by its own request only (`UploadsOwn`), until an
update is lost the row names stored files and what is about to be deleted is not
in it (`Kept`), and what pruning keeps covers what is old enough to go
(`Pruned`).

**What stays with TLC.** Liveness under fairness (`LapsedOfferIsRemoved`,
`CallsEnd`, `EveryMessageEnds`) and ENABLED (`FamilyCanAlwaysLeave`, the refused
move of `Desk`) are out of the prover's reach. The sorted lists of `Desk` are
defined by what a query's `order_by` promises, a list of the rows in that order,
and not by the sort of the community modules, which the prover cannot expand.
The three documented statements of section 4 are false, and
shown so by their runs. No module uses RECURSIVE.

## 6. Not modelled, and why

* Attribution columns and timestamps nobody reads back; wording, templates, rich
  text, image resizing, HTTP plumbing, sessions and passwords: no property of
  the control depends on them.
* Notification templates can be switched off, and the admin alerts too; both are
  taken to be on, as a message the office does not want is not lost.
* The moments between two readings of the clock in one transaction.
* Deleting rows with Django's own admin action (a class, a term, a child, a
  registration): only a superuser has it, and it cascades over everything else.
* Copies of classes into a term, and creating providers, years and terms: they
  make new rows that nothing refers to yet.
* Which families a lesson notice goes to: `notify_lessons_cancelled` reads the
  roster without a lock, so one that is registered or moved meanwhile may miss it.
  The calendar has one family, always there; the enrolments have no lessons.
* A message that kills its pass every time is recovered and tried again without
  end, because `attempts` is written with the outcome. Every run bounds the
  crashes.
* `cancel_requested_at` of a row that ended otherwise stays set; nothing reads it.
* Demo data, help pages, health checks, settings and deployment scripts.

## 7. Plan

All done.

1. `Enrollments`, `EnrollmentsProofs`, `EnrollmentsSafety`: the services, with their
   safety invariants proved.
2. `EnrollmentTx`: locks and interleavings, refinement of 1.
3. `ClassEdits`: the unlocked edits beside 2.
4. `Delivery`, `Outbox`: the outbox, its worker and its channels.
5. `SessionCalendar`: lessons, holidays, registers.
6. `People`, `Certificates`: accounts, invitations, instructors and their files.
7. `Pages`, `Desk`: what is read from 1, and what the office does with it.
8. Proofs: news, pages and desk over 1; the refinement of 2, its lock order, and what
   survives 3; `Outbox` and its refinement of `Delivery`; calendar, people,
   certificates.

Nothing the prover can reach is left of the properties the runs check; section 5
says what stays with TLC.
