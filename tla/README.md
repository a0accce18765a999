# Formal verification of the school management system

TLA+ models of the commands that carry the system's core logic, the TLC runs that
check them on small instances, and the theorems TLAPS proves about them for every
instance. The reference is the code under `src/`; every definition that models code
names its lines in `PROJECT.json` ("map").

## The system

A Django application, one PostgreSQL schema per school, Celery workers with Beat, and
Resend as e-mail provider. Its grain decides the grain of the models:

- `base/services.py` wraps every mutating method of a service in one transaction with a
  permission check (`service_command`); selectors and repositories read and write inside it.
- Isolation is READ COMMITTED. A service locks the rows it relies on with
  `select_for_update`; what it reads without a lock may be stale when it writes.
- `base/events.py` calls required handlers inside the transaction and publishes Celery
  messages with `on_commit`: a message may be lost after the commit, and the broker may
  deliver it twice.
- `base/models.py` compares and increments `version` in every save of a versioned row.

So a command that holds all it reads under lock is one action, and a command that reads
something before it waits for a lock is split there. A refused command changes nothing
and is simply not enabled; a split one may roll back at any point.

### Inventory

| Component | State | Operations | What is hard | What makes it correct |
|---|---|---|---|---|
| notifications, outbox | `MessageLog` (dispatch state, lease, attempts, frozen envelope, provider state), generations, receipts | create for an event, claim, dispatch, finish, revoke, Beat recovery, webhook, reprocess | leases that expire under a slow worker, crashes, lost and repeated tasks, webhooks in any order | one content per key, exclusive claims, one open generation, outcomes real and never regressing, every intention settled |
| reminders (enrollments, financeiro) | reminder row with its current delivery and status | create, project the delivery's outcome, follow the successor | late outcomes of old generations | the row shows the newest generation |
| enrollments, classes port | applications, checklist, enrollments, seats | create, correct, submit, approve, reject, cancel, finalize, transfer, checklist decisions, resize | last seat, transfers, concurrent approvals, stale checklist reads | reservations honoured, uniqueness per year, workflow and record agree |
| activities | activities, lines per student, groups | create, edit, change class, grade, launch, reopen, synchronize with enrollment changes | roster read before a lock, launch against enrollment changes | drafts follow the roster, launches complete, launched grades frozen |
| financeiro, receivables | contract and revisions, billings, payments, allocations, receipts | draft, activate, suspend, amend, materialize, cancel, close; ad hoc billing, assess charges, renegotiate, cancel; pay, confirm, reverse | balances and titles read without a lock, payments recorded late, reversals on renegotiated billings | paid is allocated and within the debt, interest follows the delay, installments charged once, none forgotten |
| accounts, core access, departments | accounts, invitations, access matrix, departments | create, invite, accept, edit, deactivate, restore, change the matrix, configure a department | commands split around people who accept an invitation meanwhile | an administrator remains; open requests keep somebody who may attend them |
| service_requests | tickets, cycles, answers, notices | open, answer, forward, resolve, reopen, cancel, sweep of deadlines | overlapping sweeps over a list read without a lock, cycles against late notices | resolved only if answered, one overdue notice per cycle |
| students, assisted import | batches, records, seal of use, manifest | import, use, undo, recovery | undo against the first use of a record | a used record is never undone |
| agenda | weekly cells with validity, slots | create, supersede, end, copy a day, edit a slot | planners who check what others are about to write | nobody is booked twice |
| notifications, announcements | announcement, versions, revisions | draft, edit, schedule, cancel, publish by person and by task, correct | overlapping executions of a task that listed earlier, stale pages | what is published is what was decided |
| student_diary | daily sheets, rows, editions | save, submit, return, approve, reopen | the roster and rows change while a sheet is under review | what is published was submitted |
| attendance | roll calls, entries; justifications | open, record, update | two people with pages of different ages, entry by entry | no mark is overwritten unseen |
| guardians, links | links of a student with guardians, one primary | link, edit, remove | two links of one student in two transactions | one primary guardian (violated, see Findings) |
| registries (students, teachers, rooms, ...) | single aggregates | create, update, deactivate | stale forms | optimistic version |
| academic_calendar, tenancy, audit, dashboard, templates, exports | - | - | - | I/O, presentation, isolation by schema |

Components meet in four ways: calls inside one transaction (finalizing an application
calls the academic port of `classes/services.py`, which calls
`activities.sync_class_submissions`); required handlers of domain events (an announcement
or a reminder creates outbox rows in its own transaction); rows locked by several
commands (students, classes, activities, enrollments); and Celery messages after commit.

`PROJECT.json` lists under "hazards" each point of the code where these behaviours bite.

## Modules

### `Outbox` - delivery intentions, workers, provider

State: `log[d]` is the `MessageLog` row of delivery `d = <<source, generation>>` (dispatch
state, status, attempts, token, frozen envelope, last event, `delivered_at`); `reminder`
and `inbox` are what other apps read; `signals` the Celery messages; `batch[w]` the ids a
Beat run of worker `w` has still to visit; `worker[w]` its place in
`OutboxService.dispatch`; `person` and `school` the facts a claim reads (standing, address,
sender, domain); `accepted` and `emitted` what the provider took and reported; `receipts`
the events already processed.

| Action | Code |
|---|---|
| `CreateDelivery`, `LoseSignal` | `create_event_deliveries`, `publish_task_after_commit` |
| `BeatScan`, `DispatchDue` | `recover_tenant_communications`, ids read once, claims later |
| `DispatchSignal` | `deliver_outbox_task`; the message may stay, being redelivered |
| `ClaimDelivery` (part of both) | `claim_delivery`: ignored, blocked, refused, inbox or taken |
| `RecheckAncestors`, `RecheckRecipient`, `Send` | the three steps of `dispatch` after the claim's commit |
| `FinishDelivery`, `FinishRevoked` | the end of the attempt, fenced by the lease token |
| `LeaseExpires`, `BackoffElapses`, `Crash` | time and failure |
| `ProviderReports`, `ProcessResendEvent` | Resend, and `process_resend_event` with the reminder's projection |
| `RequestDeliveryRetry` | human reprocessing: a successor of the newest generation |
| `Change` | people editing addresses, preferences, guardianships, sender |

Abstractions. Time is two flags per row: `leased` (`lease_until` is in the future) and
`waiting` (`next_attempt_at` is). The token is a fresh number per claim. Event instants of a
message are strictly increasing and stand for the receipts' ids too. Sources do not
interact, so one source with all its generations is enough. The claim reads the earlier
generations and the row in one step. Reason codes, audit rows, the permission part of
`can_reprocess`, the limit of 100 rows per scan and the mismatch guard on provider ids
are left out.

`DurableDelivery` is the abstract specification: intentions that are open until settled,
one content chosen once, outcomes that only advance, at most one open intention per
source. `Outbox!ImplementsPromise` is the refinement.

### `Enrollments` - applications, seats, checklist

State: `application[a]` (status, type, student, class, source), `bond[a]` (status of the
enrollment the application created: an application creates at most one), `document[a]`,
`seats`, and `tx[k]`, the approvals and completions in progress. A command locks student and
application, then the class. Approval and completion read before they wait for the class,
so they are `BeginApproval`, `LockClass`, `CountEnrolled`, `DecideApproval` and
`BeginFinalize`, `LockClass`, `CompleteEnrollment | CompleteTransfer`, with `Rollback` anywhere;
the other commands are single actions guarded by the locks they need. The counts of
approval are two queries, hence two steps. `ResizeClass` is `update_class`, which does not
look at occupancy.

Abstractions. `NEW` stands for a new enrollment and an inbound transfer, equal but for
texts. Any subset of the requirements may be asked for at creation. Left out: versions,
texts, batch confirmation of reenrollments, deactivation of a class and the change of a
class's year.

`SeatBooking` is the abstract specification: students and the classes they live in (`home`) or
have booked, and the seats of each class. A student books a class with a free seat, one a
year, gives the booking up, takes the place it stands for, exchanges a place for another of
that year, or leaves; a class may be resized to less than is taken. It has no applications,
sessions or locks, and every operation is atomic. `Enrollments!ImplementsBooking` is the refinement:
`Home` maps the active enrollments to places, `Booked` the approved applications with a class.
It says how the places follow one another, which the invariants do not: an enrollment comes
from the student's own booking of that class, and a transfer changes both places in one step.

### `ActivityScores` - grade book against enrollment changes

State: `enrolled[s]`, `activity[a]`, `line[a][s]` (`ActivitySubmission` rows, soft-deleted
lines keep their score), `tx[k]`, and `unsynced`. Three transactions are split: an
enrollment change with its synchronization (`BeginChange`, then for each class
`SelectDrafts`, `LockDraft`, `SyncClass`, then `CommitChange`), the creation of an activity
(`BeginCreate`, `CommitCreate`), the launch (`BeginLaunch`, `ReadRoster`, `CommitLaunch`). They
wait for each other's rows and may roll back, which is also how PostgreSQL breaks a
deadlock. `LockDraft` re-reads the status of the row once it has the lock, as PostgreSQL
does for a `SELECT ... FOR UPDATE`.

`unsynced` is a ghost variable: the activities that were created, moved to a class or
reopened across an enrollment change. Those windows exist in the code (see Findings and the
hazards of `activity.py`); the invariants speak of all other activities, and the run
`activity_drafts` shows the simplest window.

Abstractions. One academic year; groups, texts and dates left out; one roster read per class
where the code reads it once per activity under the same locks. The key-share locks of
foreign keys are left out, which only adds interleavings.

### `Receivables` - contract, titles, payments

State: one student's `contract` (status, revision, count, value, last vigency), the table
`billing` of titles in order of insertion (rows `1..used`), `payment[p]` with its
allocations `part[p][i]`, `receipts`, the calendar `today`, and `hold`, the transaction of a
`cancel_contract` or `close_contract` in progress.

| Action | Code |
|---|---|
| `CreateContract`, `UpdateContractDraft`, `ActivateContract`, `SuspendContract` | `services/contracts.py` |
| `MaterializeBillings` | `materialize_contract_billings`, `materialize_billings_by_class` |
| `CreateAmendment` | `services/amendments.py`: future titles replaced, the schedule extended |
| `BeginCancelContract`, `EndCancelContract`; `BeginCloseContract`, `EndCloseContract` | the two commands that lock the contract and read its titles without a lock |
| `CreateAdHocBilling`, `CancelBilling`, `AssessLateCharges`, `RenegotiateBilling` | `services/billings.py` with `services/rules.py` |
| `CreatePayment`, `ConfirmPayment`, `ReversePayment` | `services/payments.py` |
| `Tick` | a month goes by |

Abstractions. Time is in whole competencies and installment `n` falls due at tick `n`; money
is in whole units and rates are per unit of principal. A payment stands for its idempotency
key, which is a unique column: a second request with the key changes nothing.
`create_payment` reads balances without a lock, but a pending payment disables nothing, so
one step reaches the same states. `Touch` records that a title which an open cancellation
has listed was saved since: its version no longer matches and the cancellation rolls back.

### `Staff` and `ServiceDesk` - accounts, departments, requests

`Staff` has the accounts (`user`), the access matrix, the departments with their active
staff, and one command per session. Every administrator's command locks the row of the
ADMIN role first, so at most one is at work; `update_user` and `deactivate_user` are split
between their checks and their writes (`BeginUpdateUser`, `CommitUpdateUser`, ...), since
`AcceptInvitation` does not take that lock.

`ServiceDesk` extends `Staff` with the requests of families: status, cycle and deadline of a
request, who answered, the overdue notices. `SweepRequests` lists late requests without a
lock and `NotifyOverdue` locks and examines each again, in as many executions of the Beat
task as overlap. Left out: `assign_request` (the attendant of a request decides nothing
here), internal notes, expected versions (they only refuse more).

### `ImportSeal` - assisted import against the use of its records

State: the `batch` statuses, the `record` rows, the versions the `manifest` of a batch noted,
`contested` (records whose CPF or e-mail another record has taken), the `lock` on each batch
row (the session that holds it) and the `command` of each session.
A command that uses imported records locks their batches in order (`LockBatch`), checks that
they are active (`CheckActive`) and seals them with its commit; an undo
(`BeginUndo`, `CommitUndo`) locks the batch, compares the records with the manifest and
removes them; `BeginRecovery`, `CommitRecovery` bring a batch back, unless `RegisterSubstitute`
has registered someone under the identity of a withdrawn record meanwhile.

### `Timetable` - weekly schedule

State: `cell` (class, teacher, room, day, slot, validity in weeks), `span` (time of each
slot) and `planner`, the transaction of each session. `CreateSchedule`, `CreateSuccessor`,
`EndSchedule`, `CopyDay` and `WriteTimeSlot` begin; `LockNext` takes the rows of the resources
in their order, `Check` looks for a conflict among committed rows, `Commit` writes.
`Abandon` stands for any refusal: licence of teachers, shifts, versions.

### `Announcements` - drafts, schedules, publication

State: `notice` (status, content, version, and the ghosts `decision`, `decided`: who last
decided to publish what), `revisions` (what was published), `page[m]` (what a manager is looking
at), `listed[w]` (what an execution of the publishing task has listed), and two facts a
publication reads again: who is `allowed` to publish and who is `reachable`. Saves compare the
version of the page (`Edit`, `Schedule`, `CancelSchedule`, `OpenCorrection`, `Publish`);
`ListDue`, `PublishListed`, `SkipListed` are the task. Viewed and acknowledged marks, and the
e-mails of a revision (the sources of `Outbox`), start from a revision and never come back.

### `StudentDiary`, `RollCall`, `Guardianship`

`StudentDiary`: `sheet` (workflow status of a class's day), `diary` (the answers of each child with
a daily row), `roster`, `saving` (the form each teacher is saving), what was `submitted` and
what was published (`editions`). Saving is split
(`BeginSave`, `CommitSave`, `AbandonSave`); `SubmitSheet`, `RequestChanges`, `ApproveSheet`,
`ReopenSheet` are the workflow. The catalogue of routine aspects is left out.

`RollCall`: `roll` (entries with versions), `screen[m]` (the page a person loaded), `marking[m]`
(the form being recorded). Entries are compared and written one by one inside one
transaction (`WriteEntry`) and hold their rows until `CommitMarks` or `AbandonMarks`.

`Guardianship`: `link` and `linking`: `LinkStudent` and `UpdateLink` write the session's own
link, read the other primary links and clear them one by one.

### Proof and instance modules

`OutboxProofs`, `EnrollmentsProofs`, `ActivityScoresProofs`, `ReceivablesProofs` with
`PaymentsProofs`, `ServiceDeskProofs` (with `Staff`), `ImportSealProofs` and `SchoolDayProofs`
(`RollCall`, `StudentDiary`, `Announcements`, `Timetable`) hold the theorems. The `MC` modules extend the
specifications with definitions for the cfg files and the symmetry of their model values.
`MCSchoolDay` puts five specifications side by side: no action of one reads the state of
another, so its variable `focus` explores them one at a time.

## Runs

| Run | Checks | Instance |
|---|---|---|
| `outbox_claims` | `TypeOK`, `OneContentPerKey`, `ExclusiveClaim`, `OneOpenGeneration`, `OneInboxPerSource`, `LiveLeaseRespected` | 2 workers, 2 attempts, 2 generations, 1 edit, 1 event (1.1 million states) |
| `outbox_webhooks` | `SuccessIsReal`, `ReminderShowsCurrent`, `ProviderStateNeverRegresses`, `ImplementsPromise` | 1 worker, 2 attempts, 2 generations, 3 events per row (300 thousand) |
| `outbox_recovery` | `EventuallySettled` | 1 worker, 3 attempts, 2 crashes, under `FairSpec` (55 thousand) |
| `enrollments` | `TypeOK`, `SeatsNotOversold`, `ReservationHonored`, `OneActivePerYear`, `OneOpenPerYear`, `EnrolledHasBond`, `EnrollmentHasDocuments`, `ImplementsBooking` | 2 students, 3 applications, 3 classes of two years, 2 clerks, 1 seat, 1 resize (265 thousand) |
| `activity_scores` | `LinesFollowRoster`, `LaunchIsComplete`, `LaunchedIsFrozen` | 2 students, 2 classes, 1 activity, 3 sessions, scores 0..2 (280 thousand) |
| `receivables` | `TypeOK`, `PaidIsAllocated`, `PaidWithinDebt`, `PunctualPaysNoCharge`, `InterestWithinDelay`, `CancelledPaidWasRenegotiated`, `InstallmentChargedOnce`, `NothingLeftToMaterialize`, `ReversalRestoresDebt` | either the ledger (2 payments, 3 titles, one installment, rates 1) or the schedule (one payment, no charges, 4 titles, 3 revisions, counts 1..2), 2 ticks (480 thousand) |
| `service_desk` | `AdministratorRemains`, `OpenRequestsAttended`, `ResolvedWasAnswered`, `OverdueNoticedOnce` | 2 accounts, 2 administrators, 2 departments, 1 request of 2 cycles, 2 sweeps (860 thousand) |
| `school_day` | `UndoTakesOnlyTheImport`, `NoDoubleBooking`, `PublishedAsDecided`, `PublishedWasSubmitted`, `NoMarkLost` | five parts, see below (900 thousand) |
| `outbox_reprocess`, `outbox_complaint`, `activity_drafts`, `primary_guardian` | one property each, violated | see Findings |

Why the bounds are enough. Two workers suffice for a lease that is lost and taken over; two
attempts let one fail and the next settle; two generations let an old one speak after its
successor exists; three events per row allow success, complaint and a late duplicate in any
order. A single worker in `outbox_webhooks` still races the webhooks and the
reprocessing. In `enrollments` one seat makes every approval a contest, three applications
give a chain (enroll, transfer, transfer back or reenroll), two clerks are all
that can be at work, one per student. In
`activity_scores` three sessions let a launch, a creation and an enrollment change overlap;
activities interact only through the order of their locks, so one is enough for the
properties, and two would add deadlocks that end in `Rollback`.

In `receivables` the constraint `Either` keeps a behaviour in the ledger or in the schedule: the
ledger has two payments with charges and one ad hoc title under a single revision; the schedule
has three revisions and up to four titles, and its amendments meet one payment, without charges.
Two payments contest a balance, three titles allow a renegotiation and the recomposition after
its reversal; a cancellation or a closing is in progress beside one payment, since what it can
miss is one save, and in the schedule only under the first two revisions; three revisions allow
an installment to be suppressed and scheduled again.

In `service_desk` one request of two cycles and two sweeps let a notice of the first cycle
arrive in the second; two accounts are the last administrator and another. `Either` lets
the second department work only beside a request in its first cycle, and two sweeps meet
between account commands, which they do not write to.

In `school_day`: imports, 2 batches of one record each, 2 sessions, versions up to 3; the
timetable, 2 classes of one teacher, 2 slots that may come to overlap, 2 days, 2 cells, 2
planners; one announcement with 2 managers and 2 executions of the task; one sheet submitted
three times; one call of 2 pupils marked by 2 people.

`CHECK_DEADLOCK FALSE` everywhere: the bounds (generations, attempts, events, edits,
applications, days, titles) let the bounded system come to rest.

Symmetry is used only over identities that are interchangeable (workers, addresses,
senders, clerks, students, sessions...) and never in the run with a liveness property.

Each property of a passing run has a mutant in `PROJECT.json`: a plausible slip in the
code it depends on (a dropped guard, a forgotten lock, a missing fence) that violates it.
Some of the mutated operators stand beside the original, marked "A slip".

### Fairness

`EventuallySettled` assumes weak fairness of `BeatScan`, `DispatchDue` and the worker's own
steps, for each worker, and of the passing of time. Beat's schedule in the settings fires
the recovery every minute, a live process continues what it started, and leases and
backoffs are instants. Nothing is assumed of the broker (a signal may be lost and may never
be served), of the provider's webhooks, of people, or of a worker that crashes; crashes
are bounded by `MaxCrashes`.

## Proofs

`OutboxProofs` proves, for any sets of sources, workers, addresses and senders and any
bounds (assumption `OutboxAssumption`):

- `CoreInvariant`: `Spec => []Core`, where `Core` is the conjunction of
  - `TypeOK`;
  - `TokenCountsClaims`: the token of a row is the number of its claims. `TypeOK` bounds
    both by `MaxAttempts`, and only `Exhausted` keeps a claim from passing the bound, so
    neither is inductive alone;
  - `AbsentIsBlank`: a row not yet created is blank and nothing refers to it, so creation
    cannot meet a worker or an acceptance under its key;
  - `OpenIsUnanswered`: an open row has no outcome. Otherwise a claim could follow a success;
  - `EnvelopeFrozen`: acceptances under a key, the envelope of a worker at work and the
    envelope of the row are equal, and a worker's token is not ahead of the row's. It is
    the inductive form of `OneContentPerKey`: what the provider took is equal to the row
    at all times, not merely among itself.
- `TypeCorrect`: `Spec => []TypeOK`.
- `OneContent`: `Spec => []OneContentPerKey`, ADR-0023's promise that a technical retry
  reuses recipient and content under the same key.

`Whole` adds to `Core` what the other properties need:

- `Backed`: a worker back with a success was accepted, what the provider emitted has an
  acceptance behind it, and a notice in the application has neither;
- `OneOpenGeneration`, `ExclusiveClaim`, `SuccessIsReal`, `ReminderShowsCurrent` themselves;
- `Noted`: a source has at most one notice in the application, and then one of its
  generations is delivered; so a later one is never claimed to write a second.

Every step is first reduced to what it does to the rows (`Moved`: quiet, handed over,
recorded, restarted or rewritten); the preservation of `Whole`, the action properties
and the refinement step follow from that. The theorems are `ClaimsExclusive`,
`OneGenerationOpen`, `OneNotice`, `SuccessesReal`, `RemindersCurrent`, `StateAdvances`
(`ProviderStateNeverRegresses`), `LeasesRespected` and `KeepsThePromise`: the outbox implements
`DurableDelivery`. Only `EventuallySettled`, which is liveness, stays with TLC.

The proof has one lemma per action, each with one step per conjunct of the invariant; TLC
checked the conjuncts first.

`ActivityScoresProofs` proves, for any sets of students, classes, activities and sessions
(assumption `ActivityScoresAssumption`):

- `Invariant`: `Spec => []IInv`, where `IInv` is `TypeOK`, `LinesFollowRoster` and `LocksSuffice`:
  activities that exist have a class (`HasClass`), and for each session
  - `HeldExclusively`: what it holds is a draft held by nobody else;
  - `Purposeful`: the activity it creates is still absent and its own, the draft it launches
    is held, and the student it enrolls or withdraws is nobody else's;
  - `OnItsWay`: what is left of the itinerary of a change is all of it or the target;
  - `DraftsCovered`: a draft of a class the change touches is yet to be selected, is selected
    or held, or is held with the roster the change will leave. This is why no draft escapes:
    a draft that appears, moves or reopens meanwhile is set aside in `unsynced`;
  - `CheckHolds`: the lines a launch found valid stay so, and the roster it read stays the
    roster: whoever would change it must hold the activity first.
- `DraftLinesFollowRoster`, `LaunchesAreComplete`, `LaunchedStaysFrozen`: the three properties the
  run `activity_scores` checks; and `TypeCorrect`.

`LinesFollowRoster` alone is not inductive: the commit of an enrollment change writes lines
from a roster read earlier, and only `DraftsCovered` says that roster is still right and
that every draft of the class is among those held.

`EnrollmentsProofs` proves, for any sets of students, classes, clerks and requirements and any
finite set of applications (assumption `EnrollmentsAssumption`):

- `Invariant`: `Spec => []IInv`, where `IInv` is `TypeOK`, the four invariants below and `Orderly`:
  - `Rooted`: an application's source is an enrollment the same student had, of the same year
    for an internal transfer. `OneActivePerYear` needs it: the enrollment a transfer ends is the
    one active enrollment of the year in which it begins another;
  - `BoundWhenCompleted`: only a completed application bears an enrollment, so a correction
    never moves the class of one;
  - `Serialized`: a transaction in progress finds its application in the status it read and its
    checklist still complete, and no two are about one student. This is the student's lock,
    as `CompleteEnrollment` uses it: the check for an active enrollment and the write that
    follows are of one student.
- `TypeCorrect`, `OneOpen`, `OneActive`, `Agreement`, `DocumentsHeld`: five of the eight properties
  the run `enrollments` checks.
- `ReservationsHonored` and `SeatsNeverOversold`: two more, about seats. They need, beside
  `IInv`, the invariant `Seated`:
  - `ClassHeld`: a transaction that waited for a class holds it alone, it is the class of its
    application, and the enrollments it has counted are still at most as many. Approval counts
    enrollments and reservations in two queries; between them another command may cancel an
    enrollment but none can add one, for whoever adds one needs the same class;
  - `SeatsKept`: until a class is resized, its enrollments and reservations fit its seats. A
    completion passes the seat of a reservation on (`SeatPassedOn`); a transfer also frees one.

  The counts are cardinalities of sets of applications, finite by assumption. Most steps only
  shrink those sets (`Quiet`, `QuietCounts`); an approval adds one reservation under the counts it
  holds, and a completion exchanges a reservation for an enrollment.
- `KeepsTheBooking`: `Enrollments` implements `SeatBooking`. The maps `Home` and `Booked` are images
  of sets of applications, so a step is reduced to what it does to the two sets (`PlacesGained`,
  `PlacesLost`, `PlacesKept`). Removing an application removes a place only when no other of the
  student's is of the same class, which is where `OneActivePerYear` and `OneOpenPerYear` are
  needed; that the seat is there when it is booked is the count under the lock (`ClassHeld`) and
  `TakenByOccupants`: different students' places are different applications.

`EnrollmentHasDocuments` holds although the checklist is read without a lock: every command
on a document finds its checklist incomplete (`ChecklistStep`), so a complete one stays so.

Each lemma about an action reduces it to a general one: `TxStep` (only the transaction
moves), `StatusStep` (the workflow moves), `RewriteStep` (the context of an application is
written), `AcademicStep` (enrollments begin or end), `AsideStep` (documents and seats).

`ReceivablesProofs` proves, for any numbers of titles, payments, days and revisions and any
values, rates and parts (assumption `ReceivablesAssumption`):

- `ReceivablesInvariant`: `Spec => []RInv`, where `RInv` is the types, `NothingLeftToMaterialize` and
  - `TableOK`: every row is sound on its own (`RowOK`: a replaced title is cancelled, interest
    is within what the principal bears until the last assessment), and rows are inserted in order;
  - `ScheduleOK`: among the originals of an installment one is the last (`LastOf`), of a revision
    not ahead of the contract's, and all others were replaced in earlier revisions. An
    amendment replaces exactly that last title or finds it suppressed (`AmendedNumbers`),
    which is why `Scheduled` may take the title of the highest revision;
  - `TitlesOK`: what is paid, or listed by an open cancellation, is a title.
- `ReceivablesTypes`, `InterestBounded`, `ChargedOnce`, `NothingLeft`: four of the nine properties of
  the run `receivables`; the others are in `PaymentsProofs`.

Every row that is rewritten stays the `Kin` of what it was (number, source, revision, and
replaced once for all); `Insertion` says what rows a step adds. All steps are instances
of `Steady` (no title of the schedule is issued) or `Issued`.

`PaymentsProofs` extends it with what payments do, from the same assumption (payments are
finitely many). `PaymentsInvariant`: `Spec => []PInv`, where `PInv` is `RInv` and `AccountsOK`:

- `DuesOK`, of every title: no component is paid beyond what is owed of it, and charges that were
  not recomposed come from an assessment after the due date;
- `PartOK`, of every allocation: none without an amount, and once conciliated it is exactly the
  sum of its fee, interest and principal;
- `PaidIsAllocated`: without it a reversal could take from a paid column what is not there;
- `HeldUnpaid`: what an open cancellation of the contract may still cancel is unpaid. The
  cancellation read its titles without a lock; a payment between its two steps touches what
  it pays, and a touched title undoes the cancellation;
- `PunctualPaysNoCharge` and `CancelledPaidWasRenegotiated` themselves.

Steps that only rewrite or insert titles are `Quiet` (no title's payments change), and
`QuietStep` preserves the whole invariant at once; only creation, confirmation and reversal of
a payment have a proof of their own. From it come `PaidColumnsAllocated`, `DebtNeverOverpaid`,
`PunctualWithoutCharges`, `CancelledWasRenegotiated` and the action property
`ReversalsRestoreDebt`. In the last, the claims of a reversal's titles are those before it,
plus the amounts of the titles still active, plus the claims of the recomposed ones, which are
the amounts of the cancelled ones under new identities.

The sums of these properties (`SumFunctionOnSet`, a recursive function over subsets) are
reasoned about without the library's induction theorems, which the provers cannot use: the
subsets of a finite set are well founded by inclusion, so of the subsets on which a law
would fail one is least (`LeastSubset`), and removing an element of it gives a contradiction.
So are proved that the sum exists (`SumsExist`, `SumsAgree`), does not depend on the order
(`SumWithout`, `SumWith`), and `SumPlus`, `SumRenamed`, `SumSupport`, `SumSame`.

`ServiceDeskProofs`: `DeskInv` contains `StaffInv`: accounts are sound and the result of a pending
command stays sound, because acceptances only add people, and one account command is at work
at a time (the lock of the role). Theorems `DeskTypes`, `SomebodyAdministers`,
`RequestsAttended`, `ResolvedAnswered`, `OneOverdueNotice`.

`ImportSealProofs`: `SealInv` says of each session that what it read under the lock of a batch
stays true (`SessionOK`), that the batch of each record it names is sealed, held or still to
lock, and that records of an untouched batch are as imported. Theorems `SealInvariant`,
`OnlyTheImport`.

`SchoolDayProofs`: `RollInv` (an entry written but not committed is held, at the version the
form saw, and by no other form), `DiaryInv` (under review the rows are those of the last
submission, which no edition answers yet, and nobody saves), `NoticeInv` (a version stands
for a content and a decision), `TimetableInv` (a session that has checked still holds every
resource it checked, `CheckedOK`, so nobody has committed a cell or slot it would conflict
with). Theorems `RollKept`, `SheetsReviewed`, `DecisionsPublished`, `NobodyBookedTwice`.

Every safety invariant and action property that a passing run checks is now also a theorem,
and so are the two refinements. Model-checked only:

- `EventuallySettled`: liveness under fairness is beyond the prover;
- the four violated properties of the section below, which are refuted by a behaviour.

## Findings

1. `outbox_reprocess`: `finish_revoked` compares the token and nothing else. A webhook may
   complete the row between the claim and the last checks; if the recipient turned
   ineligible meanwhile, the delivered row becomes `REVOKED` and may be reprocessed, against
   `request_delivery_retry`'s own message.
2. `outbox_complaint`: a delivered message marked as spam no longer counts as a success of an
   earlier generation (`previous_delivery_succeeded`), so its successor is sent; ADR-0023
   says a confirmation of any earlier generation blocks the next send.
3. `activity_drafts`: `reopen_scores` does not synchronize the lines, and synchronization
   skips launched activities: a student enrolled in between has no line in the reopened
   draft until some other enrollment of the class changes.
4. `primary_guardian`: `link_student` and `update_link` lock neither the student nor the links
   they do not write. Two sessions that each give a student a first primary guardian see no
   other primary link, clear nothing, and both commit, against the docstring "Garante no
   máximo um vínculo principal ativo por aluno".

## Plan

Done: every module of the first plan (`Outbox` with `DurableDelivery`, `Enrollments` with `SeatBooking`,
`ActivityScores`, `Receivables`, `ImportSeal`, `Announcements`, the service desk, diary and
attendance, staff and timetable), and the theorems named above.

Left, in the order of their worth:

1. The catalogue of routine aspects (`student_diary/configuration_services.py`), whose commands
   read each other's rows, and groups of an activity.
2. Class maintenance: change of year and deactivation against applications in progress.
3. Receipts and acknowledgements of an announcement.

## Not modelled

HTTP views, templates, static files, reports, exports, media, demonstration data, settings,
migrations and deployment: I/O, presentation and configuration. They, with forms,
serializers and selectors that only filter for a page, are most of the implementation's
lines, which is why the map names about a seventh of them: it names the services whose
steps the models translate, and no line they do not.

The access matrix beyond the permission to attend requests, and Django's authentication
(passwords, sessions, recovery by e-mail): the models assume an authorized caller. Tenancy: each
model is one school. Audit rows: written in the transaction of each command and read by nothing
modelled. Registries (students, teachers, rooms, addresses) and the academic calendar: single
rows with validations and an optimistic version; what binds them to others, the seal of an
import and the links of guardians, is in `ImportSeal` and `Guardianship`. Preferences and
templates of notifications: single rows that the outbox reads as facts of the world.

Four hazards listed in `PROJECT.json` have no property: the cancellation of an application whose
enrollment has an approved transfer, the change of a class's year, deadlocks between opposite
transfers (PostgreSQL ends one, and the models let any transaction roll back), and the hidden
score of a student who left a class. Their notes say why.
