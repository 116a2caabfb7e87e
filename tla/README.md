# A TLA+ verification of GPI Plant Manager

GPI Plant Manager is a FastAPI application that keeps its own state in
PostgreSQL and shares attendance, time off, payroll and feedback with Odoo over
XML-RPC. Nearly everything that is hard in it has the same shape: a durable row
in PostgreSQL describes work to do in Odoo, several threads or processes may pick
the row up, Odoo may be slow, may answer with an error after it did the work, or
may be edited by people meanwhile, and the process may stop between any two steps.
This project models those protocols, checks them with TLC and proves the central
invariants with TLAPS.

Paths below are relative to `src/src/zira_dashboard/` unless they say otherwise.

## 1. Inventory

| component | state it keeps | operations | how it meets the others |
|---|---|---|---|
| correction jobs, `attendance_corrections.py` | `attendance_correction_jobs` (status, attempt_count, updated_at as lease, completed_operations), events | `create_job`, `process_job`, `process_next` | writes Odoo, then the mirror, then the recalculation queue, then the audit log; created by managers and by the quick-punch fixer |
| approval email outbox, `time_off_email.py`, `_time_off_email_schema.py` | `time_off_approval_email` | trigger on `time_off_requests`, `run_once` | fed by every writer of `time_off_requests`; creates `mail.mail` in Odoo |
| time clock, `routes/timeclock.py`, `timeclock_sync.py`, `attendance_state.py`, `live_cache.py` | `timeclock_punches_log`, the open-attendance snapshot | clock in, out, transfer; immediate sync; 60 s sweep; `current_state` | writes `hr.attendance`; automatic lunch and automatic salaried days add punches |
| recalculation queue, `attendance_recalc.py` | `attendance_recalc_queue` with two leases (work, cache) | claim, complete, cache refresh, failure | fed by the mirror and by correction jobs |
| attendance mirror, `attendance_mirror.py`, `attendance_sync.py` | `odoo_attendance_mirror`, sync cursor, tombstones | incremental sync, full sweep, store of a job | read by the kiosk, the timeline and readiness; feeds the recalculation queue |
| readiness and department repair | cut-over state, repair queue | activation, repair ticks | mirror, recalculation |
| automatic punches, `auto_lunch.py`, `auto_salaried.py` | per-day runs | ticks, reconciler | punch log |
| quick punch fixer | fixes, failures, inbox alerts | tick | creates correction jobs with an attempt cap |
| time-off requests, `time_off_sync.py` | `time_off_requests` | push sweep, poll, cascade | Odoo `hr.leave`, the outbox trigger |
| absence PTO, `absence_pto*.py` | `absence_pto_requests` with owner and lease | submit, approve, deny, conversion in steps, recovery, review | Odoo leaves |
| payroll guard, `payroll_work_entry_guard.py` | attempts and audit rows | pass: classify, save, change, verify, settle | Odoo work entries |
| feedback mirror, `feedback_sync.py`, `feedback_sync_store.py` | versions, claims, prepared attempts, quarantine | claim, prepare, dispatch, read back, settle, recover, operator dispositions | Odoo improvements |
| feedback tasks, `feedback_task_worker.py`, `feedback_task_delivery.py` | leases, task id, screenshot, delivered version | batch with recovery, lifecycle, result note | Odoo tasks |
| Saturday recruiting, `saturday_recruiting*.py` | openings, responses, publication | activate, commit, cancel, close, prepare, publish | schedules, kiosk |
| schedules, `staffing.py` and the routes that change them | `schedules`, snapshot, version, delivery mark, a cache per process | load, save, publish, toggle, share, delete | Saturday recruiting, Slack |
| user access, exception inbox, production reports, forklift pipeline, caches, pages | see `PROJECT.json` | | |

The background work is driven by the ticks of `app.py`; each runs in a thread, and
more than one process may run them. What is hard, by component:

* correction jobs: two workers on one job, a write that lands after its client gave
  up, a lease that runs out under a working thread, an edit by a person between
  preview and write, a stop between any two commits. Correct means: one write at a
  time, in the planned order, never over somebody else's change, and a job that
  ends.
* outbox: a create whose answer is lost, a stop around it, a request withdrawn
  while its message waits in Odoo's queue, a worker lock that lives in a database
  session. Correct means: at most one message, and a row that says what became of it.
* time clock: the immediate sync races the sweep, rows are synced out of order after
  a failure, a snapshot is stamped later than it was read. Correct means: Odoo ends
  up with the attendances the punches describe, and the kiosk shows the last punch.
* automatic punches: a tick reads early and writes late, a restart falls between a
  punch and its run, leave is approved after the first punch, people punch and edit
  in between. Correct means: one lunch that is deducted and ends; a day that is taken
  back cleanly or handed to a person.
* recalculation queue and mirror: results computed from an older request, a write
  that Odoo commits later than it is dated, deletions that an older read undoes.
  Correct means: a ready day was computed from the attendance as it is now, and the
  mirror becomes Odoo.
* absence PTO and the payroll guard: long remote sequences resumed by somebody else.
  Correct means: a waiting request costs nothing, an approved one is one paid day, a
  changed work entry is on record and is not changed twice.
* feedback: an attempt whose outcome is unknown. Correct means: one remote row, one
  task, and "synchronized" is what Odoo says.
* Saturday recruiting and schedules: the last opening, taken twice; a save that had
  loaded the schedule before somebody else changed it.

`PROJECT.json` lists every such place with its line ("hazards") and the properties
that watch it.

## 2. Modules

| module | models | proofs |
|---|---|---|
| `CorrectionJobs` | one correction job, its workers, Odoo and the people who edit it | `CorrectionJobsProofs` |
| `TimeOffEmail` | one request, its outbox row, the workers, Odoo's mail queue | `TimeOffEmailProofs` |
| `PunchSync` | one employee's punches on their way to Odoo and to the kiosk | `PunchSyncProofs` |
| `AutoLunch` | the automatic lunch of one person-day | `AutomaticPunchesProofs` |
| `AutoSalaried` | the automatic day of one salaried person | `AutomaticPunchesProofs` |
| `RecalcQueue`, `DayLedger` | the queue of days to compute; what it promises | `AttendanceDataProofs` |
| `AttendanceMirror` | the mirror, its runs, and a job that stores rows | `AttendanceDataProofs` |
| `AbsencePto` | the conversion of one absence | `PaidTimeProofs` |
| `PayrollGuard` | the work entries of one employee and day | `PaidTimeProofs` |
| `FeedbackSync` | the mirror row of one feedback | `FeedbackProofs` |
| `FeedbackTasks` | the task of one feedback | `FeedbackProofs` |
| `SaturdayRecruiting` | one recruited Saturday and its schedule | `StaffingProofs` |
| `VolunteerMatch` | the matching of the volunteers, with the stack of its calls | `StaffingProofs` |
| `ScheduleStore` | the stored schedule of a weekday | `StaffingProofs` |

The `MC` modules are what TLC runs. `MCCorrectionJobs`, `MCTimeOffEmail` and
`MCPunchSync` add a symmetry or a bound to one module. `MCAutomaticPunches`,
`MCAttendanceData`, `MCPaidTime`, `MCFeedback` and `MCStaffing` check components that
belong together side by side: a variable `on` says which component, with which
constants, a behaviour is about (a *scene*), and the state of the others rests. Where
such a module EXTENDS a component, the cfg gives that component's constants and the
theorems are about the very same definitions; the other components are instances with
their constants in the `WITH`.

A transaction of PostgreSQL is one step, and so is an XML-RPC call; a read and the
compare-and-set after it are one step where nobody writes both. A time-out is a call
that has an effect and no answer, or the reverse. Times are kept only as far as
something is compared with them; leases elapse in steps of their own.

### CorrectionJobs

The plan is an ordered list of operations `1..NumOps`; those in `CreateOps` create a
row, the others update or delete one. `status`, `attempt`, `left`, `prog` are columns
of `attendance_correction_jobs`: status, attempt_count (the fencing token), updated_at
(kept as the time left until the row can be claimed) and completed_operations: the
frozen horizon, the confirmed operations, the one reservation with its attempt and
deadline, and the recorded downstream stages. `wk[w]` is a thread inside
`_process_claim`, with its private copy of the list, because stages are written from
that copy. `odoo[k]` is what `_operation_source_state` would say of operation k's row,
`pend` the requests Odoo has not decided. `kept`, `raced` and `wk[w].bad` are history.

`Claim` is `_claim_job`; `Start` validation and `_freeze_recalc_horizon`; `Preflight`
one remote read per step; `Reserve`, `Read`, `Write`, `ReadBack`, `Confirm` the loop
with `_reserve_operation`, `_perform_operation`, `_complete_reserved_operation`;
`Verify`, `Mirror`, `Enqueue`, `RunRecalculation`, `CompleteStage`,
`CompleteWithAudit` the rest. Each has the branches of the code: superseded, source
changed, recoverable error with `_retry_or_fail`, success. `Land`, `Lose`, `TimeOut`
decide a request; `Crash` also stands for an exception that leaves `process_job`;
`Edit` and `EditAround` are people. Odoo decides a request before the deadline renewed
for it (15 minutes, against a client time-out of 15 seconds), and refuses a create
whose interval is taken.

### TimeOffEmail

`row` is the outbox row, `mail[c]` what the c-th create call led to in Odoo, `lock` the
advisory lock, `wk[w]` a thread inside `process_one` with the copy of the row it read
in `run_once`. `Approve` and `Alter` are the writers of `time_off_requests` with the
capture trigger of the same transaction; `LoseLock` ends the session that holds the
lock while its worker goes on. Delays between attempts are left out: a due row may be
looked at at any time.

### PunchSync, AutoLunch, AutoSalaried

`PunchSync.log` is `timeclock_punches_log`; a request (`req`) inserts its rows and
leaves background tasks (`queue`); a thread of `wk` is inside `sync_one_by_id` or the
sweep, row by row, with the open row it read. `odoo` is `hr.attendance`, `snap` and
`fetch` the snapshot and a refresh that has read and not stored. `Round` is the code's
rounding to the shift. Nothing serialises tasks and sweep, so the history variable
`crowded` notes where punches were worked on at the same time, out of order, again or
before they were rounded.

`AutoLunch` splits `run_tick` into its reading (`ReadTick`) and its writing
(`AdvancePerson`: `decide`, `_apply`, punch and run in one transaction), with the kiosk
in between. `AutoSalaried` has the worker's slots, the immediate sync and the sweep, and
the reconciler's `_revert_day` call by call.

### RecalcQueue, DayLedger, AttendanceMirror

`q[d]` is the row of a day with its two leases; a token replaces a time stamp that the
fence compares. `source` is the version of the day's attendance, `prod` and `page` the
versions its production and cached page were made from. `DayLedger` is the
abstract promise: a day's production is pending, or it is what its attendance gives now;
`LedgerSpec` is the refinement (published = pending while the row is unfinished).

`AttendanceMirror` has Odoo's rows with the `write_date` they carry and a transaction
that commits later than that date (`tx`), the cursor (`st`), one run under the lock with
what it has read (`run`), and a correction job's store (`dw`).

### AbsencePto, PayrollGuard

`AbsencePto` follows a request through the steps `not_started`, `absence_refused`,
`pto_created`, `pto_approved`, the leases of its workers, the compensation that closes the
PTO and restores the absence, the reconciler and the two resolutions of a review. A call
carries the leave it was made for; `late` holds calls whose caller is gone. The history
variable `slow` notes that a call outlived the wait or the lease of its caller; `Calm`
(not `slow`, and nobody else edited the day's leaves or its record) is what the PTO
properties assume, except that an undone absence stays undone always. `PayrollGuard`
follows one pass: the attempts an earlier pass left, the classification of the day, the
exact correction saved as an attempt, the read before it, the change, the read after it,
the audit.

### FeedbackSync, FeedbackTasks

In `FeedbackSync`, `sync` and `att` are the rows of `feedback_odoo_sync` and of the
active attempt, `remote[i]` what each remote row says, `wk[w]` a worker's place in its
batch with the projection it sends, `late` the requests nobody waits for. Projections
are abstracted to the status they carry. The operator's three dispositions
(`ReleaseDefinitive`, `ReleasePreAttempt`, `SupersedeAndRetry`) are actions.
`FeedbackTasks` has the lease, the search before every uncertain repetition, the
screenshot, the lifecycle of stage and state, the note, and the read-back. Two history
variables say what has happened: `slow`, Odoo went on with a call whose batch had stopped
waiting; `overlap`, a batch claimed the row while another one was at work.

### SaturdayRecruiting, VolunteerMatch, ScheduleStore

A Saturday's round, its openings per work center, the answers with the centers an answer
was eligible for, the schedule made from it. Every operation is one transaction
under the lock, and publishing is two. `Matches` in `SaturdayRecruiting` is
the declarative "everybody can be placed"; `VolunteerMatch` is the code's augmenting
search and is checked against the same definition. The function calls itself; `calls` is
the stack of its calls, each with its volunteer and the opening its loop is at, and a step
is one round of the loop that runs: pass the opening by (`Pass`), ask who fills it to move
(`AskPrior`, a call), or return without success to the caller's loop (`NoneLeft`). A free
opening makes all calls return at once, each giving its volunteer its opening
(`TakeFree`); nothing else can happen in between, since the function is synchronous.
`ScheduleStore` has the row, the
process cache filled by a load of two queries, drafts that keep a snapshot of what was
posted, versions and delivery marks.

## 3. Runs

| run | scenes and bounds | what it shows |
|---|---|---|
| `job_safety` | 2 workers, an update and a create, 3 faults, 1 edit, 2.0 million states | writes exclude one another, keep their order, protect edits; progress and outcomes hold |
| `job_live` | 2 faults | the job ends |
| `job_resume`, `job_cap` | violations | findings 1 and 2 |
| `email` | 2 workers, 4 calls, 2 faults, 4 changes, 1 lost lock | one message, on record, true verdicts, nothing left open |
| `email_lock` | violation | finding 3 |
| `punch` | 1 task thread and the sweep, up to 3 punches, 1 fault, 1 refresh, 1 edit, `Budget` | Odoo follows the punches, the kiosk shows the last one, all are synced |
| `automatic_punches` | lunch with 3 punches and 1 fault; a whole salaried day while no loops meet; a day of two slots where they do | lunch, salaried day and their ends |
| `attendance_data` | queue of 2 days, 2 workers; mirror in four scenes: 2 rows with late commits, 1 row deleted beside a job, 1 row out of sight, 2 rows with failing runs; 252 000 states | queue, ledger refinement, mirror |
| `paid_time` | PTO with two workers, 2 faults and 2 requests while it is calm; with one worker, slow calls and other people; two payroll processes, and one while attendance changes; 390 000 states | waiting costs nothing, approved is one day that stays, corrections are on record |
| `feedback` | mirror with two workers, or one and one more fault; task with one batch, two batches, late calls; 679 000 states | one row, one task, true delivery |
| `staffing` | 3 people, 2 centers, 2 saves; 3 volunteers and 3 centers, every placement problem; any 3 requests on a schedule, 4 about what is posted | coverable commitments, right matching, a schedule without lost decisions |

Bounds. Two workers are what it takes to have a current and a superseded one;
more only add superseded ones, which the fences treat alike. Two operations give
a first, a last and an order. `Lease = 2` is the smallest lease that can be partly used
up. Faults count crashes, errors, lost answers and lapsed leases together; two or three
allow a fault, a fault of the recovery, and one more. `FixerCap = 2` lets a fixer job
reach the cap after one retry. Calls, rows and versions are bounded above what the
faults can cause, so that their bound never hides an effect. Three punches are the least
that has an in, a transfer and an out. Constraints named `Budget` and `Bounded` cut
combinations, never an event of its own: for each event there is a scene in which it happens
together with the events it can race. What a bound cuts off in the sequential length of
histories is what the theorems of section 5 cover.

Fairness. Each live run assumes weak fairness of a worker's next step, of some claim, of
Odoo ending a call, and of time (a lease lapses, a delay passes, the clock runs). The ticks
of `app.py` repeat for ever, a thread that runs goes on, and every remote call has a
time-out, so the code provides these; faults, edits and operators are never forced. No
run with a liveness property uses symmetry. Deadlock is checked where an explicit step
stands for "nothing left to do" (`job_*`); the other runs switch it off because a
settled row is a proper end and every counter is bounded.

## 4. Properties

| property | what it says |
|---|---|
| `SafeWrites` | at most one write of a job is undecided; a write has all earlier operations confirmed and is not; a reserved job cannot be claimed; a row somebody changed while no write for it was under way keeps that change |
| `HonestOutcome` | an attempt claimed when a row was already changed makes no write; a job fails for a changed source only if somebody changed something; complete means all operations, stages and one audit event; from verifying on nothing is in flight |
| `ProgressIsKept` | confirmed operations, stages, the horizon and a terminal job stay |
| `EventuallySettled` | the job ends |
| `OneMailOnRecord`, `StatusIsTrue`, `SettledStays`, `OpenOnlyIfLost` | one message and never one without an intent on record; skipped means unsent and sent means sent; a settled row stays; a row stays open only if its one create came to nothing unnoticed |
| `AttendancesFollow`, `KioskShowsLastPunch`, `NoSecondClose`, `AllSynced` | synced punches and Odoo agree; the kiosk's side is the last punch's; a closed row is not closed again; every punch is synced |
| `LunchIsRight`, `SalariedDayIsRight`, `ClosedStaysClosed`, `AutomationsEnd` | one automatic lunch, deducted, ended by a sign-out in the gap; lunch between two attendances, a reverted day clean, no human record deleted; a closed day takes no punch; both end |
| `QueueIsRight`, `LedgerSpec` | a ready day was computed from its last request, the unfinished days wait; refinement of `DayLedger` |
| `MirrorIsRight`, `ReviveIsNew`, `DataSettles` | the mirror becomes Odoo, unqueued days are computed, tombstones are true; only a newer reading revives; days get ready and the mirror catches up |
| `ConversionIsRight`, `PaidDayStays`, `UndoneStaysUndone`, `PaidTimeSettles` | a request that waits or was denied has its absence and no PTO, an approved one is one approved PTO that is linked, and no absence beside it; no approved PTO is taken back; an undone absence stays undone; conversions, reviews and defects end |
| `PayrollIsRight`, `CorrectedIsNoop` | one pass; a change made in Odoo is an attempt or in the audit; one pending correction per entry; a correction leaves nothing to correct |
| `SyncIsRight`, `AmbiguousIsHeld` | one remote row until an operator supersedes; synchronized is what the row says; an ambiguous attempt waits for a person |
| `TasksAreRight`, `FeedbackEnds` | one task while Odoo ends its calls; one screenshot and one note while batches do not overlap either; what is delivered is in the task; feedback reaches Odoo or a person |
| `RecruitingIsRight`, `ClosedIsFrozen`, `MatchingIsRight` | commitments can be placed, nobody else is scheduled, a cancelled day is clear; the answers of a closed round are frozen; the matching finds every placement |
| `ScheduleIsRight`, `LockedKeepsPosted` | a toggle stands, and a delivery mark is only on what was delivered; an operation under the lock of the row never loses what is posted |

Several carry a condition that is part of the claim: `raced`, `crowded`, `late`,
`overlap`, `slow`, `Calm`, `hides = 0`, `directs = 0`, `supersedes = 0`, `losses = 0` name the histories in which the code does not
promise the rest; section 6 says what happens there.

## 5. What is proved

Every theorem holds for all constants that satisfy the named assumptions of the module,
with no bound on workers, days, people, punches or faults.

| property of a run | theorem |
|---|---|
| `TypeOK`, `SafeWrites`, `HonestOutcome`, `ProgressIsKept` | `CorrectionJobsProofs`: `TypeCorrect`, `WritesAreSafe`, `OutcomeIsHonest`, `NothingIsTakenBack` |
| `TypeOK`, `OneMailOnRecord`, `StatusIsTrue`, `SettledStays` | `TimeOffEmailProofs`: `TypeCorrect`, `OneMailIsOnRecord`, `StatusIsMeant`, `SettledRowStays` |
| `AttendancesFollow`, `KioskShowsLastPunch` | `PunchSyncProofs`: `AttendancesAreRight`, `KioskIsRight` |
| `NoSecondClose` | `PunchSyncProofs`: `ClosedOnce` |
| `QueueIsRight`, `LedgerSpec` | `AttendanceDataProofs`: `QueueCorrect`, `LedgerImplemented` |
| `MirrorIsRight`, `ReviveIsNew` | `AttendanceDataProofs`: `MirrorIsSafe`, `RevivedByNewer` |
| `ConversionIsRight` | `PaidTimeProofs`: `ConversionIsSafe` |
| `PaidDayStays`, `UndoneStaysUndone` | `PaidTimeProofs`: `PaidDayIsKept`, `UndoneIsKept` |
| `PayrollIsRight`, `CorrectedIsNoop` | `PaidTimeProofs`: `PayrollIsOnRecord`, `CorrectionSuffices` |
| `LunchIsRight` | `AutomaticPunchesProofs`: `LunchIsSafe` |
| `SalariedDayIsRight`, `ClosedStaysClosed` | `AutomaticPunchesProofs`: `DayIsSafe`, `ClosedDayStays` |
| `RecruitingIsRight`, `ClosedIsFrozen` | `StaffingProofs`: `RecruitingIsSafe`, `AnswersStand` |
| `MatchingIsRight` | `StaffingProofs`: `MatchingIsCorrect` |
| `ScheduleIsRight`, `LockedKeepsPosted` | `StaffingProofs`: `ScheduleIsSafe`, `PostedIsKept` |
| `SyncIsRight`, `AmbiguousIsHeld` | `FeedbackProofs`: `SyncIsSafe`, `AmbiguousAttemptIsHeld` |
| `TasksAreRight` | `FeedbackProofs`: `TasksAreSafe` |

None of the safety properties is inductive as it stands. The invariants behind them:

* `JobInv` (correction jobs). *Fence*: a worker's attempt is at most the row's, only one
  worker has the row's attempt, and what that worker believes is what the row says.
  *Lease*: the reservation's deadline is never after the row's. *Write*: a request in
  flight belongs to the current attempt and to the reserved, next operation, runs out
  before reservation and lease, and its sender still waits. A claim needs the lease to
  be over, hence the reservation, hence no request in flight; so a new attempt starts
  with nothing undecided. `OutcomeInv` adds what each stage and each place in an attempt
  already knows of operations, observed state and downstream work, which is what makes
  the outcomes honest.
* `OutboxInv`. While no lock session was lost, only the lock holder runs, its copy of the
  row is current until it writes its intent, and at that moment no earlier call has or
  can have a message. `StatusInv` adds what an observation of Odoo's queue still means
  when the row is written from it.
* `PunchInv` types batches and rows. `SyncInv`, of a calm day: the punches `1..n` are
  synced and at most one worker is at punch `n + 1` (`CalmInv`); Odoo holds what `n`, or
  after the call `n + 1`, punches describe (`AtPlace`); what the worker read of Odoo
  says so (`ReadInv`). Without the last part a worker could close a row that another
  punch had opened since.
* `QueueInv`: what a claim that still owns its day has computed, when a day is ready, and
  which pages may be older than its production. `LedgerImplemented` maps every step of
  the queue to a step of the ledger or to a stutter with it; a stale claim is a stutter.
* `AttendanceInv` (mirror). What a run or a job has read was in Odoo, what is stored was
  read, and a row a sweep or a job missed was not there since it began (`CopyInv`,
  `AbsentInv`). While no row goes out of sight and no job stores rows of its own: what is
  stored or read never is newer than Odoo (`VersionInv`); a row that is not mirrored has
  a write date behind the next boundary, and while a run reads, it has been read, lies
  between the last page and the watermark, or was committed since the run began and no
  longer ago than the overlap (`CursorInv`). `FreshInv` is what an undisturbed run has
  established. `CursorInv` is where `Overlap` meets the time a transaction of Odoo lasts.
* `ConversionInv` (absence PTO). *Row*: the owner's place fits the step that is recorded
  (`RowInv`), and Odoo keeps at most one open leave on the day (`OneLeave`); both hold
  whatever other people do. While it is calm, only the owner of the lease has a call at
  Odoo, or one is left of an owner that died, and such a call is about the leave the row
  names; a PTO it closes is still closable (`CallsInv`): a lease runs out only after the
  call, so whoever takes over sees what the call did. Then a request at its first step has
  no PTO, a request that waits has its absence, and who is about to finalize faces exactly
  the one approved day (`LeavesInv`). Without the part about calls, a worker that takes over
  after a crash could be overtaken by the refusal or the close of the dead one.
* `GuardInv`: one pass runs; it acts on nothing that is not saved; and every saved
  attempt it has yet to settle, is settling, or knows to stay pending. The last part
  is why a second attempt for an entry cannot be created.
* `RecruitingInv`: the property and "before a round nobody has answered". A commitment
  is accepted only with a placement, and `FewerFit` shows that a placement survives when
  a person leaves.
* `MatchInv`. The calls that wait are a chain: each is at an opening its volunteer may
  fill, the next is about whoever fills it, and no two are at the same one (`ChainInv`).
  Hence, when all return, everybody who gave up an opening gets another and nobody gets
  two. Every opening that was seen is filled, by somebody for whom every opening they may
  fill was seen too, or who is still being tried; and a loop has seen what lies behind it
  (`SearchInv`). So when the first call fails, the volunteer and those who fill what was
  seen fit only there, and they are one more than these openings: no placement exists, by
  the pigeonhole principle (`TooMany`).
* `ScheduleInv`: not only the row and the cache but the schedule every request under way
  has loaded says of a delivery only what was delivered, since a save writes back what it
  loaded; and an upload holds a version that was published.
* `LunchInv`. The employee's punches are in the order of time, only the automation writes
  one of the past (`LogInv`); the run says which automatic punches there are and when
  (`RunInv`, `WindowInv`); while the log is in order, Odoo and its snapshot lag behind
  by a suffix of it (`SyncInv`), so what a tick read of the kiosk's side is the log's
  last punch or somebody punched since (`TickInv`); a sign-out in the gap is being noted,
  or the run is over (`GapInv`). The last two are why no automatic sign-in can follow.
* `DayInv` (salaried day). Only the worker writes slots, so what its tick read of them
  still holds (`WorkerInv`); the reconciler works on an open run and takes only
  attendances that begin at a slot's time (`ReconcilerInv`). While no two loops meet,
  nothing of the robot is left to sync once its rows are neutralised, and what is to be
  deleted is all there is of the robot (`RevertInv`); while nobody disturbs the day, the
  log holds the slots in order, all but the last one synced, and Odoo the attendances of
  all of them or of all but the last (`SlotsInv`). That is where waiting for the earlier
  slot keeps the lunch.
* `MirrorInv` (feedback): the claim, the attempt and the place of the worker agree (only the owner
  is past its claim, what it sends is the attempt). Until an operator supersedes
  something, one remote row exists whose id is known or whose create is still marked; at
  most one request is under way, which is the attempt's and not yet visible in the row;
  the attempt's version is not settled; and statuses only go forward, so that a request
  that has not landed differs from the row and a read-back cannot mistake one for the
  other.
* `TasksInv`. A batch's place in `process_claim` says what it has behind it (`PlaceInv`):
  past the task the row has one, past the screenshot it is recorded, past the stage the
  version it loaded is the one it claimed. While Odoo ends its calls, who is creating
  holds the lease, has found nothing, and the row has no task (`CreateInv`): that is why
  nobody can take the lease away during the call, since a lease ends only before a call
  that renewed it and a mismatch is queued only for a row with a task. Alone, a batch
  uploads and posts what it has just not found (`AloneInv`).

Assumptions on constants: bounds are natural numbers; `Lease` is at least 2, `NumOps` and
`FixerCap` positive; a day has room for a leave and the
allocation for a day; shift times are not 0, which stands for "no time"; `People` is
finite and `Skills` maps them to work centers; the names for "nobody" are no worker's
names; `MaxAttempts` is positive; attendance ids and the overlap are positive; a lunch window of the
schedule ends after it begins (`shift_config.py:134`), while the flexible one may be of
length 0 and begin with the day (`routes/settings.py:963`). Where a choice is made among rows (the first unsynced
punch, the oldest attempt), the proofs use the well-foundedness of the naturals once, in
a lemma that gives the least element.

Only model-checked. The liveness properties (`EventuallySettled`, `OpenOnlyIfLost`,
`AllSynced`, `AutomationsEnd`, `DataSettles`, `PaidTimeSettles`, `FeedbackEnds`), since
fairness and ENABLED are out of the prover's reach. Every invariant and every action
property of a passing run is stated by a theorem. The recursion of the matching was out of
reach as a RECURSIVE operator; with its calls as state, the proof needs no induction over
data.

Writing proofs corrected the models in four places where TLC had been silent: CASE
expressions with overlapping guards in the feedback modules, which have no defined value
in TLA+ although TLC takes the first arm, are IF chains now, in the order of the code;
constants that the code could not have (a shift at time 0, a worker called "nobody")
are excluded by named assumptions; types that were implicit in the actions are
part of the type invariants; and a call of a PTO conversion that ends late is about the
leave it was sent for, where the model had let it act on the leave the row names by then.

## 6. Findings

1. `job_resume`. The stages `mirror_complete` and `recalc_enqueued` are written from
   the local list `completed`. That list was read at the claim and keeps a reservation
   of an earlier attempt, which `_reserve_operation` has since removed from the row.
   If the attempt must then retry, the next claim finds a reservation in front of
   stages, `_validated_completed_records` rejects the row, and the job fails with
   `invalid_plan` after Odoo was verified. The docstring of `_retry_or_fail` promises
   that such a job still finishes.
2. `job_cap`. The cap of fixer jobs looks at confirmed operations. A write that timed
   out and took effect is not one of them, so the job may stop with Odoo changed,
   against "A job that already changed Odoo never stops halfway".
3. `email_lock`. The worker lock lives in one database session that is not looked at
   again, and status writes are not fenced. If the session ends under a running
   worker, two workers create a message each, against "Each request gets at most one
   approval email".

Behaviour of the models that the properties carve out. No doc, comment or test states the
opposite, except that the design note of the payroll guard
(`docs/superpowers/specs/2026-08-03-odoo-payroll-lunch-overage-guard-design.md:127, :187`)
says a later pass recovers every attempt and only exact lunch defects are corrected:

* Immediate sync and sweep on one punch may create two attendances; a transfer's second
  half goes on after its first half failed; rounding can reorder two punches; the
  snapshot is stamped when it is stored, not when it was read (`crowded`, `stale` parts).
* A sign-out in the gap while a tick is between reading and writing is followed by an
  automatic sign-in; a salaried day whose sync is in flight when it is reverted comes
  back (`raced`, `overlap`).
* A row that was out of sight when its write passed the cursor keeps its old copy when it
  is seen again: a sweep looks at ids, not at versions. A job may store a reading that a
  run has meanwhile overtaken, if both carry the same second (`hides`, `directs`).
* An ordinary refresh may store production that is older than the queue's, and a page
  may be cached after the refresh that should have dropped it (`late`).
* A restored absence may stay a draft, and a call Odoo ends late may refuse an absence
  after a denial.
* The payroll guard does not classify again when it takes over an attempt, and an attempt
  whose work entry was regenerated stays pending.
* An adopted update whose attempt has no remote id cannot be released by any disposition;
  two task batches can upload the screenshot twice, and a batch whose row was queued again
  during its call may write an old state (`overlap`); a create that Odoo ends late makes a
  second task (`slow`).
* A posted Saturday may hold people who cancelled after they were scheduled. A schedule
  posted while a save is under way can be lost, a cache entry may be stale, and the
  content given to Slack may be newer than the version it is marked for.

## 7. Plan

1. `TimeOffSync`: push sweep and poll of `time_off_requests`, local records, cancellation.
2. `CorrectionPlanner`: pieces and operations of a plan over a small time line, checked
   against a reference definition (the requested interval replaced, the rest untouched).
3. `Readiness`: cut-over and department repair on top of the mirror.
4. A refinement of `CorrectionJobs` to an abstract job that applies a plan at most once.

## 8. Not modelled

The pure planner and the JSON codec of plans, time-off requests beyond what the email
trigger sees, readiness and department repair, message texts and address rules, event
logs other than the audit event, paging and field mapping of the Odoo client, page
caches, templates, user access, the rotation engine and scheduling scores, production
reports and the forklift pipeline: some are planned, most are presentation, reporting or
rich data without a protocol. `PROJECT.json` gives the reason for each component.
