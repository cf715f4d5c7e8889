# Message Service: TLA+ models and proofs

Message Service collects stage reports from pipelines over gRPC, assembles one
report per run, mails it to the subscribers of the run's tags, and reclaims runs
that never finish. Administrators and users manage accounts and subscriptions
through a REST dashboard. It is a single asyncio process over one SQLite connection.
Paths below are relative to `src/src/message_service/`, and docs to `src/docs/`.

## 1. Inventory

| Component | State | Operations | What makes it correct |
|---|---|---|---|
| Run and stage state machines (`domain/state_machines/`) | none; tables of transitions | `transition_run`, `transition_stage` | terminal states are final |
| Pipeline RPCs (`application/use_cases/begin_run.py`, `submit_stage_report.py`, `finalize_run.py`) | `runs`, `stages` rows | BeginRun, SubmitStageReport, FinalizeRun | a report is sealed once; nothing is added afterwards; time stamps stay ordered |
| Templates, manifest, tag vocabulary (`infrastructure/templating/`, `infrastructure/tags/`) | manifest and vocabulary of the process, compiled templates, files on disk | load, resolve, validate a context, render | a run keeps the versions it was accepted under; a report shows the last submissions in order |
| gRPC servicer and interceptors (`interfaces/grpc/`) | permits in use | adapt, admit, reject, map errors to statuses | permits are returned exactly once; a request is never answered with INTERNAL for its content |
| Delivery task (`assemble_and_deliver.py`) | `runs.state`, SEND_REPORT audit records | claim, load and render, resolve, send, finalize, notify | at most one delivery; the record says what happened |
| SMTP mailer (`infrastructure/email/aiosmtplib_mailer.py`) | none between sends | send with retries | bounded attempts; permanent errors are not retried; an extra copy only for a lost reply |
| Manual resend (`resend_run.py`) | RESEND_REPORT records | resend | shows what the first delivery showed, to those subscribed now, and only after its outcome |
| Orphan sweeper (`sweeper.py`, `infrastructure/sweeper/loop.py`) | `runs.state`, outbox rows, SWEEP_ORPHAN records | tick: list, then one unit of work per candidate | every run ends; actions are enqueued once |
| Disposition outbox (`sweeper_action_dispatcher.py`, `sweeper_action_repository.py`) | `sweeper_actions` rows | enqueue, abandon, claim, reclaim, handle, settle | every row is settled; handlers run a bounded number of times; a settled row is final |
| Unit of work (`infrastructure/persistence/unit_of_work.py`) | the connection lock, the open transaction | enter, commit, rollback, exit | one transaction at a time; no lock outlives its task |
| Startup, migrations, scheduler, shutdown (`bootstrap/service.py`, `__main__.py`, `infrastructure/scheduler/`, `infrastructure/persistence/sqlite/`) | `_migrations`, connection, listeners, background tasks, closing flag | open, migrate, assemble, serve, stop, drain, cancel, close | scripts run once; the connection closes last; the shutdown ends |
| Report store and pruner (`report_pruner.py`, `infrastructure/persistence/filesystem/report_store.py`) | files per run, the tick's budget | save, prune | reports stay for their retention time and go after it |
| Audit log and pruner (`audit_log_pruner.py`, audit archive) | `audit_log` rows, archive files | record, fetch, archive, delete | no record is deleted before it is archived; all expire |
| Accounts and sessions (`login.py`, `logout.py`, `admin_users.py`, `interfaces/rest/app.py`) | `users`, `sessions` | middleware, gates, login, logout, create, update, reset | one administrator always remains; a disabled user has no session |
| Subscriptions (`subscribe.py`, `unsubscribe.py`, `admin_subscriptions.py`) | `subscriptions` | subscribe, unsubscribe, resolve | no subscription twice; recipients follow the audit log |
| Dashboard pages, configuration schema, metrics, scripts | no state of their own | parse, list, validate, print | outside the models, see section 7 |

How they interact:

* Every database change is made in a **unit of work**: an `asyncio.Lock` is held
  from BEGIN to COMMIT, so units of work are serial and first in first out. What
  interleaves is units of work, and everything that happens between two of them.
* RPC handlers read the clock *before* they wait for the lock and stamp that
  reading *after* it. The delivery task and the sweeper read it under the lock.
* FinalizeRun commits READY and only then hands the delivery coroutine to the
  scheduler. The task runs four or five units of work, with rendering and SMTP
  between them and no lock held. A resend does the same inside a REST request.
* A REST request passes the session middleware, the gate of its route and a use case.
  Each opens a unit of work of its own, so what one of them read may be stale in the next.
* The manifest, the vocabulary and the schemas are read at startup, a template's source
  at its first rendering. Both are files an operator edits while runs are open.
* The sweeper lists candidates in one unit of work and orphans each in another.
  Orphaning writes state, audit record and outbox rows together. The same loop
  then drains the outbox.
* Two more loops shorten what the others write: the report pruner removes the files of
  runs that ended long ago, the audit pruner archives and deletes old records. Each works
  in several units of work per tick, and both read the clock once, at its start.
* A shutdown stops the listeners, refuses new background tasks, waits for the
  ones there are, cancels the rest and closes the connection. A crash keeps the tables
  and files and loses queue, tasks, tick and cache. Nothing at startup resumes a READY
  or SENDING run: the sweeper is the only recovery.

What is hard here: the delivery task and the sweeper working on one run; requests
served long after their clock reading; candidates that move after they were
listed; administrators who change each other's accounts between gate and use case;
a relay that accepts a message and loses the reply; crashes between the commit and the
schedule, the send and its record, the claim and the settlement, a migration and its row;
cancellation at every await of the unit of work while the connection's worker thread
still executes what was queued; templates that vanish while a run is open; a host clock
that goes back. `PROJECT.json` lists these under `hazards`, each at its line.

## 2. Modules

| Module | Models |
|---|---|
| `RunStates` | the enumerations, the terminal sets and both transition tables |
| `RunLifecycle` | RPCs, delivery task, sweeper, crashes and clock over the runs and stages tables |
| `ReportContract` | the abstract specification: what a pipeline and its subscribers may rely on |
| `Templates` | requests, statuses, pinned versions, the stored contributions and what is rendered from them |
| `Delivery` | the mailer's retries, the relay, the delivery's record, the notice, resends |
| `Outbox` | the disposition outbox and its dispatcher |
| `UnitOfWork` | the lock, the transaction and the connection's command queue |
| `AtomicStore` | the abstract specification: what a unit of work promises the use cases |
| `Accounts` | REST middleware, accounts, sessions, subscriptions and routing |
| `Service` | startup, migrations, listeners, concurrency limit, scheduler, loops, shutdown |
| `AuditArchive` | the audit log, its pruner and the archive |
| `ReportPruning` | the report store and its pruner |
| `RunLifecycleProofs` | its inductive invariant and safety theorems, the theorems about time stamps, and that it implements ReportContract |
| `ReportProofs` | the report of a run: the inductive invariants and safety theorems of `Templates` (what it shows) and `Delivery` (whom it reaches) |
| `UnitOfWorkProofs` | its inductive invariant and safety theorems, and that it implements AtomicStore |
| `OutboxProofs`, `AccountsProofs`, `ServiceProofs`, `AuditArchiveProofs`, `ReportPruningProofs` | the inductive invariants of these modules and their safety theorems |
| `MC*` | instances for TLC, one per module that is run |

The level of atomicity differs on purpose. `UnitOfWork` opens the unit of work up
to single awaits and commands and shows that it is atomic: it implements
`AtomicStore`, where a unit of work is stored in one step. The other
modules build on that and make each unit of work one action. In the same way
`RunLifecycle` carries the races around a run and keeps contents abstract, while
`Templates` keeps contents and makes a request, a delivery or a resend one step,
and `Delivery` starts where a run is in SENDING and opens the send up to single
attempts.

### RunLifecycle

`state`, `declared`, `createdAt`, `updatedAt` are the columns of `runs`;
`stageState` and `content` those of `stages`. `inflight` is the queue at the
connection lock: an RPC joins it with its clock reading (`BeginRunArrives`,
`SubmitArrives`, `FinalizeArrives`, after all validation that precedes the clock
reading) and is served from its head (`BeginRun`, `SubmitStageReport`,
`FinalizeRun`, or `RpcRejected` when the unit of work raises). `RpcDropped` is a
client that leaves, or a unit of work that fails. `FinalizeInterrupted` is READY
committed without a task: the handler was cancelled in the commit, or the
scheduler refused the coroutine while shutting down.

`pc[r]` is the delivery task: `scheduled`, `claimed`, `rendered`, `resolved`, then
`delivered`, `undelivered` or `oversize`, and `done`; `dead` is a task that raised,
was cancelled or was lost in a crash. `LoadAndRender` takes the snapshot `snap`.
`SendMail` has four outcomes, among them an `EmailDeliveryError` *after* the relay
took the message. `Finalize` is the common shape of `_finalize_sent` and
`_finalize_failed`: it re-reads the run and writes a reconciliation record, without
a transition, if the sweeper was faster.

`SweepBegins`, `SweepLists` and `OrphanCandidate` are the three parts of a tick.
`SweepLists` takes the `MaxCandidates` oldest expired runs; one row that
`Run.__post_init__` refuses fails the whole listing. `sendAudit`, `dispositions`
and `pendingAtOrphan` are the audit records and outbox rows as far as a property
reads them. A stage report is a member of `Contents`, and a request that fails
validation does not arrive: validation is in `Templates`.

### ReportContract

One run in four phases: absent, collecting, sealed, closed. While it collects, its
book of contents grows or is corrected; sealing freezes the book; a delivery is a
copy of the frozen book, made at most once; closing gives a verdict that is final,
and a run that was never sealed can only be ORPHANED. `RunLifecycle` maps to it with `phase`
from `state`, `book` from what assembly would include, `copies` from what was mailed.

### Templates

The operator's files (`EditFiles`, `EditSource`) change at any time; `Start` loads manifest,
vocabulary and schemas and refuses what the code refuses, `Stop` ends the process and
with it the cache of compiled templates. `BeginRunError` and `SubmitError` list the checks of the
servicer and the use case in their order; the first that fails gives the answer, through
`StatusCodeFor`. `ResolveLatest` is `max` over parsed versions, whose order is the constant
`Rank`, the first listed winning among equals; the reference it returns is stored with the run. A context
is a member of `Contexts` with what the code can tell of it: its size as JSON and rendered,
whether it is finite, matches the schema, lacks a variable, makes the renderer raise something that is no
`TemplateError`, or renders to white space. `InOrder` puts the stages
that reported in the order of the sort key. `RenderJobs` are the renderings of an assembly in
order, `DeliveryJobs` those of a first delivery, which end with the stages' fragments if saving these raises; `ErrorOf` is the error of the first that
fails, `CacheAfter` what has been compiled until then. A schema may refer to nowhere (`"unresolvable"`), which
`jsonschema` finds out when it validates. Before the body, a first delivery saves the report of each stage
shown (`_save_fragments`); `SaveRaises` is a stage whose identifier is no path (`NoPath`: it holds U+0000).
`Deliver` ends in SENT, in FAILED for `CaughtErrors`, or with the run left in SENDING for anything else. `latest`, `begun` and `emails` are history: what was accepted last, the request and
manifest of BeginRun, the e-mails assembled by this process.

### Delivery

Three kinds of job share the mailer: the first delivery, the notice to administrators after
an oversized report, and resends. A job goes through `check`, `render`, `resolve`, `send` and `settle`
as far as its code has these steps. An attempt succeeds for a non-empty part of its envelope,
raises, or is accepted and raises all the same (`AttemptUnanswered`, the reply that is lost);
`Classify` decides between another attempt and the end. Audit records are written in
`Settle`, which also moves the run unless it has been orphaned, and in `SettleResend`. Every record has the number of
recipients; their addresses are in that of a SENT report and of a resend only, as in the code (`RecordedAddresses`).
`Subscription` changes who is subscribed at any moment, and `Dies` is a task that is cancelled.
`copies` counts what the relay accepted, `lostReplies` the attempts it accepted unheard, `known` who was
subscribed since a resend began.

### Outbox

Rows are numbered by `action_id`; `claimedAt`, `settled` and `attempts` are the
columns. A drain goes through `AbandonExhausted`, `ClaimBatch` (fresh rows first,
stuck ones with what is left of the batch), `InvokeHandler` or `SkipHandler` per
row outside any unit of work, and `SettleRow` per row. `Interrupted` is a crash or a
failed unit of work. Enqueueing happens between drains, as one loop does both.

### UnitOfWork

Each task runs one unit of work. `Issue` puts a command on the worker thread's
queue; `Execute` and `Fail` are the worker thread and the connection, which are
external (aiosqlite, SQLite) and modelled from how this class uses them. `Cancel*`
is a CancelledError, by the await it hits; the command already queued is executed
all the same. `Cancellable` and `Faulty` choose what may be cancelled and fail;
`failed` remembers which command of which task did, `wrote` whose writes were executed, and `LeftOpen` says when that leaves a
transaction open for good: a ROLLBACK failed, or a COMMIT whose task was cancelled.

### AtomicStore

What a unit of work is to a use case: idle, open (clean or dirty), then stored or dropped. One is open at
a time, its writes are stored in one step or never, and a caller is told once: of a commit only if its writes are
stored, of a rollback only if nothing is, and nothing is stored after that. A cancelled caller is told
nothing of the outcome. `UnitOfWork` maps to it with `phase` from the open transaction and what is dirty, durable and was
written (`StorePhase`), and `told` from `outcome`. A transaction left open by a failure stays open there too: it
blocks the store, and is never stored.

### Accounts

A request goes through `Arrive` or `RejectCsrf`, `Authenticate` (unknown, expired or live
session), `Route`, `RequireAdmin` and its use case, each one unit of work taken while the lock is
free. `lock` is held between steps in one case only, the one the code has: for a cookie without
a session row the middleware calls the route inside its own unit of work (section 4). The use
cases are one action each: `Login`, `Logout`, `CreateUser`, `UpdateUser`, `ResetPassword`, and subscribing and
unsubscribing by users and administrators; `Recipients` is the routing query. `Restart` ends all
requests and reconciles the configured administrator. Passwords are named by the request
that set them and tokens by the request that opened the session; hashing and password
rules are abstracted. `stale` and `entitled` are history: whether a change was made by someone who had
ceased to be an administrator since the gate, and who has ever been one.

### Service

`phase` walks through `__main__` and `build_service`: `LoadConfig`, `OpenConnection`, a `RunScript` and a
`CommitScript` per migration, seven steps of assembly, `StartGrpc`, `StartRest`, `StartLoops`; each may fail.
The way down is `Signal`, `RestDies` or `RunCancelled`, then `StopListeners`, `GrpcStops` and `RestStops`,
`BeginShutdown`, `Drain`, `CancelledAreDone`, `CloseConnection`, `ProcessExits`. `Crash` is possible everywhere
and keeps only `applied` and `recorded`. What an RPC, a REST request or a task does is abstracted to a
worker that needs the connection; `RpcArrives` and `Release` are the concurrency limiter,
`RpcSchedules` the hand-over of FinalizeRun's coroutine, `LoopRuns` the loops.

### AuditArchive

`writer[w]` is the clock reading a use case took before it waited for the lock; `Record`
inserts under it, once or several times, as a tick or a delivery does. The pruner's
tick is `StartTick` (the cutoff), `FetchOlderThan`, `Archive` in a thread and
`DeleteOlderThan`; fetch and delete select with the same `OldestExpired`, the WHERE, ORDER BY
and LIMIT they share. `ArchiveFails` leaves any part of the batch written. An archive
directory is configured; without one the tick is the delete alone.

### ReportPruning

`files[r]` is what lies in a run's directory, a file being under its name or under the
temporary one it is written to; `NamesOf[r]` are the names its delivery may save. Delivery tasks save before their run ends and, when the
sweeper orphaned it first, after. The tick lists candidates (`StartTick`), passes over runs
without files (`SkipRun`), stops at one that exceeds the budget (`OverBudget`) or starts it
(`TakeRun`), and evicts file by file, the audit record between two evictions being where
others run. Candidates are taken in the order of `updated_at`; the order of files within a
run is left open. Every action that fails does so only while the clock runs.

## 3. Runs

| Run | Result | What it shows |
|---|---|---|
| `lifecycle_safety` | pass, 782k states | the safety properties of a run and the report contract, over every interleaving of two queued RPCs, the delivery task, the sweeper, crashes and one backward clock correction |
| `lifecycle_liveness` | pass, 317k states | two runs, one candidate per tick: every run reaches a terminal state whatever stranded it |
| `templates` | pass, 240k states | a run from request to report while files are edited and the service restarts: versions stay pinned, the report shows the last submissions, and what leaves it in SENDING is one of the listed causes |
| `delivery` | pass, 431k states | a delivery, the notice and a resend through an unreliable relay: copies accounted for, those who may have one on record by name or by number, every send ends |
| `outbox_drains` | pass, 256k states | bounded invocations, truthful statuses, a row overtaken only if it had been claimed, final settlements, and every row is settled |
| `uow` | pass, 222k states | three tasks, a cancellation at any await, failing BEGIN, writes, COMMIT and ROLLBACK: isolation, the atomic store, every task ends |
| `uow_leak` | violation | a cancellation at BEGIN leaves the lock held by a task that has ended |
| `accounts` | pass, 1.06M states | two conflicting requests after an opening one: no session outlives a reset or a disabling, gates hold, routing follows the log |
| `session_deadlock` | violation | a login with the cookie of a session that is gone waits for the lock its own middleware holds |
| `service` | pass, 243k states | two lives of a process that fails, crashes or is stopped anywhere: scripts take effect once, permits are conserved, the connection closes last, the shutdown ends |
| `audit_archive` | pass, 50k states | two writers that lag up to a retention time, a pruner that fails anywhere: no record is lost, the oldest go first, all go |
| `report_pruning` | pass, 291k states | saves during ticks and after an orphaning, failing saves and evictions, a budget too small for one run and a listing too short for all: reports stay for their time, runs that do not fit are not begun, every file within reach goes |

The properties, by what they would catch:

* `RunLifecycle`. `UpdatedAtMonotone`: readings taken before the lock are stamped in order.
  `MailedIsStored`: the mail and the tables agree for ever. `AtMostOneDelivery`. `OutcomeRecorded`: the record
  of a finished delivery is truthful, reconciliation included. `DispositionOnce`. `OrphanRecordAccurate`.
  `ImplementsContract`. `EveryRunEnds`.
* `Templates`. `PinsAreFrozen`, `LastSubmissionShown`, `ResendShowsTheSame` (within one life of the process:
  after a restart a resend reads the sources as they are then), `AnswersAreTruthful`, and `StrandingExplained`:
  a run is left in SENDING for one of the causes it lists (section 4), and for no other error the model has.
* `Delivery`. `CopiesAccounted`: each extra copy is paid for by a lost reply. `AuditMatchesRelay`: the log
  accounts for everyone who may have a copy, by address in the record of a resend or a SENT report, by their
  number in that of a failure or a reconciliation; a recorded success stands for a message the relay took.
  `RecipientsCurrent`, `EveryJobEnds`. `OutcomeComesFirst`: no resend before the first delivery has a record, no notice before
  that record says EMAIL_SIZE_EXCEEDED.
* `Outbox`. `InvocationsBounded`, `StatusIsTruthful`, `SettledIsFinal`, `EveryRowSettles`, and `OvertakenWasClaimed`:
  a row is handled before an older one of its run only if that one's drain was interrupted.
* `UnitOfWork`. `Isolated`: no BEGIN meets an open transaction and no write is committed by another task, unless
  a failure left a transaction open (`LeftOpen`). `ImplementsStore`: units of work are atomic, and what a caller is told is what is durable. `EveryTaskEnds`, unless one was cancelled in BEGIN.
* `Accounts`. `SessionsAreCurrent`, `AdministratorRemains` (up to a stale gate), `RoutingFollowsAudit`,
  and `OnlyAdministratorsAct`, which finds a route without its gate: it counts whoever was an administrator at some time, so
  a gate gone stale does not violate it. What stale gates may do is the subject of `AdministratorRemains`.
* `Service`. `MigrationsExactlyOnce`, `PermitsConserved`, `ClosedWhenQuiet`, `ShutdownCompletes`.
* `AuditArchive`. `DeletedIsArchived`, `DeletesOldestExpired`, `EveryRecordExpires`.
* `ReportPruning`. `RunFitsBudget`, `KeepsReports`, and `EveryFileGoes` for the runs that stay within reach (`WithinReach`): no more runs
  ended up to that one than a tick lists, and none of these has more files than a tick may remove. Without either
  hypothesis TLC finds files that stay for ever; section 4 has both cases.

Each property of a passing run has a mutant in `PROJECT.json`: an operator next to the one it
alters, marked "Mutant of", under which TLC reports the property violated. The type
invariant of `RunLifecycle`, `Outbox`, `Service` and `AuditArchive` is a theorem (`TypeCorrect`); in the other
modules it is the first conjunct of the invariant their run checks first.

### Bounds

* One run in `lifecycle_safety`: runs share only the queue, the clock and the
  candidate limit. The limit is met with two runs in `lifecycle_liveness`; the
  theorems cover any number. Two stages let one be pending while the other has
  reported; two queued RPCs are the least at which one overtakes the other's effect.
* `Horizon` bounds arrivals and failures, and the clock runs one `Timeout` further
  (`Stale` for the outbox), so that what was stranded last can still expire.
  `Timeout = 1` suffices because age is only compared with it.
* `templates` has one run, as runs share no more than files and cache, both changed by the
  operator's steps anyway. Two stages with equal and with different `stage_order`, and one whose identifier is no path; three
  variants of the files (complete; without the newest version, a default body and tags, and with a schema that
  refers to nowhere; refused, for a key given twice and a bad tag); two edits of a source; valid and
  invalid requests of each kind. Each cause of `StrandingExplained` occurs alone: without any one of them TLC reports it violated.
* `delivery` has two subscribers, so that a relay can accept for one of them, one administrator among them,
  one resend, one retry, and one reply code of each class the mailer distinguishes (421, 450, 550).
* `MaxRows = 3`, `BatchLimit = 2`: a batch that is full, one that mixes fresh and stuck
  rows, and one row left over. `Horizon = 2` with `Stale = 1` leaves time for
  `MaxAttempts` reclaims and the abandonment after them.
* Three tasks for the unit of work: one that holds the lock, one first in the
  queue, one behind it.
* `accounts` has three requests. The action constraint `MCOpening` lets the calls that only set the
  stage, or are refused, come first and alone; then two conflicting requests interleave freely. Calls
  of requests are drawn from `MCCalls`; requests are interchangeable. One restart and one idle timeout.
* `service` has three RPCs for a limit of two, so that one is rejected; two loops; one REST
  request; two migrations, so that a crash falls between them; two starts.
* `audit_archive` has four records and batches of two, so a batch is cut between records with
  equal stamps; `MaxLag = Retention` is the largest lag the assumption allows.
* `report_pruning` has three runs, a budget of two and a listing of two. One run can have more files than
  the whole budget (two names, each also as a temporary file), one a report and a temporary file, so that it meets a budget
  of zero, one and two; the third has none and takes up a place in the listing. So both ways of being out of reach occur,
  and runs come within reach and leave it.
* `CHECK_DEADLOCK FALSE` for `UnitOfWork`, `Accounts`, `Service`, `Delivery` and `Templates`: tasks, requests and
  processes end, and what is bounded is used up. Elsewhere the loops can always start another round.

### Fairness

* `WF(Tick)`: time passes. `WF(Sweep)`, `WF(Dispatch)`: `infrastructure/sweeper/loop.py` catches
  what a tick or a drain raises and goes on for ever.
* `WF(TaskAdvances(r))`, and `WF(Steps(j))` in `Delivery`: a scheduled coroutine is run by the event loop, and the
  mailer bounds every attempt by a timeout and their number by configuration.
* `WF(Prune)` in both retention modules: their loops catch what a tick raises and go on.
  `WF(Leave(w))`, `WF(GiveUpDelivery(r))`: use cases and delivery tasks end.
* `WF(Up)`, `WF(Down)` in `Service`: the startup and the shutdown are straight-line coroutines; every wait of
  the shutdown but one has a timeout, and a cancelled task unwinds. The one without is uvicorn's wait for
  REST requests, so `ShutdownCompletes` assumes that no such request stays for ever.
  RPCs, requests and assemblies have no fairness there: they may hang.
* `WF(Handle(r))` in `Accounts`: a request whose step is possible is served.
* RPCs have **no** fairness in `RunLifecycle`: clients may never call, never finalize, or leave.
* `WF(TaskSteps(t))`, `WF(Execute \/ Fail)`, `SF(Close(t))` in `UnitOfWork`: the loop runs ready
  tasks, the worker thread empties its queue, and a block ends after finitely many writes.

## 4. Findings

With a run that shows them:

1. **Lock leak** (`unit_of_work.py:169`, run `uow_leak`). `except Exception` misses CancelledError: a task cancelled
   while BEGIN is pending ends with the lock held.
2. **Session deadlock** (`interfaces/rest/app.py:226`, run `session_deadlock`). For a cookie whose session row is gone
   the middleware serves the request inside its own unit of work; a route that opens one
   waits for the lock its own request holds, and every later unit of work behind it.

Seen while modelling, without a run of their own, by the place the code has them:

* *Sweeper.* The unit of work that orphans a candidate tests that the transition is legal, not the
  age or state it was listed with (`sweeper.py:282`, against L2-SWEEP-004 and L3-SWEEP-006): a run finalized
  during a long tick is orphaned at age zero while its report is sent. `OutcomeRecorded` shows that the
  records still tell the truth about it. The outbox claims fresh rows before stuck ones, against
  L2-SWEEP-009; `OvertakenWasClaimed` shows that only an interrupted drain leads there. A reclaimed row
  is dispatched twice although the comment at `sweeper_action_dispatcher.py:36` rules it out.
* *Clock.* After a backward correction a row is stored with `updated_at < created_at`, cannot be loaded again
  (`run.py:122`) and fails every tick that lists it; L3-RUN-032 expects no corruption.
* *Report pruner.* A run with more files than `max_prunes_per_iteration` ends every tick it is met in
  (`report_pruner.py:226`, against L3-PERS-031, `docs/L3-REQ.md:1016`), so its files and those of the runs behind it stay. Rows of
  pruned runs fill the candidate query, and past 10 000 of them younger runs are not reached (`report_pruner.py:196`). Both
  are hypotheses of `EveryFileGoes`, and both occur in its run. A unit of work that fails between
  a file's removal and its record loses the record (`report_pruner.py:391`).
* *Audit pruner.* L2-OBS-019 calls "archived equals deleted" structural; it rests on `LagAssumption`. A record stamped more
  than a retention time before it is inserted, as after a long suspension of the host, is deleted
  unarchived if it arrives between fetch and delete.
* *Unit of work.* A cancelled exit whose queued COMMIT then fails, or a ROLLBACK that fails, leaves the transaction open under
  a free lock (`unit_of_work.py:245`), and the next BEGIN fails; `Isolated` names this exception, and the proof shows that it is the only one.
* *Accounts.* Two administrators whose gates passed before either acted can demote or disable each other
  (L2-AUTH-009); `AdministratorRemains` shows that this is the only way. No loop calls the periodic session cleanup of
  L3-AUTH-011. An administrator's subscription with a granularity that does not fit its target is answered with 500.
* *Mail.* Partial refusals in the result of `send_message` are dropped (L3-MAIL-023): the record names a recipient
  the relay refused. `docs/L3-REQ.md:727` (L3-MAIL-018) and `docs/L2-REQ.md:902` (L2-MAIL-012) want `recipient_addresses` in every
  record of a delivery. Only the normal record of a SENT report has them (`assemble_and_deliver.py:1064`): that of a failure (1124)
  and both reconciliation records (1042, 1174) hold a count. After lost replies that end in RETRIES_EXHAUSTED, or for a mail
  that was out when the sweeper orphaned its run, the log names nobody who has a copy; `AuditMatchesRelay` asks for addresses only where the code has them. L3-MAIL-026 puts the send inside a unit of work, the code sends outside any.
* *Templates.* The delivery task catches named errors only, and some others reach it and strand the run in SENDING. From the operator's
  files: a template no longer in the manifest, a source that is not UTF-8, a schema whose `$ref` cannot be
  resolved (`renderer.py:272` expects a `ValidationError`). From a pipeline: a context on which a template raises something other
  than a `TemplateError` (its own arithmetic, say), and a `stage_id` with U+0000, which `BeginRun` accepts and which makes
  `Path.resolve` raise `ValueError` (`report_store.py:110`; `_save_fragments` catches `PersistenceError`). L3-RUN-029
  (`docs/L3-REQ.md:200`) wants such a run to fail fast, and L3-RUN-023 (`docs/L3-REQ.md:183`) believes it remains in READY.
  `StrandingExplained` lists these causes. The default body
  template is not looked up at startup. Versions that are equal once parsed are accepted (L3-TMPL-008). A number that is
  not finite is answered with INTERNAL. Attachment names can collide, and the kind of a template is unchecked.
* *Startup and shutdown.* A failing PRAGMA leaks the connection. A failure after the gRPC listener started closes the
  database under it. The comment at `__main__.py:297` expects a bound on REST requests that uvicorn is not given.
  `grpc.aio` does not wait for handlers it cancelled. A database with newer migrations is accepted.
* *Requirements.* L3-RUN-015 and L3-RUN-021 disagree about finalizing a run without submissions (the code
  rejects it). L3-OBS-038 names the task `dispatcher_action:<id>`, the code `sweeper_action:<id>`.

## 5. Proofs

All constants are arbitrary: any sets of runs, stages and contents, of tasks, accounts, requests, subscribers and
resends, any queue bound, any number of clock corrections, of RPCs, loops, migrations and retries. The only assumptions
are the named ones in the modules: numeric parameters are naturals, `Timeout`, `MaxCandidates`, `Retention` and the limits of
batches positive, model values that stand for "nothing" are no payload or task, job names are distinct, RPCs finite in number
and no loop among them, what a request may ask for and an operator may write is typed,
the names a run's delivery may save are names (`NamesAssumption`), the first administrators are among the first accounts, and `LagAssumption`
below. `AdministratorRemainsHolds` alone has a hypothesis of its own: `FirstAdmins` is not empty, since without any
there is no access to lose.

`RunLifecycleProofs` proves `Spec => []IInv` (theorem `Invariance`). The safety
properties are not inductive; `IInv` adds what ties the components together:

* `BeginsAreFresh`: a queued BeginRun is for a run with no row and no other request;
* per run (`RunInv`): which states of the row are possible at each step of its
  delivery task, that a run without a task or before its claim has mailed nothing and
  recorded nothing, that the snapshot equals what the tables hold from the moment
  it is taken (no stage of a sealed run changes), and that the disposition counter and
  the recorded pending stages follow the orphaning.

From it follow `TypeCorrect`, `MailedIsStoredHolds`, `AtMostOneDeliveryHolds`,
`OutcomeRecordedHolds`, `DispositionOnceHolds`, `OrphanRecordAccurateHolds`. The step proof has one
lemma per group of actions, with the cases of each action below it.

The same module proves `RowsReadableHolds` and `UpdatedAtMonotoneHolds`, up to the first
backward correction. The argument: the lock is first in first out and requests read
the clock as they join, so readings are ordered as the queue is (`ReadingsOrdered`), and a
request queued for a run that still collects has read the clock no earlier than the
run was last stamped (`ReadingsCurrent`). After FinalizeRun the second fact is lost, and no
longer needed: a sealed run rejects every RPC.

It also proves `Refinement`, `Spec => ImplementsContract`: initial states map to
initial states, and each action maps to a step of the contract or to a stutter.

`OutboxProofs` proves `TypeCorrect`, `InvocationsBoundedHolds`, `StatusIsTruthfulHolds`, `OvertakenWasClaimedHolds`
and `SettledIsFinalHolds`. `InvocationsBounded` is not inductive: a
drain may be cancelled anywhere and a row claimed again. `IInv` counts calls against claims. A row
not yet settled was handled at most `attempts + 1` times (`RowBooked`), and one of the
running batch whose turn has not come at most `attempts` times (`BatchBooked`); a reclaim
raises `attempts`, which pays for the next call. `BatchOpen` says that the rows the drain
holds are distinct, claimed and open, so that no settlement meets a settled row; that
the claim's two LIMIT queries return distinct rows is lemma `ListDistinct`. For `OvertakenWasClaimed`, rows
are first claimed in the order of their identifiers (`ClaimedInOrder`).

`ServiceProofs` proves `TypeCorrect`, `MigrationsExactlyOnceHolds`, `PermitsConservedHolds` and `ClosedWhenQuietHolds`.
`PermitsInv` ties the limiter's counter to the cardinality of the RPCs that hold a permit. `ScriptsInv` says that what ran in
the open transaction is the one next script, and only while migrating, so that a crash at any point leaves effect and
row together. `BuiltInv` says that nothing is at work before the assembly is complete, `LeavingInv` what is left of
listeners and tasks at each step of the way down (the drain's snapshot covers every active task because the scheduler
refuses new ones from then on), and `ConnectionInv` where the connection is open.

`AuditArchiveProofs` proves `TypeCorrect`, `DeletedIsArchivedHolds` and `DeletesOldestExpiredHolds`, under
`LagAssumption`: no writer holds a reading longer than the retention time. The invariant says
that the batch fetched is still what the delete will select (`BatchCurrent`). It is kept by
`Record` because a new record is too young for the cutoff: its reading is at most `MaxLag` old
(`ReadingsRecent`) and the cutoff at least `Retention` (`CutoffPast`). That the selection of a
LIMIT query is older than what it leaves out is `SelectionIsOldest`, by cardinalities.

`UnitOfWorkProofs` proves `IsolatedHolds`, `OutcomeIsTruthfulHolds` and `Refinement`, `Spec => ImplementsStore`. `Isolated` is not inductive: a cancelled task lets go of
the lock with commands still on the worker's queue, so the next task's BEGIN is queued behind them. `QueueInv` says what
the queue can look like: with the lock free, at most two commands of one cancelled task, which end its transaction unless one
fails (`Before`, `Rest`); with the lock held, the same and then the holder's BEGIN, or commands of the holder alone, each shape
tied to its `pc`, its `result` and the open transaction (`Holds`). `LockInv` says that whoever is inside has the lock, `OutcomeInv` and
`DurableInv` what an outcome says of the transaction and of what is durable. `WroteInv` follows the writes of a task: in the open
transaction if that is its own, durable once its commit is done, and no BEGIN of it comes after them. For the refinement the
worker's commands are the steps of the store (a BEGIN that collides, a command that fails and a ROLLBACK without a
transaction are stutters), and the only steps of tasks that show are those that tell a caller its outcome (`ToldOnce`).

`AccountsProofs` proves `SessionsAreCurrentHolds`, `OnlyAdministratorsActHolds`, `RoutingFollowsAuditHolds` and `AdministratorRemainsHolds`.
A request takes the lock three times, and between them everything may change. `ReqOK` says what it may still rely on:
its account exists, and has been an administrator when it is past the gate of an administrator's route. `HistoryOK`
ties the history of entitlement to the accounts table. `SubscriptionsOK` says that the subscriptions table has no
duplicates and is what the log adds up to, by cardinalities: one more SUBSCRIBE than UNSUBSCRIBE of each account, granularity and target
that has a row, as many of each otherwise. `AuditOK` says that only an answered request has records, so each record is new and counts once.

`ReportProofs` proves, of `Delivery`, `CopiesAccountedHolds`, `AuditMatchesRelayHolds`, `RecipientsCurrentHolds` and `OutcomeComesFirstHolds`. The bound on copies
needs the books of each job (`Books`): before attempt `n` fewer than `n` replies have been lost, no recipient has more copies than
that, and a job that has not come to its send has no recipients, no copies and no lost replies. `ResendOK` says that a resend past its
state check has the record of the first delivery behind it, and that whoever is subscribed while it is on its way is known to it;
`Accounted` and `RecordsInv` tie records to copies: a job that is
done and reached the relay has a record with the number of its recipients, and with their addresses in the two cases the code stores them (`Keeps`). The proof also shows why a notice cannot be started twice: it exists only
after the one settlement of the delivery.

Of `Templates` it proves `PinsAreFrozenHolds`, `LastSubmissionShownHolds`, `ResendShowsTheSameHolds`, `AnswersAreTruthfulHolds` and the action
property `StrandingExplainedHolds`, for any runs, stages, manifests, sources, contexts, sizes and requests. `TemplatesInv` has four parts.
`FilesInv`: what a running process loaded passed the checks of its start, and a process that is down has no tasks and no
e-mails. `RowsInv`: each run's rows hold what its request declared, pinned in the manifest of that moment (`Pinned`), and of
each stage the columns its last accepted submission gives (`StoredAs`); the stages that count as reported are those with an
accepted submission, which is what was_retry tells. `EmailInv`: every e-mail of a run is the one its rows and the
compiled templates give *now*, and all templates it needs are compiled. That is why edits cannot change it: rows of a finalized run and
compiled templates stay until the process ends, so a resend computes the same e-mail. `AnswerInv`: each check a
request can fail has its place in the table of statuses.

Three facts about data are proved without induction over sequences, from the least element of a set of naturals: the first failing
check is among those listed (`FirstErrorIsFirst`), a manifest with a version that parses has a highest one (`HighestExists`), and any set of declared stages can
be put in the order of the sort key, each at the position that counts the stages below it (`SortedExists`). So `ResolveLatest` and `InOrder`, both
written with CHOOSE, have something to choose. For `StrandingExplained`, either a stage
shown is no path, or the first job that fails has an error the delivery task does not catch, and each such error has its cause in the files or in a context that was submitted
(`StrandingCause`).

`ReportPruningProofs` proves `RunFitsBudgetHolds` and the action property `KeepsReportsHolds`. A tick works from what it read before:
`TickInv` says that each run it listed is still expired (ends are never moved, time goes on) and that the files still to be
evicted are no more than the budget, which each of them lowers by one, evicted or not. Directories are shown to be
finite, so that nothing is assumed of the set of names.

Each of these inductive invariants was checked by TLC on the instance of its run before it was proved.

Only model-checked: the liveness properties (`EveryRunEnds`, `EveryRowSettles`, `EveryTaskEnds`, `EveryRecordExpires`, `EveryFileGoes`,
`EveryJobEnds`, `ShutdownCompletes`), as liveness under fairness is beyond the prover. Every invariant and every action property
that a passing run checks is also a theorem. The sizes of contexts are summed by a fold, and what a fold computes would take an induction
over data; no proof needs more of it than which error a size too large raises.

## 6. Plan

1. Done: all modules of section 2, with a passing run for each component that has state; proofs of every safety
   property; both abstract specifications refined.
2. The other modules take the atomic unit of work for granted in words. `AtomicStore` could carry the tables of one of them as
   its contents, so that the composition is a theorem as well.

## 7. Not modelled

* The configuration schema: sequential validation of one file before anything else runs. That it
  may be refused is a failure of `LoadConfig`; the values the other components use are constants of their modules.
* Dashboard pages, listings and queries: reads of one unit of work each over tables modelled elsewhere.
* Metrics and logs: output only. Build and trace scripts: not part of the service.
* Wording: subjects, file names, messages of errors and statuses, what Jinja2 makes of a template's text, back-off
  times, password hashing.
* SQLite, aiosqlite, aiosmtplib, uvicorn and grpc.aio are external, and modelled as the code uses them.
