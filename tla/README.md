# A verification of onestack

onestack is a small business platform: a NestJS API over PostgreSQL (through
drizzle), a Next.js front end that renders what the API returns, and a package
of zod schemas that both use. This directory models, in TLA+, the parts of the
API that keep state and that several requests, workers or timers work on at
once. TLC checks the models on small instances; TLAPS proves theorems about
them for every value of their constants.

    tlc -config MCJobQueue.cfg MCJobQueue     # any pair of the table "Runs"
    tlapm MoneyProofs.tla                     # any of the *Proofs modules

`PROJECT.json` says, machine-readably, which definition stands for which lines
of the source, which run checks which property, and which hazards of the code
each property is there for.

## The system

All state is in PostgreSQL. Several API processes may run against it; each
serves requests and, if automation is enabled, runs a poll loop and a scheduler
timer. There are no locks in memory, no serializable transactions, and one
`FOR UPDATE SKIP LOCKED` (the claim of a job). So the shape of almost every
hazard is the same: a request reads a row in one statement, decides, and writes
by id in another, and whoever wrote in between is overwritten.

| part | state it keeps | operations | what is hard about it | what makes it correct |
| --- | --- | --- | --- | --- |
| automation: queue and worker (`automation/queue.ts`, `worker.ts`) | `jobs`: status, attempts, run_at, locked_at | enqueue, claim, succeed, fail; the poll loop; `runNow` inserts a job and marks it done | workers die with a job; a lock goes stale under a worker that is only slow; outcomes are written by id, whoever has the job by now | a job is in one worker's hands, is retried up to max_attempts, is settled in the end and stays so |
| automation: scheduler (`worker.ts` tick, `schedule.ts`) | `workflows.next_run_at` | list what is due, enqueue, advance | ticks overlap, in one process and across processes; enqueue and advance are two statements; edits and deletions under a tick | an occurrence is enqueued once and, late or not, followed by a job; next_run_at follows the schedule the workflow has now |
| automation: workflows (`workflows.service.ts`) | `workflows` | create, update, remove, run now | update merges into a row read before | as above |
| automation: runner, actions, templates (`runner.ts`, `actions.ts`, `templates.ts`, `safe-url.ts`) | `runs`, `run_steps` | run the steps in order, stop at the first failure, record the rest as skipped | a crash leaves a run running; a retry repeats every step | steps before a failure succeeded, those after are skipped, the run's status says whether one failed with a text |
| billing (`billing/`) | `invoices`, `invoice_lines`, `payments`, ledger lines of invoices | createDraft, issue, recordPayment, void, invoiceForPeriod, sweep | decisions on copies; numbers looked up as text; several rows to keep in step | numbers unique and in order, the books balance, statuses follow the table, dunning has a reason |
| subscriptions (`subscriptions/`) | `subscriptions` | create, changePrice, cancel, resume, renew; MRR summary | renew is four statements and no transaction; it writes a status it read before | every period is billed once, periods do not overlap, what is canceled stays so |
| organizations, members, invitations (`orgs/`) | `organizations`, `workspaces`, `memberships`, `invitations` | create, change role, remove, invite, revoke, accept; workspaces; the guards, roles and permissions | the owners are counted in one statement and changed in another; an invitation is checked before the transaction that uses it; a free slug is looked up before it is taken | an organization has an owner; an invitation nobody raced for is used once; only its managers change what is in it |
| auth, sessions, users (`auth/`, `users/`) | `users`, `sessions` | register, login, authenticate, touch, logout, change password, purge | login and password change overlap; a session is touched by id after it was read | a session is good until it expires or is ended, and a change of the password ends all others |
| ai (`ai/`) | `ai_requests` | complete, stream, record, summarise | streams that fail half way or are abandoned; a record that never throws | a call that was paid for is recorded |
| analytics (`analytics/`) | `ledger_entries`, `metric_snapshots` | add and remove ledger lines, summary, snapshot, series | a summary is five statements, a snapshot upserts it afterwards, perhaps in another month | every figure kept was true at some moment of the request that kept it |
| audit (`audit/`) | `audit_log` | record (never fails its caller), list | written after the fact, may be lost | secrets are redacted |
| customers, products (`customers/`, `products/`) | `customers`, `customer_notes`; `products`, `product_prices` | create, update, archive, remove, notes, prices, listing by cursor | removal against what refers to it or is added meanwhile; deletions that cascade; rows that commit behind a cursor | what restricts a row is of the row's own workspace, so that a workspace goes as a whole and nothing else takes what is sold or invoiced; a conversion is stamped once; a listing misses nothing but what commits behind its cursor |
| database (`database/`) | `onestack_migrations`, the schema | up, down, status | a crash between migrations; two at once; files that change in between | the record of what was applied is true |
| common, config, health, front end, shared | none of their own | cursors, error mapping, environment, probes, pages, zod schemas | - | pages |

How they meet: the scheduler enqueues jobs that the workers claim, and a worker
hands a job's workflow to the runner; the runner calls ai, analytics and the
network. `subscriptions.renew` calls `billing.invoiceForPeriod`; billing's sweep
and payments write `subscriptions.status`; a settled invoice writes a ledger
line that analytics reads. Everything that changes something writes to audit
afterwards. Every request under an organization passes `SessionGuard`, `OrgGuard` and
mostly `WorkspaceGuard` first. Foreign keys cascade from a workspace to all that is in
it, from a workflow to its jobs and runs, from a customer to its notes and
subscriptions; an invoice restricts its customer, a subscription its price. Of one deletion the
cascades come first and what restricts is checked against what they leave: a workspace goes
with its invoices and subscriptions.

## How the models correspond to the code

* **One action is one SQL statement** (or one transaction that only writes),
  which is what READ COMMITTED makes atomic. A service method becomes as many
  actions as it has statements; what it read stays in the local state of its
  request, worker or tick until it uses it. So every interleaving that
  PostgreSQL allows between the statements of concurrent requests is a behaviour
  of the model.
* **A request is a slot** (`Request`, `Worker`, `Ticker`, `Editor`, `Caller`), in
  any process: with *n* slots the model has up to *n* such requests in progress at
  any time, and any number in a behaviour.
* **A failed request leaves what it had committed.** Where that is more than
  nothing, dying is an action of its own (`WorkerCrash`, `CallerCrash`,
  `TickCrash`, `Crash`, `Dies`), bounded by `MaxCrashes` where the state would not be otherwise. In `Billing` it is not needed: every
  request there writes in one action, and one that dies before it is one that
  never takes it.
* **History variables** (`stolen`, `reclaims`, `raced`, `refired`, `doubtful`, `dropped`,
  `lost`, `entered`, `revenue`, `received`, `admitted`, `overlapped`, `missed`, `slipped`, `ended`,
  `late`, `billed`, `served`, `putBack`, and in a request's state `held`, `alone`, `undone`, `overtaken`) record what
  happened; no guard reads them except `received` and `entered`, which bound what is
  entered, and `ended`, since a token is never drawn twice. `raced` names what two requests had in
  their hands at once. Many properties hold of everything that is not `raced`: they
  state exactly what the code promises in the absence of the one hazard it does not
  defend against. What still holds in spite of it is stated without that exception
  (the bounds in `MoneyAgrees`, the uniqueness in `NumbersSequential`, `LiveUnique`,
  `JoinsByInvitation`, `RecordIsSchema`, `ManagersWrite`, `SnapshotWitnessed`).
* **Data** is what the properties tell apart. A cron expression is a period, a
  price is an interval or a small amount, a password is how often it was changed, a
  file is the version of its contents; names, descriptions, addresses and step definitions do not
  appear, an identifier is a model value.

### The modules

**`JobQueue`** - the `jobs` table with the poll loops (`Worker`), the requests that
run a workflow at once (`Caller`), whoever enqueues, and the deletion of a
workflow. `WorkerClaim` is the UPDATE with its `SKIP LOCKED` subquery,
`WorkerRead` the SELECT that follows it, `WorkerSucceed` and `WorkerFail` the
UPDATEs by id. Times are relative (until run_at, since locked_at), so no clock
bounds the behaviours. Running the workflow is the stretch between reading and
recording.

**`JobTurns`** - the abstract specification of a job that is in one hand at a time: each
attempt is a turn of one worker, who alone records its outcome; the job is tried again
just while attempts are left; a turn may be lost, and what is settled stays so. A job is
`Shared`, and nothing is promised of it, once it was taken over from a worker still alive
or if a request marks it as done by itself; `TurnOf` is the refinement mapping.

**`RunLog`** - the abstract specification of a run, as its readers see it: steps are
appended in order, after one that failed only as skipped, and the status that ends
it says whether one failed with a text (`blank` is a failed step whose error has none).

**`Runner`** (on top of `JobQueue`) - what happens between reading a job and recording its outcome:
`WorkflowRunner.run`, `Actions.run` and `AiService.complete`, one action per statement
or call to a provider (`Begin`, `Perform` or `CallProvider` and `Meter`, `Record`, `Skip`,
`Finish`, `Stamp`), for every worker and every request that runs a workflow now. Its
actions contain those of `JobQueue`, so it implements that module; the tables `runs`
and `run_steps` implement `RunLog`. A statement may fail (`StatementFails`, `MeterFails`,
at most `MaxFaults` times), a workflow may be deleted under its run (`Refused`). A
call ends well or not, and the error of one that does not has a text or none: that a step has
failed (`failure !== null`) and that the run will say so (`failure` is truthy) are two flags; a call without end is a worker that is not scheduled.

**`Scheduler`** - `workflows` as far as it decides when they run: `TickList`,
`TickEnqueue`, `TickAdvance`, the abort by a workflow that is gone, `Create`, `EditRead`
and `EditWrite` (the merge), `Remove`. The job a tick enqueues is the `Enqueue` of
`JobQueue`: the two modules share nothing else, so they are composed by that
correspondence and not in one state space.

**`InvoiceNumbers`** - which number an issue asks for: the one after the invoice
whose number sorts last *as text*, padded to `Width` digits. Pure.

**`Billing`** (on top of `InvoiceNumbers`) - the invoices of a workspace, what was
received for each, the ledger lines, and the statuses of their subscriptions:
`IssueRead`/`IssueNumber`/`IssueCommit`, `PayRead`/`PayCommit`, `VoidRead`/`VoidWrite`,
`SweepRead`/`SweepMark`, and `RenewRead`/`RenewWrite`/`InvoiceForPeriod`, the renewal as far as
it writes the status that dunning marks and payments restore, with creation of drafts.

**`Calendar`** - the dates of `periods.ts`: how JavaScript rolls a day over that a month
does not have, and how a month (`MonthLater`) and a year (`YearLater`) later is pulled back
from there. Pure; a date is a number, ordered by time.

**`Subscriptions`** (on top of `Calendar`) - rows with their status, price, flag and period, the requests
that create, reprice, cancel, resume and renew them, the invoice and the line
that a renewal inserts, and the two updates by which billing marks and restores
a subscription. Requests are made upon the subscriptions in `Served`; any may be
created. `RenewRead`, `RenewWrite`, `InvoiceInsert` and `InvoiceLine` are the four
statements of a renewal.

**`Members`** - the roles in one organization and the invitations to it. `ChangeAdmitted`
is `OrgGuard` reading the caller's role, `ChangeRead` the read of the target with the
two rules about owners, `ChangeCount` the count of `assertNotLastOwner`, `ChangeWrite` the
update or deletion by user id. `AcceptRead` is the read of an invitation with its
checks, `AcceptCommit` the transaction that inserts the membership and marks the
invitation, `AcceptRefused` the conflict with a membership that is there. A removal is a
change to "none"; leaving is a removal of oneself.

**`Sessions`** - accounts, sessions and the organizations that come with accounts.
`RegisterBegin`/`RegisterCommit` are the transaction of a registration, which a taken
slug rolls back (`SlugTaken`). A name is the numbers it ends in (Acme is `<<>>`, Acme 2 is
`<<2>>`), since that is what makes slugs of different names meet; `Candidate` is the first
suffix that is free among all of them. `LoginRead` and `LoginStart` have the verification between
them; `Authenticate` and `Touch` are `SessionGuard`; `ChangeRead` and `ChangeCommit` the
change of a password; `Logout` and `Purge` end sessions. A session carries, as history,
the password it was begun or kept with.

**`Access`** - roles, permissions, and for every controller under an organization what
each route asks of the caller. Pure; `Admits` is `OrgGuard`.

**`Catalog`** (on top of `Access`) - customers with their notes, products with their prices,
and workspaces. A request passes `OrgGuard` (which reads the caller's role and the
handler's permission) and `WorkspaceGuard`, and then runs the statements of its handler.
`ListPage` is a page of the listing of customers, which a client follows by its cursors.
Ids are drawn (`CustomerDraw`) before rows are inserted, and in any order, since every process
draws UUIDv7 by its own clock. Invoices and subscriptions are the pairs of what they restrict and
the workspace they carry (`Invoice`, `Sell`, by the reads of their services); `WorkspaceRemove`
takes what carries the workspace first, and is refused only if a row that is left restricts
what would go.

**`Analytics`** - a summary is four reads, three of them in any order and the fourth after
them; a snapshot is a summary and `Upsert`. `summary` has what each in progress has read and,
as history, the figures that have held meanwhile (`held`). Subscriptions, the ledger, recorded usage and
days move in between. The calls of a model (`Call*`, `RecordUsage`, `RecordFails`) are
`complete`, which has one answer, and `stream`, whose consumer may stop asking.

**`SchemaHistory`** - the abstract specification of the record of migrations: one at a
time is applied on top of what it needs, and reverted while nothing needs it.

**`Migrations`** - processes that run `up` or `down` over one database and one directory:
the table is read (`UpBegin`), the files are hashed (`UpDiscover`), each pending one is read
again (`UpRead`) and applied in a transaction (`UpApply`), which may fail (`UpFail`); `DownBegin`,
`DownRead` and `DownRevert` likewise. Nothing in the code locks; what keeps two processes
apart is that statements fail on what is there, or not there, and take the row with them.

`MC*` modules give the constants small values; `MCCatalog` also has TLC evaluate two
statements about every route of `Access` (`MembersOnlyRead`, `HigherRolesMayMore`). The
modules `RunnerProofs`, `SchedulerProofs`, `SubscriptionsProofs`, `MembersProofs`,
`SessionsProofs`, `CatalogProofs` and `MigrationsProofs` each extend the
module they are named for with theorems; `RunnerProofs`, as `Runner` itself, builds on
`JobQueue`, and holds the theorems about that too. `MoneyProofs` has those of `Billing` and
of `Analytics`, which names its parts apart (`AnalyticsSpec`, `summary`, `Subscribed`) for
the two to be extended together.

## Runs

| run | instance | what it shows |
| --- | --- | --- |
| `job_queue` | 2 workers, 1 run-now request, 2 jobs of 1 workflow, 2 attempts, lock timeout 1, 1 crash | one worker per job unless its lock was taken over or a run-now job was claimed before it was marked; attempts bounded and dead only when exhausted; jobs that are not shared implement `JobTurns`; every job settles |
| `runner` | 2 workers, 1 run-now request, 1 job, 2 runs of 2 steps (the first paid), 2 attempts, lock timeout 0, 1 crash, 1 failing statement | runs implement `RunLog`; runs left running and calls left unrecorded are each accounted for by a crash or a fault; a step is paid for once per attempt; a job is done only if it ran |
| `scheduler` | 2 ticks, 1 editor, 1 workflow, periods 1 and 2, clock to 4, 1 crash | the next run is set and right; an occurrence is enqueued once, unless in the races named; one that next_run_at moves past is followed by a job, however late or many the ticks |
| `scheduler_liveness` | 2 workflows, one of which may be deleted under a tick, 1 crash | what is due is served |
| `billing` | 2 requests, drafts over 2 and over 0, a period invoice over 0 and its renewals, payments of 0 and 1 | numbers unique and in order; money bounded whatever races, balanced otherwise; dunning explained, renewals that write an old status included; status table |
| `subscriptions` | 2 requests, a subscription with prices monthly, yearly and once, begun on 31 January 2028, two renewals, 1 crash; a second one of the same customer, by the year | dates agree with status, and every period is one month or twelve by the calendar; every period billed once, with a line; no time billed twice; never two live ones to a price; canceled is final |
| `members` | 2 requests, 2 users, 2 invitations to one address (one may make an owner) | an owner remains and owners are made by owners, unless role changes overlapped; an invitation nobody raced for lets in one user; who comes in was invited |
| `never_ownerless` | the same with 1 invitation | **violated**: two owners demote each other |
| `sessions` | 2 requests, 2 users, 2 tokens, sessions of 2 ticks, clock to 3, 1 password change, 3 organizations of the names Acme and Acme 2 | what has ended stays ended and a session has the password of its account, but for overtaken logins; sessions end for a cause; no two organizations have one slug, and each has the first its name could have |
| `catalog` | 2 requests of members and admins, 2 organizations, 3 workspaces, up to 3 customers, 1 product, 2 prices, pages of 1; the handlers in five groups | what restricts a row is of its own workspace, so that a workspace goes as a whole and nothing else takes what is invoiced or sold; conversions are stamped once; only managers of its organization change what a workspace holds; prices stay; pages are complete |
| `analytics` | 2 snapshots, 2 subscriptions, 1 ledger entry, 1 model call, 3 days in months of 2 | calls are recorded; margins and gross profit are right; a kept figure was true during its request |
| `migrations` | 2 processes, 4 migrations of which one has no down, 2 changes of the directory, crashes at will | the table names what is in force, from the contents it keeps the hash of; gaps in it are explained; `up` leaves all it passed recorded; `SchemaHistory` is implemented |

**Bounds.** `MaxCrashes`, `MaxFaults`, `MaxReceived` (payments entered), `MaxTime` (the clock of
`Scheduler` and `Sessions`), `MaxRenewals` (the periods a subscription is renewed into), `MaxChanges`
(changes of the directory, of subscriptions and the ledger), `MaxVersion`, `MaxPassword`,
`MaxOrganizations`, `MaxDay`, `MaxSnapshots`, `MaxCustomers`, `MaxNotes`, `Days` (how far ahead
an entry is dated), `Calls` (which handlers are called together), `Caller` (the
roles of callers), `Served` (the subscriptions that requests are made upon) and the
sizes of the sets are the only bounds, and they bound inputs and faults, never what
the code does with them. Two concurrent requests are enough for every race of the form
read-write-write; a third adds only further victims of the same kind, and the
theorems below hold for any number. Two attempts let a job fail, be retried
and be given up; a lock timeout of one tick lets a lock be fresh, at the limit and
stale; in `runner` the timeout is 0, so that any tick makes a lock stale. Two runs are one
that is left or taken over and one that repeats it (who would begin a third waits); two
steps let one be recorded, or fail, before another. Three intervals (month, year, none)
let a change of price lengthen, shorten and end a subscription's periods, and from
31 January 2028 two of them reach 29 February in a leap year, 28 February in a common
one, and the leap day plus a year. The numbers in
`MCBilling.cfg` stay below ten, where text and number agree (the theorem on them does
not assume it). Of four migrations the third needs the first, the second needs nothing, so
that it may be missing below another, and the fourth has no way back.
Pages of one row put every row on a boundary. Months of two days let a snapshot begin
in one and be written in the next. Three organizations let one that took its number by name
(Acme 2) stand between two that are numbered. The groups of `catalog` are the handlers that touch
the same rows, each with the deletion of the workspace under them; a handler of
products never writes a row of customers, so groups lose no interference.

`CHECK_DEADLOCK FALSE` is set where the system may stop: nobody has to make a
request. `JobQueue` and `Runner` are checked for deadlock, since their clock goes on, and
`Migrations`, since somebody can always begin again.

**Fairness** (`FairSpec` in `JobQueue` and `Scheduler`). The poll loop asks again after
every turn and awaits what it started (`WorkerClaim`, `WorkerRead`, an outcome);
the timer starts a tick again and again and a tick awaits each statement
(`TickList`, `TickEnqueue` or `TickAbort`, `TickAdvance`); time passes. All of it is weak
fairness: no step depends on winning a race again and again. Nothing obliges a
user to do anything, a worker to succeed rather than fail, or a process to die.

## What is proved

Every leaf is checked by TLAPS, from the named assumptions on the constants (that
the sentinels are not values, that the sets of workers, of ledger entries and of the
subscriptions they are summed with are finite, that lengths, prices and
totals are natural numbers), for any number of requests, jobs, invoices,
workflows, subscriptions, accounts, customers, products, prices, and processes that migrate.

* **`RunnerProofs`**, of `JobQueue`: types, and all of the safety that the run checks.
  `LockedIffRunning`, `OneWorkerUnlessStolen` and `DeadMeansExhausted` are proved
  together with what they rest on: a row in a worker's hands is running unless it
  was shared, and the attempts a worker remembers are at most those of the row.
  `AttemptsAccounted` needs a counting argument: each holder that may still
  requeue a job, and the job while it waits, is a *token*; a job starts with one,
  a takeover of a stale lock adds one, and beyond max_attempts each attempt uses
  one up. `TurnsKeptHolds` is the refinement of `JobTurns`, step by step: a row that was
  not shared has one holder at most, and what that one remembers of the attempts is what
  the row says (`CopyExact`), so that `fail` decides on the truth.
* **`RunnerProofs`**, of `Runner`: types; `RunnerImplementsQueue`, every step of `Runner`
  is one of `JobQueue` or leaves its variables alone, so that the theorems above hold of
  it; `RunsAreLogsHolds`, the refinement of `RunLog`; `DoneMeansRanHolds`. The invariant
  (`Knows`, `HandInv`) says what a process knows of the run in its hand: nobody else has
  it, the recorded steps are those before its index, and its flags say whether one of
  them failed, and with a text - unless the run was deleted, when nothing it does can write. `LinkInv` ties
  the run to the job: it is of the worker's job and deleted only with it. On these rest
  the three properties that count. `StuckAccounted` and `SpendAccounted`: a step adds one
  run at most to those left running, or one to the calls not recorded, and only a step
  that crashes or fails does. `PaidPerAttempt`: a call was made in a run by whoever began
  it; and the runs begun for a job, with the processes about to begin one, are at most
  the attempts of the job and the requests that ran it at once.
* **`MoneyProofs`**, of `Billing`: types and every safety property of the run. The invariant
  adds to the properties what a request in progress knows: the copy it decided on
  is current unless the invoice is `raced`, a number that was given out lies above one that
  was given out before it, and money claimed was received. `InvoiceNumbers` enters
  through one fact only: the number asked for is one more than a number that is
  taken, or the first.
* **`MoneyProofs`**, of `Analytics`: types and every property of the run. The figures are
  sums over finite sets, which the library defines by the function that unfolds a sum over
  the subsets of a set. A statement about every subset is proved from a least one for which
  it fails (`LeastSubset`, from the well-foundedness of proper inclusion); so there
  is such a function (`FoldUnfolds`), and a sum is that of the rest and any one element
  (`SumRemoves`), is a natural number, and grows by one where one place does
  (`SumCountsOne`). `SpendRecorded` is inductive with the types: a call that has yet to
  record has no row. For `SnapshotWitnessed` the invariant says of each summary in
  progress that the figures that hold now are among those it has seen, and that each one it
  has read is too, or is the cost of models and the month has ended (`FiguresWitnessed`); it
  needs that nothing is recorded of a month to come (`NothingAhead`), since that cost is read
  as what was recorded since the month began, and that the window of the ledger is the
  month to date (`WindowIsMonthToDate`). `MarginsRight` needs that only complete figures are
  written (`FiguresInOrder`) and that rounding is to the nearest (`RoundedBounds`).
* **`MembersProofs`**: types and every property of the run. As long as no two changes
  of roles have overlapped, the only pending change holds a current copy of its
  target and, once it has counted, there is another owner (`AloneAndCurrent`); that
  gives `OwnerRemains`, and with "only an owner invites an owner" `OwnersByOwners`. An
  invitation nobody raced for is in one hand at most, where it stays open and has let
  in nobody, which gives `InvitationsAccounted`.
* **`SchedulerProofs`**: types and every safety property of the run. A workflow nobody
  raced for is in one list at most and in no edit meanwhile (`HeldOnce`), so that what
  a tick has listed is what the row still holds (`ListInv`, `Current`); an occurrence
  that was enqueued lies in the past and before the next run, or is in the hand of the
  tick that is about to advance from it (`FiredInv`). `PassedOverIsServed` has no such exception:
  a tick that advances has enqueued at its own time, and computes the next run from that time,
  so that all it moves past came before it. The next run is strictly later
  than the moment it is computed from, and a multiple of the period.
* **`SubscriptionsProofs`**: types and every property of the run. The lemmas on `Calendar`
  say that what `nextPeriodEnd` returns for any date of any year is a date, later, in
  the right month, and on the same day or the last one. A subscription that nobody raced
  for is held by one request at most, whose copy is current; its invoices are of its
  present period or ended before it began (`InvoiceInv`), which is why the next one
  overlaps none. `LiveUnique` needs no such thing: every write passes the index.
* **`SessionsProofs`**: types and every property of the run, from what a request knows of
  what it has read (`RequestInv`: who holds a token has a session of that user, or one
  that has ended; a login was verified against the password its user has, or was
  overtaken) and from
  `SlugInv`: all suffixes below the one that is about to be inserted are taken, by whatever
  name, since slugs are never given back; and among one more suffixes than there are slugs one is free
  (`FreeSuffix`).
* **`CatalogProofs`**: types and every property of the run. What a request has read is told
  apart by how long it stays true. That the workspace it passed `WorkspaceGuard` with is of
  the caller's organization stays so while the row is there (`RequestInv`), and deletions
  cascade; what restricts a row was found in the row's own workspace when it was written, and rows do
  not move, which gives `TablesSound` and from it that nothing refuses the removal of a
  workspace (`NothingRefusesRemoval`). A copy of a customer goes stale, but its stamp of
  conversion is never later than the row's, and is the row's unless another request has
  been at it meanwhile (`CopyInv`, `RaceInv`); that gives `ConvertedOnce`. An id that was
  drawn is no row's and nobody else's (`DrawnInv`). The prices a product was seen to lack
  when its deletion was decided came later (`CountInv`), for `PricesStay`. `ManagersWrite`
  follows from the table of `Access`: the routes that write admit none below an admin
  (`WritersManage`). `PagesComplete` needs lemmas on `Ascending` and `ListPage` - a page
  is the first so many rows beyond its cursor, in order - and `ReadInv`: the pages
  a client has so far hold what was there throughout up to the cursor, each once.
* **`MigrationsProofs`**: types and every property of the run, with the refinement of
  `SchemaHistory`. The invariant says what each process knows (`Knows`): what it has read
  in the table is recorded still, or was undone since by a down; what it has passed is
  recorded, has no file, or was undone; a down that runs alone is about to revert what
  is last. And the schema is what the table says (`TableHolds`), since every change of
  either is one transaction with the other.

The types are proved for every value of the constants; the runs do not check them again.

Only model-checked: the liveness properties `EveryJobSettles` and `DueIsServed`, since
liveness under fairness is beyond the prover. Every other property of a run that passes is
stated by a theorem, for every value of the constants.
The two statements that TLC evaluates about every route of `Access` depend on no constant: evaluating them settles them.

## What the code does otherwise than it says

One run ends in a violation, with the sentence it refutes in `PROJECT.json`: two owners
who demote (or remove) each other at once are both counted before either is written, and
the organization has no owner left (`members.service.ts:151`).

Other disagreements of the same kind are what the exceptions in the properties are for:

* `runNow` inserts its job as queued and marks it as done in a second statement; a
  poller may run it in between (`workflows.service.ts:162`): the callers in
  `Shared` in `TurnsKept`.
* Two payments decided on the same copy of an invoice settle it twice and write two
  revenue lines; one of them is missing from amount_paid (`billing.service.ts:166`):
  `raced` in `MoneyAgrees`.
* From the ten-thousandth invoice of a year on, the number that sorts last is the
  9999th, and no invoice can be issued any more (`billing.service.ts:131`):
  `NumbersSequential` says of what is issued that it is in order, not that it is issued.
* A worker that is slow for more than five minutes and then fails sets its job, which
  another worker took over and gave up meanwhile, from dead back to queued (`queue.ts:100`).
* A login overtaken by a change of the password still starts a session
  (`auth.service.ts:119`): `slipped` in `SessionsVerified`.
* A product whose prices have been counted as none is deleted with the price that was
  added since (`products.service.ts:159`): `late` in `PricesStay`.
* An error whose text is empty skips the steps that follow and leaves a run that succeeded and a job
  that is done (`runner.ts:100`, where line 53 compares with null): `blank` in `RunLog`.
* "An invite is single-use: accepting it twice fails the second time" (TASK-005:75), and marking it
  in the transaction is "what makes it single-use rather than single-use-most-of-the-time"
  (`invitations.service.ts:144-145`); but two who accept it at once have both read it as open and
  both are let in: `raced` in `InvitationsAccounted`.
* A renewal writes back the status it read: a past_due over the payment that restored it, so
  that it stays past due with nothing to pay, or an active over a cancellation
  (`subscriptions.service.ts:224`), although an overdue subscription is moved "back to `active` when
  it is paid" (TASK-013:88-89): `putBack` in `PastDueExplained`, `raced` in `CanceledIsFinal`.
* A stream yields "the same accounting a non-streamed call would give — including the record"
  (`ai.service.ts:110-112`), but one that its client abandons ends at its `yield`, past the catch
  and past the record, although its chunks were paid for: `CallAbandoned`, which `SpendRecorded`
  names.
* "A colliding name gets a suffix rather than an error" (TASK-004:77-78), but of two that register at
  once and choose the same slug one fails on the unique index and is rolled back as a whole:
  `SlugTaken`.
* A tick that is late enqueues one job for all the occurrences that have passed, and an edit between
  the due moment and the tick drops the occurrence (`worker.ts:114`, `workflows.service.ts:139`):
  `PassedOverIsServed` says that a job follows, not that there is one for each.
* Of an invoice, "deleting the customer must not erase it" (`schema/billing.ts:31-35`), but deleting
  the workspace erases both: the cascade of `invoices.workspace_id` runs before the key that restricts.
* A page that is read while a row with a smaller id has yet to commit passes it over
  for good (`pagination.ts:49`): `late` in `PagesComplete`.
* `up` applies the contents it reads last and records the hash it took first
  (`migrate.ts:106`): `slipped` in `RecordIsSchema`.

## Not modelled, and the plan

Left out for good, since they keep no state that anything else decides on: the front
end, configuration and probes, the error mapping, the provider adapters and the choice
of a provider, the text of audit entries and its redaction, validation by zod (the models
take the inputs it lets through), names, descriptions and other texts, and listings other
than that of customers, which stands for all that use `toPage`.

Left out so far:

* What templates and the check of addresses do to the input of an action of a run.
* Names of organizations so long that their slug is cut to make room for the suffix (over 60
  characters with it).
* A trial, in `Billing`, where it counts as active: it has no invoice yet.
* The cost of a model call (`cost.ts`) and the normalised revenue of `mrr.ts` beyond what
  `Analytics` sums; the gaps of a metrics series.
* The unique address of a customer and SKU of a product, which refuse an insertion or an
  update as a whole.
* Cron expressions other than periods.

The modules were written in the order of what could go wrong most: `JobQueue`, `Billing`,
`Scheduler`, `Subscriptions`, `Members`, `Runner` with `RunLog`, `Sessions`, `Access` and `Catalog`,
`Analytics`, `Migrations` with `SchemaHistory`, `Calendar`, `JobTurns`; their proofs likewise, those
of `Analytics` last. The plan is carried out; what is left out above is where to go on.
