# A TLA+ model of DirectCash

The repository is a small campaign manager: a NestJS API over PostgreSQL, a
worker process that completes campaigns when their end date is reached, a
BullMQ queue in Redis between the two, and a Next.js dashboard. This directory
holds TLA+ modules of it, TLC configurations that check them on small
instances, and proofs that TLAPS checks for every size of them.

Four parts of the system are concurrent and can fail, and each has its model:

* **expiration** - the scheduler service, the job consumer, the worker process
  with its initializer, and the requests that drive them;
* **the campaign table** - create, update and remove with their checks, against
  each other and against accounts that are deleted, fed by the dashboard's form;
* **accounts and sessions** - login, refresh, logout, register and the
  administration of users, with rights that travel in tokens;
* **the dashboard** - its asynchronous functions, modals, drafts and loading
  flags, against an API that answers anything at any time.

Paths below are relative to `src/apps/api/src/` unless they begin with `src/`.

## 1. The system

| Component | State it keeps | Operations | Talks to |
|---|---|---|---|
| Campaigns service `campaigns/campaigns.service.ts` | the Campaign table | create, update, remove, findAll, findOne | the table; scheduler service (awaited, after the row is written) |
| Scheduler service `campaigns/campaign-expiration-scheduler.service.ts` | the BullMQ queue `campaigns`, one job per campaign | refreshCampaignSchedule, scheduleCampaignExpiration, unscheduleCampaignExpiration, refreshAllSchedules | queue; reads the table when a worker starts |
| Consumer `campaigns/consumers/campaign-expiration.consumer.ts` | - | process(job) | table, scheduler service |
| Worker process `worker.ts`, `campaigns/workers/` | a process: up or down | bootstrap, onModuleInit, exit(1) | scheduler service |
| Authentication `auth/` | in-memory map of revoked refresh tokens, cookie, JWTs | register, login, refresh, logout | users service |
| Users `users/` | the User table | create, update, remove, list | - |
| Guards `common/guards/` | - | the role in the token against the role required | - |
| Dashboard `src/apps/web/src/components/dashboard-app.tsx` | session, user, lists, forms | restore, login, logout, load, submit, delete | the API, over HTTP |
| Configuration, observability, Prisma, seed, test runner, CI | start-up only | | |

Hard behaviours, and where they come from:

* *The database and the queue are written one after the other, without a
  transaction.* A request writes the row, then calls the scheduler; anything may
  happen between the two, and each of the scheduler's own steps (`getJob`,
  `remove`, `add`) is an await at which other requests, job handlers and
  initializers run.
* *A job carries a copy of the end date*, and the handler acts on the copy, the
  row it read and the row it writes - three moments in time.
* *A job can be locked by the handler that runs it*; BullMQ refuses to remove a
  locked job, and the scheduler service does not distinguish its callers.
* *Workers crash, restart and synchronise* (`refreshAllSchedules`) while
  requests go on.
* *Every check of a request is made on a read, and the write comes an await or
  two later*; what decides in the end is a unique index, a foreign key or nothing.
* *A token says who somebody was*: role and name are those of the moment it was
  signed, the revocation of a refresh token lives in the memory of one process.
* *The dashboard goes on while its functions wait*: each function continues with
  the values of the render it was called in, on a screen that has moved on.
* *Dates are days to the form, instants to the table, and days again to the
  checks of the API*, in two time zones.
* *Awaited calls are rejected, some of them after taking effect*; the scheduler
  repeats a rejected `add` once, BullMQ repeats a failed job twice.

What each component has to get right:

* scheduler and requests: an answered request leaves the job its row asks for;
  a job that is wanted is never dropped; a start repairs what was missed;
* consumer: it completes only campaigns that are open and due, at the end date
  the row has *now*; one handler per campaign; every due campaign is completed;
* campaign table: names unique per owner, no campaign without an owner, nobody
  but the owner or an administrator changes one; races are the only way to an
  internal error or to an inverted range of dates;
* accounts and sessions: a revoked refresh token opens no session; rights end
  with the access token; an administrator remains; lost races are reported;
* dashboard: no button stays disabled, no write happens twice or goes to another
  row than the one shown, a screen once logged out stays so.

The hazards this comes to, with their lines, are in `PROJECT.json`.

## 2. Modules

| Module | What it is | Code |
|---|---|---|
| `CampaignLifecycle` | abstract specification: clients write rows, the system completes due campaigns and does nothing else | what README promises of expiration |
| `CampaignQueue` | the BullMQ queue and the clock; external, modelled from how the code uses it | `campaigns.queue.ts`, options in the scheduler |
| `ExpirationScheduler` | the scheduler service, as steps of the thread that calls it | `campaign-expiration-scheduler.service.ts` |
| `ExpirationConsumer` | the job handler and the worker process | `campaign-expiration.consumer.ts`, `worker.ts`, `workers/` |
| `CampaignRequests` | create, update, remove, as far as the queue is concerned | `campaigns.service.ts` |
| `CampaignExpiration` | the composition of these, the faults, the fairness, the properties | |
| `ApiRequests` | what the handlers share: tables, tokens, guards, the life of a request | `schema.prisma`, `common/guards/`, `jwt.strategy.ts` |
| `Sessions` | login, refresh, logout, the revocation map, a restart of the API | `auth/auth.service.ts`, `auth.controller.ts` |
| `Accounts` | register and the administration of users | `users/users.service.ts`, `auth.service.ts` 48-56 |
| `AccountsApi` | `Sessions` and `Accounts` together, the clock, the properties | |
| `CampaignForms` | dates between table, form and checks | `validation.ts`, `formatters.ts`, `dashboard-app.tsx` 904-957, `campaigns.service.ts` 232-266 |
| `CampaignTable` | create, update, remove, as far as the table is concerned | `campaigns.service.ts`, `update-campaign.dto.ts` |
| `CampaignBook` | abstract specification of the table: no request in sight | what the schema and the checks promise |
| `CampaignsApi` | `CampaignTable` beside the deletion of accounts, the refinement, the properties | |
| `DashboardScreen` | the screen and the synchronous functions | `dashboard-app.tsx` |
| `Dashboard` | the asynchronous functions, the cookie, the properties | `dashboard-app.tsx`, `refresh-token-cookie.ts` |
| `MC...` | instances for TLC | |
| `CampaignExpirationProofs`, `AccountsApiProofs`, `CampaignsApiProofs`, `DashboardProofs` | the invariants of each system, with proofs | |
| `CampaignScheduleProofs`, `BootRepairProofs`, `WorkerScheduleProofs` | what requests, initializers and handlers each do for the schedules, on top of `CampaignExpirationProofs` | |
| `CampaignBookProofs` | the abstract table is consistent | |

`ExpirationScheduler` extends `CampaignQueue`; `ExpirationConsumer` and
`CampaignRequests` extend it; `CampaignExpiration` extends both and instantiates
`CampaignLifecycle` as `Lifecycle`. `Sessions` and `Accounts` extend
`ApiRequests` and meet in `AccountsApi`; `CampaignForms` extends `ApiRequests`,
`CampaignTable` extends it, and `CampaignsApi` joins it with `Accounts` and
instantiates `CampaignBook` as `Book`. `Dashboard` extends `DashboardScreen`.
Operators whose comment begins with *Mutant of* are wrong variants of the
definition that follows them. No module uses them; replacing the definition by
its mutant must break the property it is paired with in `PROJECT.json`.

The four systems share no state: the API modules take the calls of the scheduler
to succeed (their failures are the subject of `CampaignExpiration`), and
`Dashboard` leaves the answers of the API open, which is more than the API gives.

### Accounts, sessions and the campaign table

* `users[u]`, `campaigns[c]` - the two tables. An id is `Fresh` before its row is
  created and `Gone` afterwards; ids do not come back. `EmailTaken` and `Taken`
  are the unique indexes, `Owns` is the foreign key with `onDelete: Restrict`.
* `sessions` - every pair of tokens signed so far: whose, with which role, in
  which second. Anybody may present any of them. Two pairs of one user signed in
  one second are one element, as they are the same strings.
* `revoked` - the keys of `revokedRefreshTokens`; `ended` (history) - the
  sessions whose logout this process has answered. A restart empties both.
* `pc[r]`, `req[r]` - where a handler waits and what its local variables hold; a
  status in `pc[r]` is its answer, and the handler may take another request. One
  await is one step, with the code up to the next one.
* `lastAdmin[u]` (history) - when `u` was last in `StillAdmins`: an administrator
  in the table, or in the row that a request has read and not yet signed a token
  for (`req[r].admin`); `raced` (history) - the handlers during whose request a
  table changed.

| Action | Code |
|---|---|
| `Login`, `RefreshCheck`/`RefreshFind`, `Sign`, `Logout`, `ApiRestart` | auth.service 79-92, 177-198/94-103, 141-161, 105-126, 40 |
| `Register`/`CreateUser`, `StoreAccount` | auth.service 48-56, users.service 41-79 |
| `EditUser`/`StoreChange`, `DeleteUser`/`RemoveAccount` | users.service 89-119, 121-142 |
| `Create`/`StoreNew` | campaigns.service 27-30/32-71 |
| `Update`/`UpdateName`/`StoreUpdate` | campaigns.service 117-138/132-138/140-172 |
| `Remove`/`StoreRemove` | campaigns.service 181-195 |
| `FormOf`, `Payload`, `FormValid`, `Submitted` | dashboard-app 904-957, validation 83-124 |

Abstractions: names, passwords, budgets, statuses and descriptions are left out
where nothing is decided by them; a wrong password is a choice; MANAGER is
treated like USER, as every check does; requests a guard turns away change
nothing and are left out. The clock runs on while a handler waits, also between
the row it reads for a token and the signature, where `bcrypt.compare` and
`signAsync` are awaited. Instants are `Int`, of any unit.

### The dashboard

* `ui` - one record with the states of `DashboardApp` that decide something: who
  is signed in, the lists, each modal with the id it edits and the row its form
  was filled from, the loading flags that are up (`busy`).
* `calls[i]` - the functions that wait: which one, whether it is at its own
  request or at the list it loads afterwards, which fetch it awaits (`request`,
  `refresh`, `retry`), and the values it was called with. `ran` (history) counts
  how often the API acted on its write.
* `cookie` - whose refresh token the browser holds; the answers of login, refresh
  and logout set it.

An answer is `ok`, `refused`, `401` or `lost` - the last one before or after the
API acted. `Touch` is the user at buttons that start no request, `Press` at those
that do, `Answer` an answer with the code up to the next await. A call of a
function whose flag is shared (`users`) may overlap another one: `loadUsers` and
`handleDeleteManagedUser` lower each other's flag, as in the code, which is why
`OneWriteAtATime` does not name `deleteUser`. Fetch has no timeout: a function
may wait for ever, and no fairness is assumed.

### Expiration

* `db[c]` - the row of campaign `c`: its end date (`NoEnd` for NULL) and its
  status. DRAFT, ACTIVE and PAUSED are treated alike by all the code modelled
  here and are the one status `OPEN`. `Fresh` is a row not created yet, `Gone` a
  deleted one (ids are `cuid`s and do not come back).
* `jobs[c]` - the job with id `campaign-expiration-<c>`: its copy of the end
  date, its state, the attempts that failed, how often it stalled, its lock.
* `pc[t]`, `arg[t]` - threads. A request handler, a worker's job handler and a
  worker's initializer are threads; `pc[t]` names the await the thread is at,
  `arg[t]` the campaign it passes on. JavaScript runs to the next await, so one
  await is one step: the awaited operation takes effect and the code up to the
  next await is executed with its answer. That operation is the last thing the
  thread does before others may run, whether or not they run in the same process.
* `bootRows[w]`, `bootJobs[w]` - the two snapshots `refreshAllSchedules` works
  through.
* `now` - the clock; `auto` - a ghost: the campaigns whose COMPLETED was written
  by a worker; `faults` - how many faults have happened.

The scheduler service returns to three kinds of caller. `ReturnPc` and `ThrowPc`
say where each goes on: a request is answered (`ok`, `error`), a handler's job is
acknowledged or failed (`ack`, `nack`), the initializer turns to the next row
(`loop`) or ends the process (`exit`).

#### Actions and code

| Action | Code |
|---|---|
| `Create`, `UpdateFind`/`Update`, `DeleteFind`/`Delete` | campaigns.service 27-57, 117-179, 181-195 |
| `Refresh` | scheduler 114-122: a job with the same date ends it, whatever its state |
| `Unschedule`, `Remove` | scheduler 187-198 |
| `Add` (labels `add`, `readd`) | scheduler 157-180 |
| `ListRows`, `ListJobs`, `VisitRow`, `VisitOrphan`, `BootDone` | scheduler 34-101 |
| `Take`, `Find`, `Complete`, `Latest`, `Ack`, `Nack` | consumer 24-95 |
| `Start`, `Stop`, `BootExit` | worker.ts 6-24, initializer 14-24 |
| `Promote`, `ExpireLock`, `RecoverStalled` | BullMQ |
| `CallFails`, `CallFailsLate`, `AnswerLost`, `ApiDies`, `WorkerDies`, `LockLost` | the environment |

#### What is assumed of BullMQ

A job id is unique while its job exists and `add` under an existing id is
ignored; failed jobs are kept (`removeOnFail: 1000`) and completed ones removed
(`removeOnComplete: true`); `job.remove()` is rejected when the job is locked,
no matter by whom, and succeeds silently when there is none; a handler that
returns or throws after its lock has gone changes nothing; an active job without
a lock is put back once (`maxStalledCount` 1) and then failed; a worker handles
one job at a time; `getJobs(['delayed', 'waiting', 'prioritized'])` lists neither
active nor failed jobs. The backoff between attempts is some delay (`Promote`).
A listed job that is gone by the time `getJobs` has fetched it is not modelled.

#### Left out of the expiration modules

Names, start dates, the range check and ownership (the subject of `CampaignTable`;
requests that are turned away change nothing here), budgets; a row created although its answer was lost is the
same as a request that dies after `Create`; the wording of errors and logs.
Whatever a client sends that passes the end-date check is possible at any time.

## 3. Faults

In `CampaignExpiration`, `FaultKinds` says which may happen, `MaxFaults` how many.

* `call` - an awaited call is rejected and has done nothing.
* `late` - the call took effect and is rejected all the same; or the answer of a
  handler never reaches the queue.
* `kill` - a request is cut off, or a worker process dies.
* `lock` - a worker that is alive loses the lock of its job.

Clock skew is not a fault but a constant: a handler's `Date.now()` is between
`now - ClockSkew` and `now`.

Elsewhere faults are ordinary steps without a bound: `ApiRestart` in `Sessions`
(the process dies, its requests are cut off, the revocations are forgotten), and
in `Dashboard` the answers `401`, `refused` and `lost`, a refresh that fails and
a logout whose answer does not arrive.

## 4. Properties and runs

The first seven runs use `MCCampaignExpiration`. They do not check deadlock: the
clock stops at `MaxTime`, clients need not send anything, so the system may
rightly come to rest. The others do check it.

| Run | Instance | Shows |
|---|---|---|
| `CampaignApi` | 2 campaigns, 1 request, no worker, 2 of call/late/kill | `TypeOK`; `AnsweredInStep`: with one writer a request answered without an error leaves exactly the schedule its row asks for, whatever failed before or during it |
| `CampaignSafety` | 1 campaign, 1 request, 2 workers, skew 1, 1 of lock/kill | `CompletesOnlyWhenDue`: the composition implements `CampaignLifecycle`; `OneHandlerPerCampaign` |
| `CampaignRecovery` | 1 campaign, 1 worker, no request, any table and any queue, 2 kills | `BootRepairs`: a finished initializer has repaired every schedule; `DueGetsCompleted`: due campaigns are completed |
| `CampaignLiveness` | 1 campaign, 1 request, 2 workers, 2 dates, 2 of call/late | `DueJobsEnd`: no job goes on for ever; `ScheduledRuns`: a schedule nobody touches is carried out despite two rejected awaits; `UntouchedKept`: from the moment the last request has left a scheduled campaign alone it has its job until it is completed |
| `CampaignMoved` | 1 campaign, 1 request, 1 worker, no fault | `MovedIsRescheduled` is violated |
| `CampaignBootRace` | the same, worker starting | `BootDropsOnlyStale` is violated |
| `CampaignOverlap` | 1 campaign, 2 requests, no worker, no fault | `NoLostSchedule` is violated |
| `AccountsApi` | 2 accounts, 2 addresses, 2 requests, 3 instants, access tokens of one and refresh tokens of two, at most 3 sessions, restarts | `TypeOK` (addresses unique, no token without an account); `RevokedIsRejected`: a refresh that begins after the logout of its token was answered gets no session, though entries leave the map; `RacesAreReported`: no lost race is an internal error; `StaleRightsExpire`: rights outlive the role by the life of one access token, counted from the loss or from the signature of the last request that had read the row before; `LastAdminFallsToStaleToken`: the last administrator falls only to somebody who is none any more |
| `CampaignsApi` | 2 accounts, 2 campaigns, 2 names, 2 requests, days of 4 units, browser 2 and server 1 unit west | `TypeOK`; `BookKept`: the handlers implement `CampaignBook`; `FailsOnlyInRace`, `RangeBreaksOnlyInRace`: an internal error and an inverted range need another request in between; `OnlyOwnersOrAdmins`; `EditKeepsDays`: opening and saving a form keeps the days |
| `EditIsAccepted` | the same, but browser and server in one zone, 1 unit west | `EditIsAccepted` is violated after midnight |
| `Dashboard` | an administrator and another account, 2 campaigns, 2 functions that wait | `TypeOK` (no modal for nobody); `BusyIsOwned`: a flag that is up will be lowered by a function that waits; `OneWriteAtATime`; `SavesWhatItShows`: what is sent to a row was filled from it; `TakesEffectOnce`: no write is acted on twice; `OutUntilLogin`: a logout with nothing else under way is final until a login is answered |
| `LogoutSticks` | the same | `LogoutSticks` is violated |

`RacesAreReported` holds in `AccountsApi`, where no campaign exists; deletions
refused by the foreign key happen in `CampaignsApi`, whose `FailsOnlyInRace`
covers them.

### Why these bounds

* *One campaign* is enough for most: a campaign's job, row and lock are touched
  by operations that name this campaign, and only the loops of
  `refreshAllSchedules` and the worker's single handler relate campaigns.
  `CampaignApi` has two.
* *Two workers* make every pair of a handler and another worker's initializer or
  handler; *one or two requests* with an unbounded number of requests each (a
  handler that has answered takes the next).
* `MaxTime` 1 has a date that is reached and one that is not; 2, with
  `DayLength` 2, also has an end date of yesterday, which
  `assertDatesAreNotInPast` refuses; one earlier today, which it accepts as it
  compares days, is there with both. `CampaignLiveness` has two dates and two
  workers: a job that stalls or is retried changes hands.
* *Two faults* exhaust a job's three attempts but one, and make the first `add`
  and its repetition fail; `CampaignSafety` has one as the instance is the
  largest.
* In `AccountsApi` *two accounts* make every pair of administrators, of an
  administrator and an account that is demoted, deleted or re-addressed, and of
  two requests for one address; a refresh token outlives an access token, and
  the clock reaches the expiry of both; *three sessions* are two of one user and one of another.
* `CampaignsApi` counts in units of six hours, so that a day has an inside and
  the two zones disagree on the day: the clock starts six hours before the
  server's midnight and reaches it. In `EditIsAccepted` that is the browser's
  midnight too: the day that was today for both is past for both. `Days` has one day that the form offers, and
  `Dates` one instant that other clients send on the next day. Two requests make
  every race of a check and a write; a third would only repeat one of them.
* In `Dashboard` *two functions* that wait make every pair that shares a flag, a
  modal or the session; the proofs cover any number.
* `Init` (run `CampaignRecovery`) starts from every table and every leftover
  queue a history of the same bounds can leave with no process running;
  `InitUp` and `InitDown` from a queue in step with the table. The type
  correctness proof covers all three.

`Symmetry` permutes requests and workers. Campaigns are not permuted: `Nothing`
is a CHOOSE from them. No liveness run uses symmetry. The other MC modules
permute ids, addresses, names and handlers, none of which is chosen from or
ordered; `Dashboard`'s two accounts are not permuted, as one is the administrator.

### Fairness

Only `CampaignExpiration` states liveness. Requests of the other API modules end
after their last await and wait for nobody; a function of the dashboard that
waits for an answer may wait for ever, since no timeout is set.

`LiveSpec` and `LiveSpecUp` assume weak fairness of: a request once it has
started (the Node event loop runs every settled promise; clients are *not*
assumed to send requests), each worker's handler and initializer (the same
event loop, BullMQ's blocking fetch), the queue's timers (promotion, lock expiry,
stalled check), the clock, and the restart of a worker that is down. The last
one is an assumption on the deployment and not found in the repository, whose
`docker-compose.yml` has a restart policy for PostgreSQL and Redis only: without
a supervisor a crashed worker stays down and nothing is completed.

`CampaignRecovery` has one campaign on purpose. With two, an initializer that
meets an active, locked job of the one campaign rejects `remove`, the process
exits, and if every restart meets the job in that state, the other campaign is
never repaired: weak fairness does not exclude such timing. It is listed as a
hazard at `worker.ts:22`.

### Violations found

1. `CampaignMoved`: an update changes the end date while the job is already
   active. Its own refresh cannot remove the locked job, and the handler, which
   notices the new date, calls the same refresh and cannot remove its *own* job
   either. After three attempts the job is failed, with the old date. The API's
   README says the worker reschedules; the unit test mocks the scheduler.
2. `CampaignBootRace`: `refreshAllSchedules` reads rows, then jobs. A campaign
   created between the two has a job and no row in the snapshot: its job is
   removed as an orphan.
3. `CampaignOverlap`: an update that clears the end date is about to remove the
   job; a second one restores the date, sees the job still there, and returns.
   The first then removes it. Both clients are told their update succeeded.

4. `EditIsAccepted`: a campaign that starts today is stored, and midnight passes
   for browser and server alike. The form of a campaign that has started shows
   its first day, lets it pass because it edits (`validation.ts:107`), and sends
   it with everything else; the API refuses a first day in the past on updates
   too. Such a campaign cannot be edited in the dashboard, not even paused.
5. `LogoutSticks`: a request meets a 401 and waits for its refresh; the user
   presses logout, the screen is cleared; the refresh is answered and signs the
   user in again (`dashboard-app.tsx:402` and 329-342). `OutUntilLogin` says that
   it takes such a waiting function.

`NoLostSchedule` is violated in other ways too when workers run (a completed
campaign reopened before its job is acknowledged). In all of these a later start
of a worker repairs the schedule, which is what `BootRepairs` checks, though not
at the moment it happens.

## 5. Proofs

Every safety property of a passing run, invariant or action property, is the
subject of a theorem. Those of `AccountsApi`, `CampaignsApi` and `Dashboard`,
and those of `CampaignSafety` are proved for all values of the constants and
without a hypothesis; `AnsweredInStep` and `BootRepairs` are false in general
(section 4 shows the overlaps that break them) and are proved under hypotheses
about who else is about, `UntouchedKept` under one about what may fail; the
instances of `CampaignApi`, `CampaignRecovery` and `CampaignLiveness` satisfy
them.

`CampaignExpirationProofs`, for any `Campaigns`, `Requests`, `Workers`, any
`MaxTime`, `DayLength`, `ClockSkew`, `FaultKinds` and `MaxFaults`, under the two
assumptions of `CampaignExpiration` (`ConstantsAssumption`: the ranges of the
constants, a campaign exists; `NamesAssumption`: the names of threads and the
special values differ from each other and from dates). Each theorem speaks of
`Spec`, `SpecUp` and `SpecDown` alike.

* `TypeCorrect` - `[]TypeOK`. `TypeOK` is inductive because of what it says
  beyond types: only active jobs are locked, a job that can run has an attempt
  left (or `tries` would leave its range), and a thread at a comparison or an
  `add` carries a campaign with an end date (or `add` would store NULL). One
  lemma per kind of step: what the service does to the queue
  (`ServiceOperations`), what the handler does (`HandlerOperations`), how a
  thread moves (`Moved`, `Called`), then one per actor.
* `OneHandler` - `[]OneHandlerPerCampaign`. The strengthening is `LockHeld`: a
  busy handler holds the lock of its job. `LockFrame` says that nobody else takes
  a lock away: `Remove` refuses locked jobs, `Add` does nothing where a job is,
  `Take` wants a waiting job and a waiting job is not locked (`TypeOK`).
* `Refinement` - `Spec \/ SpecUp \/ SpecDown => CompletesOnlyWhenDue`, that is,
  the detailed specification implements `CampaignLifecycle` under the identity
  mapping on `db`, `now` and `auto`. The strengthening is `HandlerDue`: a handler
  about to update has seen its job's date go by. Together with the condition of
  `updateMany` (same date, not completed) the write is an `Expire`; writes of
  requests are `Write`s; every other step stutters.

`CampaignScheduleProofs`: `InStepWhenCalm` - `AnsweredInStep`, for any number of campaigns, requests and
faults, as long as the state is `Calm`: no worker is up, and no two requests
are under way for one campaign. The inductive invariant `CalmInv` says that a
request that has written its row works for the row as it is stored, and that
where it is about to `add` there is no job, or the one its first, rejected
`add` left. `OneRequestInStep` is the case without workers and with one
request, which is always calm.

`BootRepairProofs`: `BootRepairsAll` - `BootRepairs`, from any table and queue,
for any number of campaigns, as long as no request is under way and at most one
worker is up (`Alone`), with the faults `kill` and `late` without a bound and no
clock behind (`CallsDone`). The worker's own job handler runs beside the
initializer all the time. `AloneInv` says what is left
to do: a campaign that asks for a job has its row still to come, and a job that
was listed for its date is still right; or the scheduler is at work on it; or it
has a right job. `OneWorkerRepairs` is the case of one worker.
Each hypothesis is needed: TLC finds a broken schedule with a second worker, a
request, a rejected call, a lost lock or a clock that is behind.

`WorkerScheduleProofs`: `UntouchedIsKept` - `UntouchedKept`: a scheduled campaign
that no request touches any more keeps the job its row asks for until it is
completed, whatever requests do to other campaigns and however many workers run.
It speaks of workers that stay up (`FewFailures`: answers are lost without a
bound, rejected calls fewer than `Attempts`, no lock lost, no clock behind). Two
invariants hold throughout, `LockHeld` and `AllUp` (no worker goes down, no
initializer runs); a job that waits for its date is therefore nobody's
(`ScheduledKeeps`), and from there `KeepInv` is kept by every step as long as no
request comes back to the campaign (`KeepStep`). `KeepInv`
counts: each failed attempt of the job took one rejected call, each stall two
setbacks, so `Setbacks(c)` never exceeds the faults, and the job does not fail
for good. `WorkersLoseNothing` adds up all campaigns where there are no requests:
`NoLostSchedule`, which `CampaignOverlap` violates, needs requests to fail. Here
too TLC finds a lost schedule as soon as one hypothesis goes: a third rejected
call, a killed process, a lost lock, a clock behind, or one request. (A worker
whose clock is behind finds the due job early, `refresh` takes the job it is
itself running for a schedule, and the acknowledgement removes it,
`campaign-expiration.consumer.ts:54`.)

`AccountsApiProofs`, under `TimeAssumption` (lifetimes are natural numbers, an
access token lives no longer than a refresh token) and `MarksAssumption` (`Fresh`
and `Gone` are no rows). The inductive invariant is `TypeOK` with

* `HandlersOK` - what a waiting handler holds: a refresh that is `late` has an
  expired token at `verify` and does not reach `sign`; whoever is about to get
  the role ADMIN had it in the row that was read; an edit or deletion is of another account;
* `RolesOK` - a token with the role ADMIN was signed no later than its account
  was last in `StillAdmins`;
* `LogoutsOK` - an ended session is in the map or has expired.

`Revocation` and `Races` follow at once, `StaleRights` from `RolesOK` and the
guard, `LastAdmin` from `HandlersOK`: a sender that is still an administrator
remains one after the step, which is of another account.

`CampaignsApiProofs`, under these and `DayAssumption` (a day has a length, zones
and days are integers, NULL is none), `RowsAssumption` and `BlankAssumption`
(marks are no rows). `RoundTrip` is about the operators alone: for every row, day
length and zone, form and payload cancel out; `DaysKept` is its consequence for
stored rows. The inductive invariant is `TypeOK` with `NamesUnique` and

* `MayWrite` - the row a handler is going to write is still one it may access,
  and still there unless another request changed a table;
* `Checked`, `NameFree` - unless one did, its range of dates is in order and the
  name it asks for is free.

That a row never changes hands is what lets `MayWrite` survive the steps of
others. `Ownership`, `Ranges` and `Failures` are then read off the write steps.
`Refinement` maps each write to the step of `CampaignBook` it is - `StoreNew` to
`Enter`, `StoreUpdate` to `Rename`, `StoreRemove` to `Strike`, `RemoveAccount` to
`Leave` - and everything else to a stutter; `NamesUnique` and the foreign key
give the guards.

Further results of this module:

* `Consistency` - every stored campaign's owner has an account, and no owner has
  two campaigns of one name, in every state. It is proved of `CampaignBook`
  (`CampaignBookProofs`), where it needs no more than the guards of `Enter`,
  `Rename` and `Leave`, and comes down to the handlers through `Refinement`.
* `RangesInOrder` - no campaign ends before it starts, as long as no table
  changes between the checks of an update and its write (`Undisturbed`):
  together with `Ranges`, the race is the only cause. `OneAtATime` draws the
  conclusion for an API that answers one request after the other, where also
  every internal error is due to a sender without an account.
* `FormAgrees` - with browser and server in one time zone, what the form accepts
  on a *new* campaign the API does not refuse for its dates. Neither condition
  can go: `EditIsAccepted` violates it for an edit, and with zones apart the days
  differ.

`DashboardProofs`, under `ScreenAssumption` and `OverAssumption` (the values that
stand for nobody and for a finished call are different from the rest). The
inductive invariant is `ScreenOK` (an id that is edited is the row its form was
filled from; nobody has no modal), `CallOK` (what a function holds at each await:
`ran` is 0 until its request succeeded and 1 while it loads a list; the flag of a
guarded function is up) together with `BusyIsOwned` and `OneWriteAtATime`, which
need each other: a function may lower a flag because nobody else has raised it.

`OutStays` is `OutUntilLogin`: on a screen that is `Out` - nobody signed in, no
function waiting but logouts and unanswered logins - no button but the one of the
login starts a request (`BareOffers`), and no answer but a login's signs in.

Only model-checked: liveness (`DueGetsCompleted`, `DueJobsEnd`, `ScheduledRuns`),
as TLAPS reasons about neither ENABLED nor weak fairness here; `UntouchedIsKept`
is the part of `ScheduledRuns` that is safety. The
inductive invariants `CalmInv`, `AloneInv` and `KeepInv` were checked by TLC on
instances of two campaigns and up to two workers or requests before they were
proved; as they hold under hypotheses, they are no invariants of the runs above.

## 6. Not modelled

* *Configuration, CORS, runtime security*: texts read once at start. That the
  duration `M` passes one pattern and not the other is listed as a hazard.
* *Observability and health*: nothing else reads what they keep.
* *Reads* (`findAll`, `findOne`, the list of users): filters without state.
* *Passwords* and the other forms of the dashboard: they check the look of a
  field. A changed password ends no session, in the code as in the model.
* *Messages* of the dashboard, their timers, the language, the theme, the search
  box and the folding panels; `copy.ts`.
* *The order of answered lists*: in `Dashboard` an answered list is any set of
  rows, so that an older one overtaking a newer one cannot be told.
* *A body with `startDate: null`*: `IsOptional` lets it pass the DTO and `update`
  turns it into the first instant of 1970; clients of the model send dates.
* *The rights of the user whose cookie is sent*: a repetition after a refresh may
  be made as somebody else who has logged in meanwhile; `Dashboard` does not
  relate answers to rights.
* *Seed, migrations, the end-to-end runner, CI and compose files*: start-up only.

## 7. What is left

1. `CampaignRecovery` with two campaigns, where one locked job keeps the
   initializer from repairing the other; liveness with clocks apart.
2. Rows in the answers of `Dashboard`, to tell an old list from a new one.
