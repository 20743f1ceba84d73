# Verification of build-server

This directory holds TLA+ models of build-server (a NestJS service over MySQL
through Prisma, Redis, and the BullMQ job queue), the TLC runs that check them on
small instances, and the TLAPS proofs of what holds for every instance. Paths
below are relative to `src/src/`. Everything is translated from the code; where a
comment says otherwise, a run shows the difference ("Findings").

    tlc -workers 2 -config JobFaults.cfg MCJobSystem     # one run
    for m in *Proofs.tla; do tlapm $m; done              # the proofs

## 1. The system

The service keeps its state in three places: MySQL (rows; single statements and
some transactions are atomic), Redis (caches, counters, locks, one-time tokens,
the BullMQ queue, Pub/Sub), and the memory of each server process (SSE
connections, coalesced loads, cool-down timers, the Snowflake generator). Several
processes may run; requests, BullMQ workers and cron ticks interleave at every
`await`. There is no transaction over MySQL and Redis. That is where this code is
hard to test, and what the models are about.

| Component | State | Operations | Hard behaviour | What makes it correct |
|---|---|---|---|---|
| Job pipeline (`shared/jobs`: `job.service`, `job.processor`, `job-record.service`, `job-queue.service`) | `job_runs` rows; BullMQ jobs, locks, attempts | submit, process, cancel, compensate | two stores without a transaction, redelivery, crashed workers, stale decisions of compensate | one handler run at a time, no run of a cancelled job, no finished job revived, no job lost between the stores, retries within the budget |
| Job events and SSE (`jobs.controller` getEvents, `events/`) | connections, slots, buffers; a Pub/Sub channel or an in-process Subject | publish, subscribe, snapshot, replay, teardown | events before, during and after the snapshot's SELECT; fire-and-forget delivery | no slot leaks, clients end up with the current state, see no older one, and streams end |
| Job registry, handlers, scheduled tasks | handler map filled at start-up; cron ticks | register, dispatch; submit on a tick | every instance fires its own tick | a tick is one more submit |
| Refresh tokens (`modules/auth/refresh-token.service`) | `refresh_tokens` rows (hash, expiry, revokedAt) | issue, rotate, revoke, cleanupExpired | parallel refreshes of one token, refresh racing logout and user removal | a token is redeemed at most once; after a logout or a removal no successor appears |
| Login (`modules/auth/auth.service`, `shared/caching/login-attempt.service`) | failure counter per email with a window | login, register, recordFailure, clear | check, slow password verification, count: three steps | a bound on guesses per window, no lock-out that outlives the window |
| GitHub OAuth (`github-oauth.provider`, `oauth-state.service`, `oauth-ticket.service`) | one-time state and ticket keys; identity rows | begin, callback, redeem | double callbacks, unique-key collisions and the retry | one account per identity; a state or ticket is redeemed once |
| Users, roles, permissions (`modules/users`, `roles`, `permissions`) | users, roles, link tables, soft deletes | create, update, remove, assign, change password | checks and writes of parallel transactions | no active user holds a removed role; a removed user is not changed (both fail in a race, findings 6 and 7) |
| Posts (`modules/posts`) | posts with versions, revisions, tags, meta; cached entries; covers | create, update, remove, cover upload, view, list, trending | cache-aside races, failed invalidation and its cool-down, coalesced loads, read-merge-write of meta | versions count updates and revisions are the versions; a cached entry is not older than its TTL allows; no cover lost or left behind |
| Cache, sorted sets, hash cache (`shared/caching`) | Redis keys | get, set, del, pattern invalidation; fallback values | degraded operation when Redis fails | part of Posts; the hash cache and `rotateRefreshToken` have no caller |
| Distributed lock (`redis-lock.service`) | one key per lock, token, TTL | acquire, release, withLock | expiry under a live holder | only the holder's own lock is released; exclusion while no lock expires |
| Throttler (`shared/throttler`) | a counter and a block key per client | increment | three round trips per request | a window lets its limit through and no more; while blocked only requests that asked before get through |
| Snowflake ids (`shared/utils/snowflake`) | last timestamp, sequence | nextId | 4096 ids in a millisecond, clock steps | ids are unique and increase |
| Example client (`client/js/export-report-sse.js`) | token, current job, streams with their parser | log in, export, subscribe | clicks while requests are under way, blocks cut by the network | the page shows the job asked for last, and its newest event |
| Uploads (`shared/storage/cover-upload.interceptor`) | permits and a line with timers | acquire, release, time-out | a permit handed on while others give up | no permit lost or made up |
| File storage, request pipeline, logger, health, configuration, job board | files; nothing; output; nothing; constants; third-party UI | I/O, stateless guards and filters | - | not modelled as components; save and delete of files appear with covers, the permission decision with roles |

Interactions: HTTP handlers call the services; `JobService.submit` writes a row
and then the queue; BullMQ calls `JobProcessor.process`; every change of a row
publishes an event; SSE connections subscribe to them; the clean-up cron submits
a job that deletes expired refresh tokens; posts call cache, ranking and storage;
users and roles change what guards read on the next request.

`PROJECT.json` lists every component with its status and every hazard at its
line, with the properties that would catch it; a note says what a property excuses, or
why none covers it.

## 2. Modules

| Module | What it is |
|---|---|
| `JobLifecycle` | abstract specification: the status graph of one row and when its handler may run |
| `JobSystem` | the pipeline: submit, workers, BullMQ, cancel, compensate; one action per store access |
| `JobSse` | event publishing, transport and SSE connections for one job |
| `JobPage` | the browser page that submits an export and follows its job |
| `OneTimeToken` | abstract specification: a credential is redeemed at most once and never comes back |
| `TextHistory` | abstract specification: a document, and the list of what its saves made of it |
| `FairSemaphore` | abstract specification: permits, and a line that is served from its head |
| `Sessions` | refresh tokens of one user: login, rotation, logout, removal of the user, clean-up |
| `OAuthLogin` | GitHub sign-in: states, callbacks, creation of the account, tickets |
| `LoginAttempts` | the lock of an account after failed logins |
| `Users` | rows of users: names, passwords, special roles, soft deletion |
| `Roles` | roles, permissions and who holds them, under parallel transactions |
| `PostRevisions` | create, update and remove of one post: versions, revisions, tags |
| `PostCovers` | the cover file of one post and the meta that names it |
| `PostFeed` | a walk through the pages of the feed while posts change |
| `PostCache` | one post read and written through the cache, and its place on the ranking |
| `UploadPermits` | the semaphore of cover uploads in one process |
| `RedisLock`, `Throttle`, `Snowflake` | the lock, the throttler's counter, the ids |
| `MCJobSystem`, `MCJobSse`, `MCRows`, `MCRedis` | model values for the runs; the last two run several modules |
| `JobSystemProofs`, `JobSseProofs`, `JobPageProofs`, `AccountProofs`, `PostRevisionProofs`, `PostProofs`, `RowsProofs`, `RedisProofs` | inductive invariants and theorems about the modules above, for every value of their constants (section 5) |

How they are composed. `JobSystem` implements `JobLifecycle`; `Sessions` and, for
states and tickets, `OAuthLogin` implement `OneTimeToken`; `PostRevisions` implements
`TextHistory`, `UploadPermits` implements `FairSemaphore`. `PostCache` composes
what meets on one post: the row, both cache keys, the cool-down and the coalesced
loads of each process, the ranking, readers, writers and viewers. `Sessions`
composes logins, refreshes, the removal of the user and the clean-up job. The
other modules have no state in common (each is about rows or keys that the others
do not touch), so `MCRows` and `MCRedis` let one of them at a time run: `part`,
chosen in the first state, says which. A composition of independent parts would
show nothing more, and cost the product of their state spaces. That a behaviour of
`MCRows` or `MCRedis` is one of each part is a theorem (`RowsParts`, `RedisParts`).

Definitions named "Mutant" are plausible wrong versions of the definition behind
them. They are not part of any specification; replacing the real definition by one
of them makes a property fail, which shows that the property depends on the code.

Conventions. A plain read, a transaction's reads with the checks on them, a write
and a commit are steps of their own wherever another actor can come in between;
code between two awaits is one step. A conditional `updateMany` is one UPDATE and
one atomic step. A transaction's reads see a snapshot (MySQL's REPEATABLE READ),
its writes see and lock current rows. Variables marked "history" are no code; they
only say what happened, so that a property can name its exceptions.

### 2.1 JobSystem

State. `status` and `bullJobId` are the columns of `job_runs`. `qstate`, `qmade`,
`qstalls` and `qlock` are what BullMQ keeps of a job in Redis. `spc`, `cpc`, `kpc`
are where the submit, a cancel and a compensation of a job are between two
awaits, with what compensate remembered in `kseen` and `kfound`. `wpc`, `wjob`,
`watt` are a worker inside `process()`. `starts` counts handler runs and `faults`
counts faults; they are history and bound, not code.

| Code | Actions |
|---|---|
| `JobService.submit` | `CreateQueued`, `Enqueue` / `EnqueueFails`, `AttachBullJobId` / `MarkEnqueueFailure`, `SubmitStops` |
| BullMQ's worker loop, `JobProcessor.process` | `TakeJob`, `MarkActive` / `SkipJob` / `MarkActiveFails`, `HandlerReturns` / `HandlerThrows`, `MarkCompleted(Fails)`, `MarkAttemptFailure(Fails)`, `AckSuccess`, `AckFailure`, `WorkerCrash` |
| BullMQ itself (external) | `StallDead`, `StallLive`, `Evict`, `QueueLoses` |
| `JobService.cancel`, `JobQueueService.remove` | `CancelRead`, `CancelInspect`, `CancelRemove(Fails)`, `MarkCancelledIfCancellable`, `CancelStops` |
| `JobService.compensate` | `CompensateRead`, `CompensateLookup`, `CompensateKeep` / `CompensateEnqueue` / `CompensateFail`, `CompensateStops` |

A conditional `updateMany` is one atomic step (`UpdateWhere`); an await between
two accesses is a point where every other actor may move. Each job has one submit
(its id is fresh), and at most one cancel and one compensation at a time.

BullMQ is not part of the repository. It is modelled from how the code uses it:
`add` of a known job id does nothing, a worker locks the job it takes, an
acknowledgement without the lock is refused, a job whose lock expired goes back
to the queue `maxStalledCount` times, failed attempts are retried up to
`attempts`, finished jobs are evicted.

`MissIsNull` says what `Queue.getJob` answers for a job that is not there. The
comment in `job-queue.service.ts:81` says `null`; the library answers `undefined`,
which `compensate` (`!== null`) takes for a job. With `FALSE` the model is the
program as it runs; with `TRUE` it is the program its comments describe, in which
compensation really acts. What compensation promises is checked of the program as it
runs, and fails (finding 3). `job_faults` uses `TRUE` for the safety properties, because
it allows more: with `FALSE` a lookup always ends in `CompensateKeep`, which leaves the
row and the job as if nobody had compensated, so that whatever
it can do to rows, jobs and workers `TRUE` can do as well. The liveness run uses `FALSE`, and the proofs
cover both, but for `BudgetIsKept` (section 5).

Left out: payloads, results, progress values, error texts and timestamps of rows
(no decision of the pipeline depends on them); BullMQ's wait, delayed and
prioritized sets are one state, because they differ only in when a worker may take
the job and time is not modelled; `findDeadLetters`, `list` and `getById` only read.

### 2.2 JobSse

State. The row is a version number, its `updatedAt` in milliseconds and whether
its status is terminal. A writer (the worker; whoever ends the job from outside)
updates the row, reads it back and publishes the copy: three steps. A conditional
update moves a row that is not terminal; the final failure is written by id, over a
terminal row too (`job-record.service.ts:195`). An attempt's failure that is not final
may hit no row and is published all the same (line 222): `UpdateMisses`. `redis` says,
for a whole behaviour, whether events go through Pub/Sub (`chan`, a FIFO that may
lose) or the in-process Subject. A connection is `closed`, `loading` (subscribed,
buffering in `pending`, its SELECT under way), `streaming` or `refused`; `slots`
is `activeSseConnections`; `frames` is what the client was sent.

| Code | Actions and operators |
|---|---|
| the status writes, `publishJobEventSafe` | `UpdateRow`, `UpdateMisses`, `ReadBack` / `ReadBackFails`, `Publish` |
| `JobEventsService` | `Publish`, `Receive`, `Lose`, `Dispatch` |
| `getEvents` | `Connect`, `ReadSnapshot`, `GoLive`, `Refuse`, `Abort`, `GiveUp`, with `Buffer`, `Replays`, `Picks`, `Older`, `Teardown` |

`Replays` says which events of the buffer the replay loop sends: it names their places
(`Picks`), in order, up to the first terminal one; a place is left out exactly when
its event is `Older` than the snapshot. `Older` is the comparison `event.data.updatedAt <= snapshot.updatedAt`: over Redis
the left side is a string from `JSON.parse`, the comparison with a `Date` goes
through `NaN` and is false; in process both are dates. The code behind the
snapshot's await runs to its end without another await, so `GoLive` is one step.

A request for a job that is unknown or another user's is refused without an answer
(`Refuse`): the catch block calls `teardown`, which sets `closed`, and returns because
`closed` is set (`jobs.controller.ts:215-221`). What a closed stream was sent is
forgotten at the next connect, since no property looks at it.

Left out: heartbeats, event ids and formatting; a switch between the two
transports within one behaviour; other jobs (channels are per job); the slots of
connections on other jobs, which `MaxConns` and a second connection stand for.

### 2.3 JobPage

`client/js/export-report-sse.js`. State: the page's token and current job, the
disabled buttons, what `updateJobUI` showed last, and each fetch stream with the
parser's buffer. Actions: `LoginClicked` / `LoginAnswered`, `ExportClicked` /
`ExportAnswered` / `ExportFails`, `Subscribe`, and per stream `Response`, `Chunk`,
`StreamOver`. `StartSse` aborts the stream before. `StreamText` is what
`formatSseEvent` writes for a snapshot, a heartbeat and a terminal event, in
characters as coarse as the parser distinguishes them; `Chunk` delivers any number
of them, so that a block, and its empty line, are cut anywhere. Left out: the log,
the hints, clearing of the old result, and reconnecting, which the page does not do.

### 2.4 Sessions and OneTimeToken

State: `row[t]` is the `refresh_tokens` row, `exp[t]` its expiry, `removed` the
user's `deletedAt`, `rpc`/`rtok` a request between its reads and its writes.

| Code | Actions |
|---|---|
| `AuthService.login`, `register`, `loginWithGithub`, then `issue` | `LoadUser`, `IssueToken` |
| `RefreshTokenService.rotate` | `RotateRead`, `RotateCommit` / `RotateRefused`; a roll-back is `RequestFails` |
| `revoke` (logout), `UsersService.remove`, `cleanupExpired` | `Revoke`, `RemoveUser`, `CleanupExpired` |

None of the three ways to log in looks at `deletedAt`, so a login may issue a token
for a removed user; `JwtAuthStrategy` refuses the access token that comes with it.
The model keeps these tokens (`late`) and `RemovalEndsSessions` names them. A logout
with a token that was rotated before revokes nothing, and the session goes on: it is a
logout only with the token the session has.
Hashes, JWTs and cookies are left out.

### 2.5 OAuthLogin

State: `state` and `ticket` (the one-time keys) with the process that keeps them
when Redis is not configured, `identity` and `accounts` (the rows of this GitHub
user), `others` (names that others took), `cpc` (each callback). `ConsumeState`
and `ConsumeTicket` are `GETDEL`; `FindIdentity`, `CreateGithubUser`,
`RetryWithSuffix` are `loginWithGithub` with `createGithubUser`, where a unique
conflict rolls the whole transaction back. GitHub's answers are arbitrary.

### 2.6 LoginAttempts

`fails` and `expires` are the Redis counter and whether it has a time to live.
`IsLocked`, `Verify`, `RecordFailure` / `Clear` are the three awaits of `login`; the
actions ending in `Fails` are `withRedis`'s fallbacks. `recordFailure` and `clear`
ignore their answer, so an answer that is lost is the action itself.

### 2.7 Users and Roles

`Users`: `user[u]` is the row (name, password, special role, deleted), `job[q]` what
a request is about to write. `CreateLooks` / `CreateWrites`, `UpdateFinds` /
`UpdateLooks` / `UpdateWrites`, `SpecialLooks` / `SpecialWrites`, `PasswordLooks` /
`PasswordVerified` / `PasswordWrites` are the two or three steps of the methods of
`UsersService`; `ResetByAdmin` and `RemoveAccount` are single conditional writes.
What `JwtAuthStrategy` reads of the user who asks belongs to the first step. The writes are by
id: the comment at `users.service.ts:452-453` says that `deletedAt: null` is part of the
condition, the code below it has `where: { id }`, which is what is modelled (finding 7).
E-mails follow the rules of names and are not modelled
apart; free profile fields are left out. The seed's special role `'admin'` is none
of `SpecialRolesEnum`, so that the first super administrator is made by hand:
`UsersInit` starts behind that. `updatePassword` verifies the current password, which
takes a while, and writes by id (`users.service.ts:647`): a password that somebody set
meanwhile is overwritten. Nothing in the repository promises otherwise; the history
variable `overtaken` names the requests to which it happens, and `ShownIsCurrent` says
that nobody else writes a password without having shown the one that is current. What
the model allows and no property forbids: two administrators can remove each other,
although nobody may remove himself.

`Roles`: `AssignCheck` / `AssignCommit` (`updateUserRoles`, and `create` with
roles), `CreateCheck` / `CreateCommit`, `UpdateCheck` / `UpdateCommit`,
`RemoveCheck` / `RemoveCommit`, `RemovePermission`. The repository holds two
contradicting accounts of Prisma's `set` on an explicit many-to-many relation
(`roles.service.ts:218-228` and `users.service.ts:587-590`); `UpdateCommit` allows
both outcomes. Left out: names of roles and permissions, create and update of a
permission, the system role (never changed), the user's own deletion. Two assignments to
one user replace his roles each, but `deleteMany` need not see what the other one has
inserted since it began: `AssignCommit` may leave such rows, so that the user ends up
with roles of both, and an assignment that would insert a row again fails (P2002,
`ChangeFails`).

### 2.8 Posts

`PostRevisions`: one post with its version, text and status, its revisions, the rows
of tags, and the request of each editor. `OpenForm`, `Check`, `Begin`,
`CommitUpdate` are `findOne`, the checks of `PostsService.update`, and the
transaction `updateOnce`, whose UPDATE locks the row; `TagConflict` is the unique
index on tag names with the single retry, `OtherPostTagged` another post's tag.
Abstractly (`TextHistory`) a post is a text and the list of what its saves made of it;
the mapping takes the list from the revisions of updates, and the text from the row.

`PostCovers`: `LoadPost`, `SaveFile`, `ReadMeta`, `WriteMeta`, `DeleteOld` are the
awaits of `uploadCover` and `setCoverImage`; `PatchMeta` and `RemovePosted` the
other writes of the meta. `meta` is the rest of the JSON column. `setCoverImage`
(`prisma-posts.repository.ts:492`) writes back the meta it read, so a PATCH in between
is lost. The history variables `patched`, `overdue` and `undone` say which PATCH was the
last, which uploads read before it, and whether one of these has written; `MetaKept`
says that nothing else costs a PATCH its meta.

`PostFeed`: a post is its id and its sort key. `GetPage` is `findByCursor` with its
keyset condition, order and extra row; `PostMoves` anything that others do to posts.

`PostCache`: `version` stands for the row. Readers: `AskCache`, `LoadById`,
`LoadBypassing`, `ListSelect`, `ListResolve`, `Fill`, `DropFromRanking`. Writers:
`Write`, `InvalidatePost`, `InvalidateLists`, `Unrank`. Viewers: `CountView`, `Bump`.
Faults: every failing command, `InvalidationSkipped` (a cluster node that does not
answer), `ServerDies`. All list keys are one, because the pattern deletes them
together; `trending` drops a post from the ranking on any error of its load, also
when the post is alive, which the model does too: the next view puts it back with a
score of one (see the end of section 4). `RankingKept` says that nothing but an error does that.
A read of the ranking gets its first `limit` members only (10, at most 50:
`posts.controller.ts:87-92`). Scores are not modelled: `inTop` says whether the post is
among them, a view may bring it there, and other posts may pass it or fall behind at any
time (`Reranked`). With an empty ranking, or without Redis, `trending` reads the database,
which changes nothing and is left out.

### 2.9 UploadPermits, RedisLock, Throttle, Snowflake

`UploadPermits`: `available` and `queue` are the semaphore's fields; `AcquirePermit`,
`QueueUp`, `TimesOut`, `Parsed` (multer called back: subscribe or fail, then
`release`), `Handled`. A permit is returned as soon as the handler is subscribed
(`cover-upload.interceptor.ts:160-166`), so permits bound the files being received,
not the files in memory, which line 75 speaks of. multer is external and assumed
to call back always. Abstractly (`FairSemaphore`) there is a number of permits in use
and a line; who joins it is served after all who were there, unless they left.

`RedisLock`: `Acquire`, `AcquireUnanswered`, `Finish`, `Release`, `ReleaseFails`,
`Expire`. Nothing in the repository calls `RedisLockService` (its doc names a method
of `PostsService` that does not exist); it is modelled as written.

`Throttle`: `ReadBlock`, `CountHit`, `SetBlock` are the round trips that matter (the
PTTL in between only reads), `CountHitUnanswered` and `FailsOpen` the errors.

`Snowflake`: an id is <<millisecond, sequence>>. `NextIdNewTime`, `NextIdSameTime`,
`NextMillis` are `nextId`; `Restart`, `ClockGoesOn`, `ClockSetBack` the environment.

## 3. Runs

| Run | Configuration | Shows |
|---|---|---|
| `job_faults` | one job, two workers, 2 attempts, 1 fault, `MissIsNull = TRUE` | `TypeOK`; `HandlerExclusive`: no two workers run the handler of a job; `NoOrphan`: without faults no row waits for a job that is nowhere; `ImplementsLifecycle`: `JobSystem` implements `JobLifecycle`, so that a cancelled job is not being run and a finished one never goes back |
| `job_live` | the same with `MissIsNull = FALSE` and a compensating operator | `RetryBudget`: without faults at most `MaxAttempts` runs, and failed only behind the last; `JobsEnd`: an accepted job ends unless a fault strikes |
| `job_sse` | two connections, 1 slot, buffer of 2, 3 versions, 2 ms, 1 loss, both transports | `SlotsExact`; `UpToDate`: at rest a stream has shown the current version last; `LocalNeverBackwards`; `StreamsEnd` |
| `rows` | `MCRows`, ten parts | see below |
| `redis` | `MCRedis`, four parts | see below |
| `job_terminal_overwrite`, `job_abandoned`, `job_miss_undefined` | as `job_faults` | findings 1-3 (a violation is the expected result) |
| `job_sse_replay`, `job_sse_same_ms` | as `job_sse` | findings 4 and 5 (a violation is the expected result) |
| `role_in_use` | one user, one role, two requests | finding 6 (a violation is the expected result) |
| `user_removed` | the administrator and one account, 3 names, two requests | finding 7 (a violation is the expected result) |

The run `rows`:

| Property | Says |
|---|---|
| `TypeOK` | of every part |
| `OneTokenPerSession` | a session nobody ended has exactly one live token, an ended one none: refreshes in parallel neither fork it nor lose it, and a refresh under way at a logout with the session's token leaves nothing behind |
| `RemovalEndsSessions` | behind the removal of a user only logins completed later are live |
| `RefreshTokensOnce`, `OAuthCredentialsOnce` | refresh tokens, OAuth states and tickets implement `OneTimeToken`, in Redis and in the Map |
| `OneAccount`, `RacesAreCaught` | racing callbacks make one account with its identity, and fail only when both names they tried belong to others |
| `ShownIsCurrent` | whoever is about to change a password has shown the current one, unless another change overtook the request |
| `RemovedRoleIsBare` | a removed role has no holders and no permissions, but for an overlap with a change that found it before |
| `NoLostUpdate` | a save with a version replaces what its author saw |
| `ImplementsHistory` | every update that commits adds its text behind the revisions, and no transaction writes an older one (`TextHistory`) |
| `FilesExact` | the cover a post shows is in the storage; undisturbed uploads leave one file |
| `MetaKept` | the rest of the meta is what the last PATCH wrote, unless an upload that had read before it wrote back |
| `FeedExact` | a post that keeps its place is given exactly once in a walk |
| `IdsIncrease` | ids increase through full milliseconds, clock steps and restarts, but for a restart into a used millisecond |
| `PanelExact` | the page shows the newest event of the job asked for last, whatever is clicked and however streams are cut |
| `PermitsExact` | no permit is lost or made up, and nobody waits while one is free |
| `ImplementsSemaphore` | the line is served from its head, and a permit is in use from its grant to its return (`FairSemaphore`) |

The run `redis`:

| Property | Says |
|---|---|
| `TypeOK` | of every part; `LoginTypeOK` includes that no failure counter is without a time to live (`login-attempt.service.ts:18-19`) |
| `StaleOnlyWhenKnown` | without faults an entry is stale only while a write has still to invalidate it, or when a reader stored what it had loaded before the write |
| `InFlightExact` | a coalesced load is in the table exactly while somebody waits for it |
| `CacheConverges` | once writes cease the cache ends with the current version or nothing, given that entries expire (not with `REDIS_DEFAULT_TTL=0`) |
| `GhostsLeave` | a deleted post does not stay among the members of the ranking that are read; one that ranks below them may stay for good |
| `RankingKept` | a post keeps its score until it is deleted or something fails |
| `GuessesBounded` | parallel logins exceed the limit of guesses by at most one each, and one per outage |
| `LockExclusive` | two holders only when the lock of one expired |
| `ThrottleExact` | a window lets its limit through and no more; while blocked only requests that asked before |

Bounds, and why they are enough.

- Jobs. One job: the code of one job never reads another's row or BullMQ entry; jobs
  meet only in a worker, which takes one at a time. The proofs have no such bound.
  Two workers: exclusion and redelivery need a second one. Two attempts make both
  outcomes of `isFinal` happen, one stall both branches of the stalled check. One
  fault per behaviour, of any kind and at any point; cancel and compensate may be
  repeated without limit. More faults are covered by the proofs, for all safety
  properties.
- SSE. Buffer of 2 and three versions: the buffer overflows and still has to end with
  the newest. 2 is the smallest buffer `LimitsAssumption` allows (the code's is 100): in
  a buffer of one, a progress event that was read before the job's end and published
  behind it would push the end out, and a stream over Redis would not learn of it; two milliseconds and three versions give both equal and different
  timestamps (time passes only while there are writes to come); one slot and two connections make the limit bite. A failure that hits no row is published when all
  three versions are there (`MissesFrom`) and one event at most is on its way
  (`MaxUnderWay`), so that they do not pile up; the proofs do not use these bounds.
- Sessions: 4 tokens, 2 requests, `TTL` 1, `MaxClock` 2: two sessions, a session with
  two successors, expiry and clean-up. OAuth: 2 states, callbacks, servers, suffixed
  names: a race, its retry, and the retry's conflict.
- Users: the administrator and one account, 3 names, 2 passwords, 2 requests, so a
  check of one is old when it writes. Roles: 2 people, 1 role, 2 permissions, 2
  changes: roles are independent, two changes make every overlap.
- Posts: 2 editors, 2 texts, tag lists {g1} and {g1, g2}, 3 versions; 2 uploads
  of a cover that overlap, and one meta to PATCH beside none; 4 posts on 2 keys with pages of 2 and 2 changes,
  so that ties, a page boundary inside a tie and a vanished cursor all occur. Cache:
  2 readers in one process (coalescing), a writer and a viewer in another, 1 write,
  1 fault. A second write adds a second late reader and nothing else.
- Ids: `SeqSize` 2 and times 0..3: a full millisecond, two steps back. One process: others
  have other worker ids in their ids, which is what the deployment has to see to. Page: 2 jobs,
  2 streams. Permits: 2, with a line of 2 and 5 requests, so that one is refused.
- Logins: 3 with `MaxAttempts` 2 and 1 outage. Locks: 3 holders (an expired one, its
  successor and one more). Throttler: 3 calls, `HitLimit` 2, 6 hits (two windows).

`CHECK_DEADLOCK FALSE` in `Rows.cfg`, `Redis.cfg`, `RoleInUse.cfg` and
`UserRemoved.cfg`: these parts are
requests that people send. A walk ends, uploads and ids are used up by the bounds,
and nobody has to send another request.

Fairness, and why the code justifies it. In `JobSystem`: a request handler or
worker that no fault strikes runs on (`SubmitProgress`, `WorkerProgress`,
`CancelProgress`, `CompensateProgress`), BullMQ's stalled check runs
(`StallDead`), and handlers end - the registered ones are finite loops. Nobody has
to submit, cancel or compensate, and no fault has to happen. `OperatedSpec` adds
an operator who compensates every unfinished job again and again; only the
properties that speak of compensation rest on it, and `JobsEnd` holds under it
as well. In `JobSse`: queries are answered, writers publish what they wrote,
Redis delivers; clients need not connect or leave, and streams must end without
their help. In `PostCache`: requests that were accepted are served and Redis expires
what has a time to live (weak fairness); people keep asking for the ranking (strong
fairness, since the ranking's requests are possible only while a reader is idle),
on which only `GhostsLeave` rests. Such a request reaches the post only while the post
is among the first members (`inTop`): nothing is assumed of a ghost below them, which
nobody reads and nobody takes off. The other parts have no fairness and no liveness
property: their requests may be abandoned at any step.

Two properties do not hold with `MissIsNull = TRUE` and are therefore in
`job_live` only, a fact about the intended compensation worth knowing: a
compensation that read an old row can fail a row whose job was retried meanwhile
(`RetryBudget`), and a cancel that removes the job before a compensation adds it
again can alternate with it for ever (`JobsEnd`).

## 4. Findings

1. A final failure overwrites a terminal status (`job-record.service.ts:195`): the
   update is by id alone, against the comment above it and `jobs.controller.ts:257`.
2. A job whose worker died behind `markActive` is never failed
   (`job.processor.ts:34`): BullMQ redelivers it, `process()` skips it, BullMQ keeps
   it as completed, and compensate finds it there and leaves the row active.
3. Compensation never re-enqueues a lost job (`job.service.ts:194`): `undefined`
   is not `null`.
4. Through Redis the replay takes the client back to older states
   (`jobs.controller.ts:269`): a string is compared with a `Date`.
5. Without Redis a terminal event of the snapshot's millisecond is skipped and the
   stream does not end (`jobs.controller.ts:268`).
6. A user can be left with a removed role (`roles.service.ts:297-322`,
   `users.service.ts:569-597`): both transactions check before either writes and
   neither locks what it checked, against the comments at `roles.service.ts:311-312`
   and `users.service.ts:568`.
7. A removed user is updated (`users.service.ts:454`): the update finds him, he is
   removed, and the write by id renames him all the same, which also frees the name he
   had. The comment at lines 452-453 says that `deletedAt: null` keeps the write from a
   removed user, and the one at 482 that the request then answers `USER_NOT_FOUND`.

Met on the way, without a run of their own: in jwt mode the job board asks for
`specialRoles` in the token, which carries only `sub`
(`refresh-token.service.ts:27-33`), so it refuses everybody; a refused SSE request is
never answered (`jobs.controller.ts:219`, section 2.2), although line 277 says that the
exception reaches the filter; the comments on Prisma's `set` and on the memory of
uploads are discussed with the modules above. `trending` takes a living post off the ranking when
one read of it fails (`posts.service.ts:205`): the comments on lines 200 and 206 speak
of deleted members, the code catches any error.

## 5. Proofs

Every invariant and every action property of the passing runs, and every refinement,
is proved for every value of the constants; a run shows them on one small instance.
The hypotheses are the named assumptions of the modules and nothing else, with one
exception (`BudgetIsKept`). Each theorem rests on one inductive invariant of its
module, proved with one step per action: `...StepType` or `...Step` lemmas for
preservation, a lemma for the initial states, and a theorem that combines them.
Four theorems state properties that no run lists. `CancelStopsRuns` and
`NeverResurrected` say what follows from the life cycle; `ExactHistory` is the invariant
on which the refinement of the history rests (it also says that no revision is ahead of
the row); `SecondAttemptConnects` says what the one retry of a save is worth.
`RowsProofs` and `RedisProofs` then speak of the very specifications that the runs
`rows` and `redis` check.

| Module | Theorem | Property | Inductive invariant |
|---|---|---|---|
| `JobSystemProofs` | `TypeCorrect`, `Exclusive`, `CancelStopsRuns`, `NeverResurrected`, `Refinement` | `TypeOK`, `HandlerExclusive`, `CancelledNeverRuns`, `NoResurrection`, `ImplementsLifecycle` | `TypeOK /\ Owned` |
| | `NoJobIsLost`, `BudgetIsKept` | `NoOrphan`, `RetryBudget` | and `Calm`, `ActiveIsAttached` |
| `JobSseProofs` | `TypesHold`, `EverySlotIsFreed`, `NobodyGoesBack`, `QuietMeansUpToDate` | `TypeOK`, `SlotsExact`, `LocalNeverBackwards`, `UpToDate` | `SseInv` |
| `JobPageProofs` | `PanelIsNewest` | `PanelExact` | `PageInv` |
| `AccountProofs` | `OneSession`, `RemovalIsFinal`, `RefreshOnce` | `OneTokenPerSession`, `RemovalEndsSessions`, `RefreshTokensOnce` | `SessionInv` |
| | `OneGithubAccount`, `EveryRaceIsCaught`, `CredentialsOnce` | `OneAccount`, `RacesAreCaught`, `OAuthCredentialsOnce` | `OAuthInv` |
| | `NobodyChangesUnshown` | `ShownIsCurrent` | `UsersInv` |
| | `RemovedStaysBare` | `RemovedRoleIsBare` | `RolesInv` |
| `PostRevisionProofs` | `ExactHistory`, `SecondAttemptConnects`, `NoUpdateLost`, `RevisionsAreHistory` | `RevisionsExact`, `RetryConnects`, `NoLostUpdate`, `ImplementsHistory` | `RevisionsInv` |
| `PostProofs` | `FilesStayExact`, `MetaStays` | `FilesExact`, `MetaKept` | `CoversInv` |
| | `EveryPostOnce` | `FeedExact` | `FeedInv` |
| | `NoPermitIsLost`, `SemaphoreIsFair` | `PermitsExact`, `ImplementsSemaphore` | `PermitsInv` |
| `RowsProofs` | `SnowflakeIncreases` | `IdsIncrease` | `SnowflakeInv` |
| | `RowsParts`, `RowsTypes`, `RowsKeepPromises`, `RowsImplement` | `TypeOK` of `MCRows`, and all properties of `rows` | those of the parts |
| `RedisProofs` | `StalenessIsExplained`, `LoadsAreAwaited`, `ScoreIsKept` | `StaleOnlyWhenKnown`, `InFlightExact`, `RankingKept` | `PostCacheInv` |
| | `GuessesStayBounded` | `GuessesBounded` | `LoginInv` |
| | `LockExclusion` | `LockExclusive` | `LockInv` |
| | `ThrottleIsExact` | `ThrottleExact` | `ThrottleInv` |
| | `RedisParts`, `RedisTypes`, `RedisKeepsPromises` | `TypeOK` of `MCRedis`, and all safety properties of `redis` | those of the parts |

### 5.1 The arguments

**The pipeline.** `HandlerExclusive` is not inductive: nothing in it says why a second
worker cannot activate the row. `Owned` is
`Assigned /\ HeldStarted /\ HandlerExclusive /\ Fresh`:

- `HeldStarted` - a row whose handler some worker holds is active, completed or
  failed - is the heart: `markActive` demands a waiting row, so it cannot succeed
  while anybody holds the job, whatever BullMQ delivers. It also gives
  `CancelledNeverRuns`. BullMQ's locks play no part in it: exclusion rests on the
  conditional UPDATE alone.
- `Fresh` - before its submit a job has no row, and a compensation starts only from
  an existing row - keeps `CreateQueued` from overwriting anything.
- `Assigned` - a worker inside `process()` has a job - lets the actions of workers
  be typed.

The lemmas `Unnoticed`, `LetGo` and `Keep` say how `Running`, the refinement's view of
the workers, changes with a worker's step; `StepRefines` maps each action to a
transition of `JobLifecycle` or a stutter.

**The pipeline without faults.** `NoOrphan` and `RetryBudget` speak of behaviours in
which no fault has struck, and there the two stores do agree. `Calm` says how:
`LocksHeld` ties BullMQ's lock and its count of attempts to the worker inside
`process()`; `RowsFollowed` says that BullMQ hears of an end only when the row has
ended; `RunsCounted` that handler runs, the worker's attempt and BullMQ's count move
together. `FaultFree` leaves out the actions that are faults. `BudgetIsKept` has the
hypothesis `~MissIsNull`, which is the program as it runs: with the compensation that
the comments intend `RetryBudget` is false (section 3), because it can fail a row whose
job was retried meanwhile. `ActiveIsAttached` is why that cannot happen as it is.

**Events.** All versions that anybody still has - the row, the writers' copies, the
channel, the buffers, the snapshots - are points of one history (`Chain`). They travel
in its order, but for one progress that was read before the job's end and is published
behind it (`Order`; the two writers are not synchronised). `Shown` bounds what clients
were sent by what can still come, which makes `LocalNeverBackwards` inductive. As long
as nothing was lost, what a client has yet to see is in its buffer or on its way
(`Arrives`, `EndArrives`); at rest nothing is on its way, and that is `UpToDate`.
`SlotsInv` adds that the open connections are finitely many, since `slots` is their
number.

**The page.** The parser is the hard part: `LastEnd` and `Events` look at the text of
the moment, and the theorem has to know what they find wherever the text was cut.
`Unparsed(k)` is what the parser keeps when `k` characters have arrived; `ChunkParsed` says
that a chunk takes `Unparsed(r)` to `Unparsed(k)` and shows the newest version in
between. `PageInv` adds that only the latest stream is asked for or open, which is what
`abortController.abort()` is for.

**Sessions.** Every token belongs to the session that its head began (`HeadsAreHeads`), so
`OneTokenPerSession` can be kept per session: a rotation moves the one live token, and
fails at the conditional UPDATE when another one did it before. **GitHub**:
`TriesAreJustified` - a callback tries again only when somebody has the name it tried
or the identity is there - gives `RacesAreCaught`; `CreationIsAtomic` is the transaction.
**Users**: `JobsMakeSense` says that every write by id is of a row its request had found,
and an insert of one that is not there and that nobody else works on. `PasswordsInOrder`: of the requests
past the check of a password, each one that nothing overtook has shown the password of
the row, and whatever writes a password overtakes all of them (`Changing`). **Roles**:
`RemovalsAreAlone` - outside a race nobody holds a role about to be removed and nobody is
about to use a removed one. **Failed logins**: the guesses of a window are the counted ones,
those under verification, and those an outage left uncounted; that number is bounded
because finitely many logins are under way (`LoginsAssumption`).

**Revisions.** The row lock is `OneUpdate`: of two transactions only one is past its
UPDATE, of the version it was sent. `FormsShowVersions` - a form shows the text of the
version it sends along - gives `NoLostUpdate`; `RetriesKnowTheirTag` gives
`RetryConnects`: with one tag the code's single retry is enough. That the revisions are a
history (`HistoryStep`) needs `RevisionsExact`: a commit appends behind the newest
revision because the row's version is their number.

**Covers.** `FilesInOrder` says of each upload under way that its file is there and
that what it is about to delete is shown no more; `OneAfterTheOther` how the files
relate to the cover while uploads do not overlap. `MetaInOrder` says of each upload that
has read and not written: what it holds is the last PATCH's meta, or the upload is
overdue. **The feed**: `GivenWhenPassed` - a post
that keeps its place was given exactly when the cursor has passed it. What a page is
(the first rows by key and id) is defined by counting the rows before a row, so the
lemmas `FewerBefore`, `RowsAreFirst` and `NextPageIsSeen` relate it to the cursor; the
least row exists because ids are natural numbers (well-founded induction) and posts are
finite in number. **Permits**: `LineExact` (the queue holds each waiting request once)
and `PermitsCounted` (free permits and those in use are all there are), with lemmas on
what `findIndex` and `splice` leave of a queue. `SemaphoreStep` maps each action to a
step of `FairSemaphore` or a stutter: a release hands the permit to the head of the line,
and that is the waiting request which `LineExact` finds there.

**The cache.** `StaleOnlyWhenKnown` and `InFlightExact` are inductive with the types: the
properties themselves name every late reader and every writer that has still to
invalidate. `DropsAreDue` - who is about to take the post off the ranking has found it
gone, or met an error - gives `RankingKept`. **The lock**: whoever is past `acquire` and did not overrun its time still
has its token under the key. **The throttler**: no more requests are let
through than were counted, up to the limit (`Counted`), and who may still pass a block
asked before it was written (`PassersAreStale`). **Ids**: every id given is below the generator's
position, or of an earlier process (`GivenAreBelow`).

**The parts together.** `EachPartSteps`: a step of one part leaves the variables of the
others as they are, so it is a step or a stutter of each; a behaviour of the whole is
therefore one of every part (`RowsParts`, `RedisParts`), and every theorem about a part
holds of the whole. The fairness of `MCRedis` is not used. `PageTypes` is the one type
invariant that had no proof in a part: what the parser keeps is shorter than a block
(`KeptIsShort`), and what it shows is a version or what was shown before.

### 5.2 Assumptions

They are in the modules, with names, and TLC evaluates them on the runs. Limits and
bounds are natural numbers, positive where a limit of 0 would stop the service;
placeholders (`NoJob`, `NoWorker`, `NoText`, `NoFile`, `NoToken`, `Free`) are none of
the values they stand beside. Beyond that: tag lists, the posts of the feed, and logins
are finite sets (`TagListsAssumption`, `FeedAssumption`, `LoginsAssumption`); the
administrator is an account and has a name (`AccountsAssumption`); a post's "nothing" is
no version (`NothingAssumption`); a buffer holds at least two events
(`LimitsAssumption`, see section 3).

### 5.3 What is only model-checked, and why

- Liveness: `JobsEnd`, `StreamsEnd`, `CacheConverges`,
  `GhostsLeave`. Fairness and ENABLED are out of this prover's reach.
- That the text of a stream is parsed whatever its blocks are: `PanelIsNewest` is about
  the three blocks of `StreamText`, cut anywhere. A statement for every text needs
  induction over sequences.
- The violations, of course.

## 6. Plan and limits

Done: every component of the plan has a module and a run, every safety property of the
passing runs is a theorem, every hazard has a property or a note why not, and what has an
abstract specification is proved to implement it. What could follow:

1. an abstract specification of the distributed lock, once something calls it and says
   what it relies on;
2. the texts of streams that have other blocks than `StreamText`, for TLC only: a proof
   needs induction over sequences.

Not modelled, and why:

- request pipeline (envelope, exception filter, validation, decorators), logger,
  health checks, configuration: stateless per request, read-only, or output;
- job board: a third-party user interface behind one check;
- S3 driver, image processing, file names: I/O without shared state. That a local
  file appears at once under its name is `PostCovers.SaveFile`;
- hash cache, `wrap`, `rotateRefreshToken`: no caller;
- names and texts of roles and permissions, the seed of the catalogue: no decision
  between two requests depends on them beyond the unique index;
- `search`, `list`, `debug` and other reads that change nothing and are not cached.
