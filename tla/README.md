# A formal model of Dublyobase

TLA+ modules, TLC configurations and TLAPS proofs about Dublyobase, a
backend-as-a-service in Go on PostgreSQL: records behind an HTTP interface,
realtime events, outbound webhooks, cron jobs and backups, accounts, files.
All of its coordination goes through the database: several replicas of one
process share it, and nothing else.

The project has two halves. What happens *after* a write has committed, where
replicas, crashes and retries meet, has a run per question: the transactional
outbox, the webhook queue and the scheduled jobs (sections 2 to 4). The parts
around them have a module each and share one run (sections 5 to 11).

| Module | What it is |
| --- | --- |
| `EventDelivery` | what an outbox promises: the abstract specification |
| `Outbox` | the outbox of a project, the handlers that write and deliver, the sweep on every replica |
| `MCOutbox` | small instances of it |
| `Extrema` | lemmas about the least and the greatest element of a finite set |
| `OutboxProofs` | theorems about `Outbox` |
| `WebhookQueue`, `MCWebhookQueue` | enqueueing and sending webhook deliveries |
| `ScheduledJobs`, `MCScheduledJobs` | cron jobs and backups |
| `AppSessions`, `OAuthLogin`, `Organizations` | accounts of application users: sessions, one-time tokens, second factors; logins through a provider and organizations on top of them |
| `SessionFamilies` | what refresh sessions promise: the abstract specification |
| `AdminAuth` | administrators: the first one, logins, password changes |
| `RealtimeFanout` | events and broadcasts on several replicas |
| `FileUploads` | files of records, in one request or in chunks |
| `RecordWrites` | transactions on records: versions, batches, roll-ups |
| `FieldValues` | which values a field takes, and which column stores them |
| `RecordAccess` | rules compiled to row-level security, and the statements that run under them |
| `Collections` | collections, their tables, and what a restore and a start do to them |
| `Settings` | documents of the operator, and their secrets |
| `ServerLogs` | the access log and the end of a process |
| `RequestLimits` | the rate limiter, request and storage quotas |
| `WebhookProofs`, `JobsProofs` | theorems about `WebhookQueue` and `ScheduledJobs` |
| `AccountsProofs` | theorems about `AppSessions`, `OAuthLogin` and `Organizations`, interleaved, and the refinement of `SessionFamilies` |
| `AccessProofs` | theorems about `AdminAuth` and `RecordAccess` |
| `RecordsProofs` | theorems about `RecordWrites`, `FieldValues`, `Collections` and `FileUploads` |
| `ServerProofs` | theorems about `ServerLogs`, `Settings`, `RealtimeFanout` and `RequestLimits` |
| `MCPlatform` | small instances of these thirteen, one per scenario |

Run `tlc -config OutboxRecords.cfg MCOutbox.tla` (and so on) for a run and
`tlapm OutboxProofs.tla` (and so on) for the proofs.

## 1. The system

| Component | State | Operations | Interacts with |
| --- | --- | --- | --- |
| Record handlers (`apis/records.go`, `apis/batch.go`) | none across requests | create, update, delete, batches | records, outbox, realtime, webhooks |
| Record store (`core/records.go`, `record_batch.go`) | the tables of a project; `_version` is `xmin` | CRUD in one transaction, atomic batches | triggers |
| History and outbox trigger (`core/record_history.go`) | `dbo_record_history`, `dbo_event_outbox` | one row of each per changed record | runs inside every write |
| Outbox (`core/outbox.go`) | `dbo_event_outbox` per project; a session advisory lock | look up, mark, claim, sweep, prune | ops worker, publisher of `apis/serve.go` |
| Realtime hub and fan-out (`apis/realtime.go`, `core/realtime_events.go`) | subscribers with buffers of 64; `realtime_events`; the last id seen | publish, persist, poll, notify | record handlers, sweep, other replicas |
| Channels and presence (`core/realtime_channels.go`, `apis/realtime_ws.go`) | `realtime_broadcasts`, `realtime_presence` | join, leave, broadcast | WebSocket clients, fan-out |
| Webhooks (`core/webhooks.go`) | `webhooks`, `webhook_deliveries` | create, delete, enqueue, claim, send, record | record handlers, sweep, ops worker |
| Cron jobs (`core/cron.go`) | `cron_jobs`, `cron_runs` | create, update, delete, run, claim, execute | ops worker, administrators |
| Backups (`core/backups.go`) | `backup_jobs`, `backup_runs`, `restore_jobs`, the object store | create, run, claim, dump, restore | ops worker, object store |
| Schedules (`core/schedule.go`) | none | `NextScheduledTime` | cron jobs, backups |
| Ops worker (`core/ops_worker.go`) | a ticker per replica | cron, webhooks, sweep, retention, backups, in this order | all of the above |
| Application accounts (`core/app_auth.go`, `app_tokens.go`, `mfa.go`, `oauth.go`) | `sessions`, `auth_tokens`, users with a `token_key` | sign up, log in, refresh, log out, revoke, reset | handlers |
| Organizations (`core/app_orgs.go`) | organizations, members, invitations | invite, accept, change roles | accounts |
| Admins (`core/admin_auth.go`) | `admins`, their sessions | first set-up, log in, recover | everything administrative |
| Collections (`core/collections.go`, `fields.go`, `schema_versions.go`, `schema_discovery.go`) | the registry and the physical tables | create, alter, drop, import | record store |
| Start-up (`core/migrate.go`, `reconcile.go`, `cmd/serve.go`) | migrations, derived objects | migrate, reconcile | collections |
| Rules, filters, aggregates, exports, vectors | none | text to SQL | record store |
| Constraints, cross-row rules, roll-ups (`constraints.go`, `cross_row.go`, `rollup.go`) | generated triggers | checks in a write | record store |
| Files and uploads (`core/files.go`, `file_uploads.go`) | file metadata, upload sessions, chunks, the object store | begin, chunk, complete, cancel, expire | record store |
| Request log (`core/request_log_writer.go`) | a bounded queue, counters | record, flush, close | middleware |
| Rate limits (`apis/rate_limit.go`) | counters per window | allow | middleware |
| Projects, quotas, keys, MCP, settings, mail, SQL console, UI | rows and configuration | CRUD | as their names say |

What is hard in it, and what makes each part correct:

* **Events.** A write commits; then, without a transaction around them, the
  handler publishes to realtime, enqueues webhooks, looks up its outbox row and
  marks it, while a sweep on another replica claims old rows and does the same.
  Correct means: what is written off has gone out; what has not gone out is tried
  again; sweeps exclude each other and do not burn their retries. A handler looks for its row
  by the path of the request as it came, the trigger wrote it as it is stored.
* **Deliveries.** A runner reads a batch under locks and works on it without
  them. Correct means: a success is a receiver's answer, attempts count sends,
  every delivery settles, an enqueue that reports success is complete.
* **Jobs.** The same shape, with minutes between the claim and the update, and an
  administrator who edits the job meanwhile. Correct means: an occurrence runs
  once, is never put off beyond the schedule and moved back only by an executor that
  was overtaken, no run stays "running", and backups with different names (as stored)
  have different dumps.
* **Sessions.** Refresh tokens rotate under row locks while others revoke, and an
  UPDATE over many rows touches those its statement saw. Correct means: a family
  never forks, a token opens one session, a log-out of everything ends every access token
  issued; the refresh token that a concurrent refresh inserts survives it (section 13).
* **Administrators.** Several replicas set up the first one at once; a login checks a
  password and stores its session later. Correct means: one owner, and nobody signed
  in with a password that was replaced.
* **Fan-out.** Rows are drawn in id order and committed in another, while requests and
  polls publish to the same subscribers. Correct means: nothing twice, in order, and
  nothing skipped but what a full buffer or an inversion of commits costs.
* **Files.** The database and the object store do not commit together, a completion
  works on after its claim. Correct means: what a record refers to is stored, and
  is what was uploaded.
* **Record transactions.** READ COMMITTED, row locks, a trigger that writes a second
  row. Correct means: a version that was compared holds until the commit, and totals
  are those of the children.
* **Rules.** A rule is text, compiled to policies that read a setting of the transaction,
  and evaluated by a three-valued logic. Correct means: each statement does what the
  rule of its own operation says, read as its author reads it.
* **Schema.** A registry and physical tables are renamed, restored and repaired
  separately. Correct means: the policies and constraints of a table are those declared.
* **Settings, logs, limits.** Documents written whole from an unlocked read; a bounded
  queue at shutdown; a limiter that forgets keys to make room.

## 2. `Outbox`

### State and actions

A row of `dbo_event_outbox` is an id; the columns are the functions `topic`,
`status` (`published_at`, or the row is gone), `attempts` and `aged` (older than
the minAge of the sweep, 60 s). A *topic* is what `LatestOutboxID` selects on:
(collection, record, action). Managed records get fresh ids from the database, so
the topics of inserts and deletes occur once (`OnceTopics`); updates occur any
number of times (`UpdateTopics`).

| Action | Code |
| --- | --- |
| `RecordWrite`, `NoopUpdate` | the transaction of `createRecord`, `updateRecord`, `deleteRecord` and the trigger in it, which leaves out an update that changed nothing |
| `BatchWrite` | `runAtomicBatch`; an operation of a batch that is not atomic is a `BatchWrite` of one row |
| `SilentWrite` | writes nobody publishes: `mcpWriteRecord`, the SQL console, cascades |
| `PublishRecord`, `EnqueueWebhooks`, `LatestOutboxID`, `MarkDelivered` | the handler after the commit, one step per statement that others can see; `Matching` is what the lookup finds |
| `Age` | time passes a row by |
| `TryLock`, `Claim`, `ClaimFails`, `SweepPublish`, `SweepEnqueue`, `SweepEnqueueFails`, `SweepMark`, `BatchDone`, `PruneAndUnlock` | `SweepOutbox` and the publisher of `apis/serve.go` |
| `LockLost`, `Crash` | a session of PostgreSQL ends; a replica dies and comes back |

The handlers of `apis/records.go` (176, 210, 227) pass collection and id to the lookup as the path
spells them, while the store normalises the name of the collection (`collections.go:449`) and
casts the id to uuid (`records.go:1409-1412`). So a request is a `record` request or, where
`Environment` has it, a `respelled` one (`RecordKinds`): its write succeeds, its lookup finds nothing
(`Matching`), and its row is left to the sweep. Under another name of the collection its event
may also pass subscribers and hooks of that collection by, which the first steps allow.

`Environment` names which of the difficulties an instance has. The variables
`writer`, `published`, `enqueued`, `sent`, `marker` and `crashes` are history.

Abstractions: a `bigserial` has gaps, the model's ids have none; of two updates of
one record the one with the lower id commits first, as their row lock makes it;
"published" means handed to the hub of the replica (a failure to persist the event
for other replicas is ignored by the code too); `enqueued` counts complete enqueues,
what happens inside one is `WebhookQueue`; a sweep works on one project (the code
takes the projects one after the other under the same lock); a `PruneOutbox` that
fails is one that finds nothing. Tables without the trigger (imported ones, or
`options.history = false`) owe no event and are left out.

### What is checked

| Run | Instance | Shows |
| --- | --- | --- |
| `OutboxRecords` | 2 requests on 2 replicas, an insert topic and an update topic of one record, 2 rows, 1 attempt, slow handlers, respelled paths, crash, failing marks, updates without a change | `OnceEventNeverLost`, `SettledCovered`, and that the outbox implements `EventDelivery` for inserts and deletes (`KeepsPromise`) |
| `OutboxSweeps` | 1 request, 2 sweepers, 2 attempts, 2 batches of 1 row, `/batch` with 2 operations, silent writes, failing enqueues and claims, a lost lock | `TypeOK`, `NoRetryWithinSweep` |
| `OutboxFair` | 1 request that may be respelled, silent writes, 2 sweepers, 2 rows, 2 attempts, 2 batches of 1 row, timely handlers, a crash, failing marks, enqueues and claims, fairness | `OneSweeper`, `SweepTakesCasualties`, and that every row is marked or spends its attempts, also behind a row that fails and is claimed first (`MarkedOrExhausted`) |
| `OutboxLost`, `OutboxWebhookLost` | the smallest instances that show the disagreements of section 13 | |

Two rows and two requests are what the races need: one handler and the row of
another, a claimed row and the next one. With one attempt a failing row is
exhausted at once, so the runs that look at retries, `OutboxSweeps` and `OutboxFair`, have two;
`OutboxRecords` is about what is written off, and one attempt makes that happen soonest. `BatchSize` and
`MaxBatches` (200 and 50) are cut to 1 and 2, so that a backlog does outgrow a batch.
`MaxBatchOps` cuts 50 to 2. One crash suffices to separate a handler from its row; it may
fall at any step.

Fairness (`FairSpec`): a handler runs to its end unless its replica dies; time
passes; the ticker starts sweeps again and again and a sweep goes on; a claim
does not fail for ever (strong fairness of `Claim`). Neither a publish nor a mark is
assumed ever to succeed: each is weakly fair only together with its failure.

### What is proved

`OutboxProofs` proves, for every set of requests, replicas and topics, every bound
and every environment that satisfies `OutboxAssumption`:

* `Invariance`: `Spec => []IInv`, the inductive invariant;
* `TypeCorrect`, `NeverLost`, `MutualExclusion`, `RetriesWait`,
  `NoNeedlessRedelivery`: `TypeOK`, `OnceEventNeverLost`, `OneSweeper`,
  `NoRetryWithinSweep` and `SweepTakesCasualties` are invariants;
* `Refinement`: `Spec => KeepsPromise`, step by step;
* `UpdatesAreCovered`: `SettledCovered` is an invariant.

Why the invariant is what it is: `OnceEventNeverLost` alone is not inductive,
because a mark names a row by what its handler *looked up*. `HandlerInv` says that a
handler that looks up or marks an insert or a delete has published the one row that
has this topic (`OnceInv`: no two rows share such a topic, and `RowsInv`: rows not
yet drawn have none), and `SweepInv` that a sweep that marks has published what it
marks. `SweepTakesCasualties` says of the rows their own request marks that the sweep takes them
only after a fault; its exemption `NeverMarked` names the rows nobody marks (batches, silent
writes, respelled requests), which the sweep does take. It needs `OwnerInv`: a row of an insert
by a record handler that finds it belongs to that handler, is marked when the handler is
done, and is not old while it runs. `LockInv` ties every sweep to the lock.
The theorem `Refinement` then follows from `IInv` with one lemma per action.

`SettledCovered` compares two counts. `CoveredInv` says that of a topic, the rows settled and the
marks still to come (of every handler that published and has not marked, and of every sweep between
the publish and the mark of its row) are together no more than the events sent: a publish adds one
to each side, a mark turns a mark to come into a row settled, a failure or a crash drops one. Whose
row a mark settles does not matter, which is why this holds of updates, where `OnceEventNeverLost`
does not. `MarkedOrExhausted` is liveness under fairness, which the prover does not do.

## 3. `WebhookQueue`

The state is the two tables (`hook`; `dhook`, `status`, `attempts`, `due`), the callers of
`EnqueueRecordWebhookDeliveries` (`call`, `targets`) and the runners (`jobs`, with the attempts each
read; `current`; `outcome`). `Claim` is the whole transaction of `RunDueWebhookDeliveries`: its
locks are gone when it commits, so it is one step and protects nothing afterwards; a batch with a
secret that does not decrypt changes nothing (`Poisoned`). `Send` and `Finish` are
`sendWebhookDelivery` and `finishWebhookDelivery`; a send that ends in an error may have reached the
receiver. `Finish` writes the attempts the runner *read*, plus one. Deleting a hook takes its
deliveries along. `max_attempts` is the same for every hook; the backoff is a step that makes the
row due again; the toggle of a hook is left out because no endpoint has one.

`WebhookQueue.cfg` (2 hooks, one of them unreadable, 1 event, 2 runners, batches of 2,
3 attempts, one unrecorded send per delivery): `EnqueueComplete`,
`AttemptsCountSends` and, with fairness, `Settles`. The last two are where overlapping
runners hurt: the first is claimed only of deliveries no two runners held at once
(`overlapped`), the second for all. Three attempts let a lagging runner set the count back
and still leave one; one event and two deliveries let a batch hold two rows of two hooks.
Fairness: the ticker claims again and again unless the queue is poisoned, a runner is not
interrupted for ever before it sends, finishing may fail, backoffs end. No
receiver is assumed to answer. `WebhookOverlap` is in section 13. `WebhookProofs` proves the three
invariants (section 14).

## 4. `ScheduledJobs`

Cron jobs and backups have one shape and one module. A schedule is the set of its instants, or the
interval of an `@every`; `NextScheduledTime` is the least instant after now (none beyond the 366
days the code searches), or now and the interval; `clock` is a small number of instants. An executor
is an ops worker, or a request that runs a job at once; it holds the jobs it read (`batch`, with the
schedules as they were) and the one it executes (`work`). `CreateRun`, `DumpAndStore`, `FinishRun`,
`ReadClock`, `Advance` are the statements of `executeCronJob` and `executeBackupJob`, with their
failures; after every attempt, not only the last, the job is moved on. That takes two steps: the
next instant is computed from a clock read before (`ReadClock`, `cron.go:351-352`,
`backups.go:446-447`) and written by an UPDATE that compares nothing (`Advance`, `cron.go:354`,
`backups.go:449`), so that an executor which lags between the two can write an older instant over a
newer one; `late` names those that were overtaken there. The key of a dump is the second, the scope
and the name as `backups.go:504` folds it (`Folded`, `KeyName`). The lock of a claim is released by
its commit, as above. `UpdateCronJob` is one step: what it reads before its transaction only decides
the default of `enabled`. Project deletion, which cascades to jobs, is left out; restores are in
`Collections`. The order of the runners in a tick is abstracted: a worker claims either kind.

`ScheduledJobs.cfg` (a cron job with one retry, 2 workers, a manual run, 3 instants, 2 runs, one
fault, an interval and a schedule with a gap): `RunningIsExecuted`, `OncePerOccurrence`,
`ScheduleKept`, `NeverMovedBack`. `JobsFair.cfg` (a cron job, two backups whose names differ once
folded, one worker, 2 instants, 2 runs): `DumpIsOwn`, `DueJobMovesOn`. `DumpIsOwn` says nothing of
names that fold to one key, where the later of two dumps of a second replaces the earlier (section
13). The fault may fall at any step; two would only repeat it. The exemptions are named: `excused`
(a fault, overlapping executors, a schedule that has ended), `stale` (the job was edited under an
executor), `late`, `orphaned` (the executor of a run was lost). Deadlock is not checked: the clock
ends. Fairness: every tick claims jobs of each kind if there are any, an executor goes on; no job is
assumed to succeed. `JobsProofs` proves all but the liveness (section 14).

## 5. `MCPlatform`: one run for the parts around the events

`Platform.cfg` runs `MCPlatform`, which extends the thirteen modules below. An initial
state picks a `scenario`: it names the part that moves, and bounds (`AccountBounds`,
`FileBounds`, ... as constraints on the next state) what is stored in it; the other
parts stand still, so the state spaces add up and do not multiply. Every action of
every module is taken in some scenario. There is no fairness in it and no liveness: the
properties are invariants and action properties; all but one, the conjunction of the type
invariants, are also proved (section 14).

| Scenario | Part | Instance | States |
| --- | --- | --- | --- |
| `sessions` | `AppSessions` | one user, two requests, 4 sessions: log-in, refresh, replay, log-out of all | 19,300 |
| `tokens` | `AppSessions` | 2 one-time tokens, 2 sessions: password reset, change of email, log-in by token | 34,600 |
| `factors` | `AppSessions` | 3 sessions, 2 challenges: enrolment, also while a log-in is under way, challenge, recovery code, removal, factors switched off | 34,400 |
| `providers` | `OAuthLogin` | 2 callbacks, 2 requests, a provider's user, three addresses | 5,000 |
| `organizations` | `Organizations` | an organization, 2 users, 2 invitations, a change of address | 6,100 |
| `admins` | `AdminAuth` | 2 admins, 2 requests, 2 passwords, 2 sessions | 63,700 |
| `realtime` | `RealtimeFanout` | 2 replicas, 2 events, a buffer of 1, a failing insert or a restart | 101,900 |
| `files` | `FileUploads` | a chunked and a direct upload, deletion of the record, expiry, a request that dies | 36,800 |
| `chunks` | `FileUploads` | two requests for one chunk, completion, cancellation, expiry | 35,400 |
| `batches`, `moves` | `RecordWrites` | two transactions of 2 operations on one parent; single moves of children between two | 43,500 |
| `values` | `FieldValues` | every valid definition of a field with small bounds, then another definition, with a new name or without | 2,300 |
| `logs` | `ServerLogs` | 3 requests, a queue and a batch of 2, one row the database refuses, a listener that fails | 6,600 |
| `restores` | `Collections` | one collection, 2 servers with MIGRATE_ON_START and one without, backups and restores with and without roles | 72,900 |
| `edits` | `Collections` | 2 collections, whose index names coincide, an imported table, renames, edits, drops | 2,300 |
| `instance`, `auth`, `quotas` | `Settings` | 3 updates by 2 operators, 3 environments | 39,100 |
| `access` | `RecordAccess` | 2 records, one without owner, 3 sets of rules, all kinds of callers, batches of 2 statements | 53,200 |
| `route`, `rates`, `storage` | `RequestLimits` | 2 clients, a limit of 2 in a window of 2 ticks, 2 keys, quotas 0 to 2 that change under 2 requests, 3 ticks | 21,200 |

Two requests, transactions, replicas or operators suffice wherever the code waits for *a*
lock or reads *a* stale value: the hazards are races of pairs. What needs a third value has
it (a third address, a third environment, a third logged request behind a full batch). Buffers, batches
and limits are cut to 1 or 2 so that they do fill. The bounds are constants named in each
module (`MaxAppSessions`, `MaxEvents`, `MaxSaves`, ...) and guards of the actions
that would exceed them.

## 6. Accounts: `AppSessions`, `OAuthLogin`, `Organizations`, `AdminAuth`

A request of `AppSessions` is one step, or two when it waits or works on what it read:
`LoginRead` and `LoginCommit`, `RefreshLock` and `RefreshCommit` or `ReplayCommit`,
`LogoutAllBegin`, `ConfirmBegin` and `SweepCommit`. `locks` of a request are its row and
advisory locks; `seen` are the rows that the UPDATE of a *sweep* (a log-out of everything,
a new password or email) found when it began, which is what PostgreSQL touches of them.
Access tokens are the pairs (user, token key) that were issued; `token_key` is a number that
only grows. Factors, recovery codes and challenges are in the same module because a log-in
ends in a session or in a challenge (`SessionOrChallenge`). Which one is decided by an unlocked
read before it (`FactorRead`, `mfa.go:207-219`): it finds factors switched off for the project
(`MFAEnabled`), a factor, or none, and a factor may be confirmed between that read and the
insert (`enrolled` is what the read had seen, a history). Time is left out: it only makes
requests fail, which they may at any step.

* `OneLivePerFamily` (not in the run, where `FamiliesAsPromised` implies it): at most one
  token of a family works, whatever races. It rests on the row lock of `RefreshLock`.
* `OpensOnce`: a mailed token, a challenge and a recovery code open one session at most.
* `SecondFactorAsked`: no way in bypasses an enabled factor: password, one-time token,
  provider; those that are new without an answered challenge continue a session. The exemptions
  are `Unasked`: the project has factors switched off, or the factor was confirmed after the log-in
  had looked for it.
* `AccessTokensEnd`: once everything was logged out, or a password or an email changed, no access
  token that user was given is good, nor is one that a refresh or log-in under way will still hand
  out, although these read the token key before the sweep changed it. Of refresh tokens
  nothing like it holds: a refresh that commits between the read and the end of the sweep
  inserts a row the UPDATE does not see (section 13).
* `FamiliesAsPromised`: sessions implement `SessionFamilies`, where a token is opened with a
  credential nobody spent before, is replaced by one new token of the same user and family, or
  ends, and nothing else ever happens. The mapping is `LiveTokens` (sessions not revoked),
  the session ids (tokens handed out) and `Credentials` (what sessions were opened with). It says
  more than the invariants: no token that was revoked or rotated works again, whichever
  of a refresh, a replay and a sweep writes the row last.

`OAuthLogin` adds states, callbacks and linked accounts; a callback consumes its state in a
transaction of its own; later it signs its user up (`OAuthRegister`) or links one it finds and looks
for a factor (`OAuthRead`), and ends in a session or a challenge (`OAuthCommit`). `Organizations`
has `AcceptRead` before `AcceptOrganizationInvitation`, because the handler reads the user, and the
address it compares, before the transaction. `RoleIsLastAccepted`: a role is that of the invitation
accepted last, and no invitation is accepted twice. (An owner who accepts an invitation to the own
organization takes its role, and no rule keeps a last owner.)

`AdminAuth` has the same shape: `SetupBegin` takes the advisory lock, `LoginAdminRead` and
`LoginAdminInsert` have nothing between them. `OneOwner`: setups by any number of replicas
and requests leave one owner. `SignedInWithCurrentPassword`: no session outlives the
password it proved, save for logins that compared it before the change and stored
their session after (`racedLogins`), which the code does not exclude.

## 7. `RealtimeFanout`

The tables are `rows` (visible) and `drawn` (the serial ids drawn, committed or not), per
kind of event; a replica has `last`, the highest id it passed, a poll under way with its
`batch`, and its hub: subscriptions with a bounded `buffer`. `BeginInsert`, `CommitInsert`,
`InsertEventFails` and `PublishLocal` are a request; `StartPoll`, `PublishNext`, `EndBatch` a
poll, which publishes one event at a time; `Restart` loses the hub and takes a new source
id. NOTIFY only hastens a poll, and a poll may start at any time. A full buffer drops
(`missed`), a row committed behind a poll is in `passedBy`, and what a subscription
did not join in time for is in `since`.

`StreamOnceInOrder`: no connection gets an event twice, or those of other replicas out of
order, although requests and polls publish side by side. `NothingSkipped`: what a replica
has passed went to every subscription it matches, but for those three exemptions, each of
which is a loss of the code. That rows older than 24 hours are pruned under a replica that
is further behind is excluded by `Prunable`.

## 8. Files and records: `FileUploads`, `RecordWrites`, `FieldValues`

`FileUploads` has the rows of sessions and chunks, temporary files (`parts`), objects, the
field of each record, and the requests on them. Two requests for one chunk write one
temporary file: what comes of it is either content, or a mixture. `CleanupRead` and
`CleanupCancel` are the expiry, `ClaimFileUploadSessionForComplete`,
`AssembleFileUploadSession`, `UpdateRecordFileField` and `Finish` a completion; `UpdateFails`
includes an update whose commit did happen (`unsure`), after which the code removes the
object all the same. `ReferencedIsStored` (on S3): what a record refers to is stored.
`AssembledAsRecorded`: what is assembled is what the table recorded chunk for chunk, unless
requests for that chunk overlapped or died or were under way at the claim (`disturbed`).
`FilesLost` runs the same module on a local disk; see section 13.

`RecordWrites` is PostgreSQL's READ COMMITTED as this code uses it: a transaction sees what
was committed and its own writes, waits for a locked row and then works on its newest
version. `RollupRead` takes the sum before `RollupWrite` waits. `VersionHolds`: the
version that was compared is still the committed one when the transaction writes and
commits. `TotalsHold`: totals are those of the children except of parents for which a
trigger waited while its sum went stale (`drifted`). The comment "it cannot drift" of
`core/rollup.go:13-17` is thus true only of writers who do not overlap.

`FieldValues` is the pure part: `ValidateField`, `Accepts` (the normalisation of a body, for each
type), `ColumnDDL`, and what `applyFieldDiff` makes of another definition: it replaces one with the
same DDL (`EditField`), keeps the column when `options.oldName` names it, without a look at its DDL
(`RenameField`, `collections.go:667-688`), and rebuilds the column otherwise (`ReplaceColumn`, which
also stands for the rebuild of a computed column, 715-733). The column is therefore a variable of
its own (`ddl`). A value is its JSON kind, its size and whether it has the form its type asks for.
`RequiredFilled`: as long as a field is required, no record is without a value for it, also when the
field was redefined after the record was written; files and json columns are exempt in the code, and
`lax` are the values that a rename turned into values of a required field, or that its old column
took from a body without one.

## 9. `RecordAccess`

Rules are small syntax trees; `compileCompare` and `compilePolicyRule` translate them as the
code does (casts, nulls, claims), `Evaluate` is PostgreSQL's three-valued logic on the
result, `UsingPolicy` and `CheckPolicy` are the policies with their `request_operation()`.
`ResolveRecordAuthForOrg` is the caller a token, an API key and an organization header
resolve to. Statements are lists, aggregates, exports, gets and writes, alone or in batches;
a transaction holds the rows it wrote.

`RulesDecide` compares each statement with a reference that never mentions SQL
(`CompareHolds`, `RuleHolds`, `FilterHolds`): two-valued, a comparison with a missing value
does not hold. A list returns what its rule and filter select, a get what the view rule
shows, a write is done exactly when its own rule holds of the row before and after. It fails
if a batch keeps the operation of its first statement (the mutant).

## 10. `Collections` and `Settings`

A change of a collection is one transaction under an advisory lock and one step; an import reads
before it takes the lock (`ImportRead`, `ImportCommit`), and the rebuild of a starting server does
not take it (`RebuildRead`, `RebuildCommit`). A starting server rebuilds only when a role was
missing (`ServeWithRoles` otherwise), and one with MIGRATE_ON_START=false (`Unmigrated`) not at all:
it serves what it finds (`ServeUnmigrated`, `cmd/serve.go:65`, 74). `RunRestoreFile` and
`RestoreElsewhere` bring back the archive without grants. `PoliciesFollowRules`: as soon as the
roles are there, and while a server serves that migrates on start, the policies of a table are those
of its collection's rule (one with the switch off does serve without them after a restore elsewhere,
of which `README.md:258` only says that it runs no migrations); `overtaken` exempts a collection
that was edited between another server's read and its writes, which then hold the older rule, or was
restored from a backup a server without the switch had made before the policies were there.

Indexes and the functions of triggers have a name that is a concatenation of the collection's and
their own (`constraints.go:320`, 347, 374; `cross_row.go:230-250`), in a namespace all collections
share: `ObjectName` gives it for the names in `SchemaWide`, and need not be injective. An index is
dropped by that name before it is made (`constraints.go:330`), whosever it was: `Untaken` and
`Bereft` are what this leaves of the other tables, `Shadowed` what search indexes (`SearchIndexes`)
take from their own. `ConstraintsAreDeclared`: the checks and indexes of a table are those of its
definition, through renames, drops and re-creation under an old name; only one that has a namesake
(`HasNamesake`) may be missing, and nothing is left over.

`Settings` models each document with its sections: `BeginUpdate` reads it without a lock,
`SaveUpdate` writes it whole. `lost` are the sections that overlapping updates overwrote.
`SettingsHold` says of all others that what the server uses (`Effective`: the document
if it is complete, else the environment; secrets deciphered under the current JWT secret) is
what was last asked for (`Wanted`, a reference that knows the requests, not the
documents): blank secrets keep the last one typed, and a new JWT secret loses
them and says so.

## 11. `ServerLogs` and `RequestLimits`

`ServerLogs` is the bounded queue of the access log, the goroutine that writes batches, the two
prunings and the shutdown: 15 seconds for the handlers, then the writer is told to stop and drains.
When the listener fails instead, the process leaves without a word to the writer (`ListenerFails`,
`cmd/serve.go:116-120`). A batch is one transaction, so that a refused row takes the others with it
(`core/request_log_writer.go:166` says "One bad row must not discard the rest of the batch").
`DrainedOnClose`: what was recorded before the writer was told to stop was taken to the database,
counted as dropped, or lost with a batch, although late handlers still record; and a process whose
listener failed loses no more than the queue and one batch hold.

`RequestLimits` translates `allowLimit` with its trimming, its `sweep` and `evictOldest`, the keys
of routes and quotas, and the storage quota, whose check and write are two steps (`EnsureStorage`,
`StoreFile`: two uploads may pass it together). So are the request quotas: a request reads the quota
of its project (`GetProjectQuotas`, `project_quotas.go:48`, 77) and asks the limiter later with what
it read (`checkQuota`, 58, 65, 90), for the key of log-ins, of public requests or of a principal;
without a limit it asks nothing (`PassUnlimited`). The slice of a key's hits is a set of pairs, a
tick and the number of the hit in it: nothing looks at their order. `WithinWindow`: a request gets
through only within the limit it asks with, counting all that went through in its window; a request
that read its quota before that was lowered asks with the old one, and a key that was evicted to
make room starts again.

## 12. Hazards

`PROJECT.json` lists each place where this code is hard to test, and the properties
that watch it.

## 13. Where the code and its documentation disagree

Each of these is a run that TLC ends with a counterexample.

1. `OutboxLost`: two updates of one record overlap, the first handler marks the
   row of the second, the second dies before it publishes. Its event is lost,
   which `core/outbox.go:19-22` calls impossible. The cause is
   that `LatestOutboxID` (`core/outbox.go:70`) takes the newest row of the
   topic; the proof `NeverLost` shows that inserts and deletes are safe, and `UpdatesAreCovered`
   that no more updates are written off than events went out.
2. `OutboxWebhookLost`: a handler whose enqueue fails (a client that hangs up cancels its
   context) logs it (`apis/webhooks.go:59`) and marks the row.
3. `WebhookOverlap`: the locks of a runner do not cover its sends, so two replicas execute
   the same due delivery at once, against `core/ops_worker.go:8-10`.
4. `JobsCorrection`: an executor that finishes after `UpdateCronJob` schedules the job by the
   schedule it was meant to lose (`core/cron.go:354`, against `core/cron.go:467-469`).
5. `FilesLost`: on a local disk, `DeletePrefix` (`core/object_storage.go:167-180`) hands the
   *parent* of what it removed to `removeDirAndEmptyParents`, which removes it with all it
   holds (`core/files.go:651-653`): replacing a file removes the new one with the old, and deleting
   a record the files of its collection. `apis/files_integration_test.go:117-142` expects
   the directory of the old file and of the record to be gone, no more.

What the modules show without a run of their own, as what a property exempts by name:

* roll-ups drift under concurrent writers (`drifted`), against `core/rollup.go:13-17`;
* an edit of a rule is undone by a rebuild that read before it (`overtaken`), and stays so;
* overlapping updates of a settings document lose sections (`lost`);
* a refused row of the access log takes its batch with it (`ServerLogs`);
* the rows of a `/batch` (`apis/batch.go:84` marks none) and of a request that spells the collection
  or the id another way are swept a minute later although nothing failed (`NeverMarked`), against
  "only ever picks up genuine casualties" (`core/ops_worker.go:38-40`);
* an executor that lags between its clock reading and its UPDATE moves a job back (`late`);
* of two backups of a scope whose names fold to one, dumped in one second, the later dump replaces
  the earlier, and both runs say success (`NameIsOwn`; `core/backups.go:504`, 508), so that "Download a
  completed backup archive" (`README.md:750`) gives one that of the other;
* creating an index drops that of another collection whose name comes to the same (`HasNamesake`;
  `core/constraints.go:320`, 330), and nothing makes it again before that collection is saved.
  Lines 22-25 there name the hazard for truncated names only;
* a field that is renamed to a required one leaves records without a value (`lax`);
* a factor that is confirmed after a log-in had looked for it is not asked of that log-in (`Unasked`);
* a refresh that commits while a log-out of everything waits for it leaves a session that log-out did
  not see (`seen` of `AppSessions`; `core/app_auth.go:402`), against "Revoke all sessions for the
  user" (`README.md:709`);
* a listener that fails loses what the access log has queued (`ListenerFails`);
* a server with MIGRATE_ON_START=false serves without policies after a restore (`Unmigrated`);
* a restore drops grants, and only a start that misses a role rebuilds them (`RunRestoreFile`),
  against "Restoring into a cluster where the roles already exist is unaffected"
  (`README.md:790` of the repository).

## 14. What is proved, and what is only checked

Of the 40 properties of the runs that pass, 36 are proved for every value of the constants that
satisfies the assumptions of their module, with no bound on how many requests, replicas or rows
there are but the constants themselves. Each theorem follows from an inductive invariant; what
had to be added to make it inductive is what the code relies on between two of its statements.

**`OutboxProofs`** (from `OutboxAssumption`): section 2.

**`WebhookProofs`** (from `WebhookAssumption`: at least one attempt, batches of at least one
row, and absent values that are no hooks and no calls). `WebhookInv` gives
`WebhookTypesHold`, `CallsEnqueueAll` (`EnqueueComplete`) and `SendsAreCounted`
(`AttemptsCountSends`). `CallsOK` says that every matching hook a call saw is still to come or
has its delivery, or was deleted; `FreeRows` that an unused row belongs to no call; `HeldOnce`
that what two runners hold is in `overlapped`: the count of a row only one runner holds is the
number that runner has read.

**`JobsProofs`** (from `ScheduleAssumption`). `JobsInv` has five parts. `ExecutorsInv` (the
type invariant, and that an executor which works has a job, a schedule and, after `CreateRun`,
a row) gives `JobTypesHold`. `RunsInv` ties a running row to its executor and a stored dump to
the key it was put under, where no other job with the same folded name can put another
(`NameIsOwn`): `NoRunIsAbandoned`, `DumpsAreOwn`. `ClaimsInv` says that a claim is never
later than the clock, and that an occurrence not yet passed is still in the hands of the
executor that claimed it: `OccurrencesAreClaimedOnce`. `SchedulesInv` says that the copy of a
job an executor works from still is the job unless it is `stale`: `SchedulesAreKept`. `DuesInv` is about
the instant an executor has computed and not written yet: it is later than the claim, not beyond the
schedule although the clock went on, and not before what the job says unless the executor is `late`. The
action property `NeverMovedBack` (`JobsMoveForward`) follows from it.

**`AccountsProofs`** (from `AppSessionsAssumption`, `OAuthAssumption`, `OrganizationsAssumption`) is
about all three modules at once: `AccountsSpec` interleaves every step of sessions, providers and
organizations, on the same users and sessions. `AccountInv` says that a request holds the locks of
the rows it read (`RequestsOK`), that no two hold the same (`LocksApart`), and that what a session
came of is spent (`OriginInv`): from it come `FamiliesNeverFork` (`OneLivePerFamily`) and, with
`OAuthInv` (a state in the hands of a callback has opened no session), `NothingOpensTwice`
(`OpensOnce`). `OrgInv` gives `RolesAreLastAccepted`. `FactorsAreAsked` (`SecondFactorAsked`) is a
property of steps: a log-in that found no factor keeps what it had seen of the enrolments, so that a
factor which is there when it commits was confirmed after it looked.

* `SessionsKeepPromise` (`FamiliesAsPromised`) is the refinement of `SessionFamilies`. Each step
  opens a session, rotates one, ends some, or leaves them (`SessionSteps`). A credential is new
  because `OpensOnce` holds after the step, and what is rotated is the live token of its family
  because the request holds its row. `PromiseMeansOneToken` proves of the promise itself that
  one token of a family works at a time.
* `AccessTokensAreEnded` (`AccessTokensEnd`): a step that changes the token key of a user ends every
  access token issued to that user, and those that requests under way will issue. `KeysInv` says
  that no key was issued above the one in the user's row, so that the next one is new, and that what
  a request is about to issue is the row's key or older.
* `QuotaHolds`: concurrent sign-ups and log-ins through providers never make more users than the
  quota. `QuotaInv` says that a sign-up on its way still has room and holds the advisory lock.
* `AccountsTyped` (`AppTypeOK`, `OAuthTypeOK`, `OrgTypeOK`).

**`AccessProofs`**. For `AdminAuth` (from `AdminAssumption`): `OneOwnerAlways`, where one owner
is not inductive and `SetupInv` adds that one set-up at most is under way, that nobody is there
while it is, and that a log-in, a session or a creation presupposes an admin; and
`OldPasswordsSignNobodyIn` (`SignedInWithCurrentPassword`), where `PasswordInv` adds that one
change of a password at most is under way for an admin, and has seen all who are signed in but for
itself and the logins that raced it. For `RecordAccess` (from `AccessAssumption`,
`FormsAssumption`: rules and filters have the forms of the grammar that is modelled;
`ExpansionsAssumption`: an answer with related rows is no other decision): `RulesAlwaysDecide`
(`RulesDecide`). The lemmas `CompareDecides`, `RuleDecides` and `FilterDecides` say that the
compiled form, with three truth values, is true exactly where the rule or filter is true in
two; `AccessInv` that a list or a view which was not answered yet still runs as what it began
as.

* `AdminsTyped` (`AdminTypeOK`). It needs that one change of a password at most is under way,
  and that passwords are at least one: the bound `MaxPasswords` must not be 0, as the first
  set-up writes one.
* `BatchesApart` and `BatchesCommitWhole`: `BatchInv` says that a row which a transaction has
  written is locked, hence written by no other. Until a batch ends, its rows keep what was
  committed, whatever others commit; then they have all of what it wrote or none.

**`RecordsProofs`**.

* `NoLostUpdate` (`VersionHolds`): `LockInv` says that no two transactions hold a row and that
  each holds what it wrote and what it compared.
* `TotalsAreTrue` (`TotalsHold`): `RollupInv` says that a transaction which changed children of
  a parent has written the parent's total as the sum of the rows it sees, or its trigger is about
  to. Another's commit cannot disturb that sum: it would need the parent's row, which is locked.
  Totals that were computed from a sum no longer true are exempt (`drifted`, section 13). The
  sum is a fold, of which only congruence is used: sums over the same amounts are the same.
* `RequiredIsFilled` (`RequiredFilled`, from `FieldAssumption`): it is inductive with the form of
  fields alone; each change of a definition is shown to fill what it makes NOT NULL, to be refused,
  or to be a rename, which `lax` records if it leaves a value that was not asked for. `ValuesTyped`
  (`ValuesTypeOK`) needs that texts of size 1 fit the bound, as the timestamp that a field may
  default to has that size.
* `PoliciesAlwaysFollow` and `ConstraintsStayDeclared` (from `CollectionsAssumption`): while the
  roles exist, the policies follow the rules, and those in a backup follow the rules in it; once
  they are gone, no server serves that migrates on start, and one that rebuilds has read the
  registry it rebuilds from. A name that goes missing has a namesake: for any `ObjectName`, what a
  sync takes from another table comes to the name of something it makes. `CollectionsTyped`
  (`CollectionsTypeOK`, from the form of requests, `SchemaRequestsAssumption`) carries the types
  through backups and what a rebuild has read; a foreign key leads to a collection because `Valid`
  gives relations, and only them, a target.
* `FilesStayReachable` (`ReferencedIsStored`) and `ObjectsAreAsRecorded`
  (`AssembledAsRecorded`), from `FilesAssumption`: a file that is referred to is settled, so
  that no request stores or removes it again; a file on its way to removal is referred to no
  more; a session is claimed once; and the parts of an undisturbed session are those of its
  chunk table. `FilesTyped` is `FilesTypeOK`.

**`ServerProofs`**.

* `Drained` (`DrainedOnClose`, from `LogsAssumption`): `DrainInv` follows the recorded events:
  in the queue, in the batch, or ended, and in fewer of these the further the writer has come;
  when the listener fails they still are, and the sizes of queue and batch bound the loss.
  `LogsBounded` (`LogsTypeOK`): the queue and the batch stay within their sizes, as a batch that
  is full is written before another event is taken.
* `SettingsAreAsAsked` (`SettingsHold`, from the three assumptions of `Settings`): a pending
  update will write, of every section that nobody saved since it read, what is held or what its
  request makes of it. `SettingsTyped` (`SettingsTypeOK`): a section is never half of one
  request and half of another, and a stored secret is one that was typed, under a server's key.
* `StreamsAreOnceInOrder` and `NothingIsSkipped` (from `RealtimeAssumption`): an id is drawn
  once and its event is in one request's hands (`IdsOK`); a batch is ordered, lies beyond what
  was passed, and has no gap but of rows committed behind it (`BatchOK`); what a connection was
  sent is no later than what its replica has passed, and its own events are with no request any
  more (`StreamOK`). `HubsStayWithin`: buffers, batches and cursors stay within their bounds.
* `LimitsHold` (`WithinWindow`, from `LimitsAssumption`): `LimitInv` says that what a limiter has of
  a key's recent hits is all it let through since it last forgot the key, so that admitting one more
  below the limit asked stays within it, whatever limits the others asked with. `LimiterBounded`:
  the keys a limiter remembers stay within its capacity, and one with recent hits is dropped only
  when it is full of such keys.

What stays with TLC:

* `MarkedOrExhausted`, `Settles` and `DueJobMovesOn`: liveness under fairness.
* `PlatformTypeOK`, the conjunction of the type invariants of thirteen modules. Those of eleven
  are proved, each of the module's own specification: `AppTypeOK`, `OAuthTypeOK`, `OrgTypeOK`,
  `AdminTypeOK`, `FilesTypeOK`, `ValuesTypeOK`, `LogsTypeOK`, `CollectionsTypeOK`,
  `SettingsTypeOK`, `AccessTypeOK` (in `BatchesApart`) and `LimitsTypeOK` (`LimiterBounded`).
  Two are not, because a part of them is a fact about a sum, which takes an induction over finite
  sets: that totals are natural numbers (`WritesTypeOK`), and that the restarts of all replicas
  together stay within the bound (`RealtimeTypeOK`). `RollupInv`, `RealtimeShape` and
  `HubsWithin` have the columns, the sequences and the sizes of buffers and batches.
* The five properties of the runs that find a violation (section 13): they do not hold.

## 15. Not modelled, and why

* Lexing and parsing of rules, filters, cron expressions and vectors, SQL text, file formats,
  thumbnails, the statements of each migration, mail and HTTP: conversions whose detail no
  property tells apart. `RecordAccess`, `FieldValues` and `ScheduledJobs` model what they decide.
* Presence, `schema_versions`, insights, grouping in aggregates, creation and deletion of
  projects, the dispatch of the MCP tools: plain rows, read and written by one statement; a project that
  is deleted takes the rows of all modules with it.
* A field that takes over a column which is already in the table (`AdoptExistingColumn`,
  `collections.go:735-743`); the names of exclusion constraints and of the unique indexes of
  relations, which collide too, but are refused or skipped and not taken from another; the
  truncation of names to 63 characters, which is one more way for two names to be one. A trigger
  whose function another one replaced is modelled as missing.
* The SQL console and the generated SDK pass text through; the UI is a client.
* Compositions of the outbox with the webhook queue and the fan-out: each pair shares one call,
  which one module makes and the other takes as its first action.
