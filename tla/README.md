# TLA+ verification of the STACKIT landing zone configurator

The landing zone configurator (`src/landing-zone-configurator`) lets users plan
and apply OpenTofu changes to landing zones from a browser. A broker API keeps
everything durable in PostgreSQL, hands every execution to a one-shot container
on Cloud Foundry, and keeps or references the OpenTofu State of each landing
zone. What is hard in it happens between these parties: a run has an owner, an
API process, a timer, a container that can die or be killed, a State row with
its own lock and version, and a State object in the customer's S3 bucket that
other people can write.

The rest of the repository (`src/src`, `src/landing-zone-configurator/infra`) is
Terraform: declarative, with no state machine of its own.

Paths below are relative to
`src/landing-zone-configurator/app/apps/api/src/` unless they start with `app/`
(`src/landing-zone-configurator/app/`); `db/` is `app/apps/api/db/`.

## Contents

| File | What it is |
| --- | --- |
| `PlatformRuns.tla` | plan and Apply runs, their State, their runner, the S3 object |
| `MCPlatformRuns.tla`, `MCPlatformRuns_{runs,lock}.cfg` | its safety runs |
| `MCPlatformRunsLive.tla/.cfg` | its liveness run |
| `PlatformRuns_proofs.tla`, `PlatformAccess_proofs.tla` | theorems about it, checked by TLAPS |
| `RunnerPool.tla` | the warm runner pool, its leases, its processes and runners |
| `OneShot.tla` | what the dispatch of a job promises, abstractly; `RunnerPool` implements it |
| `MCRunnerPool.tla`, `MCRunnerPool_{pool,reclaim}.cfg` | runs of the pool |
| `RunnerPool_proofs.tla` | theorems about it, and the refinement of `OneShot` |
| `RunnerCleanup.tla`, `MCRunnerCleanup.tla`, `MCRunnerCleanup_{guards,sweep}.cfg` | the retention sweep of stopped apps |
| `RunnerCleanup_proofs.tla` | theorems about it |
| `PlanRetention.tla`, `PlanRetention_stuck.cfg` | the pass of `Plans.maintain` over expired runs when a removal keeps failing |
| `ApplicationJobs.tla`, `MCApplicationJobs.tla`, `MCApplicationJobs_jobs.cfg`, `ApplicationJobs_stopped.cfg` | the jobs of one application order, lost runners, clearances |
| `ApplicationJobs_proofs.tla` | theorems about it |
| `StateRecovery.tla`, `MCStateRecovery.tla`, `MCStateRecovery_publish.cfg` | guided recovery of the State of a lost Apply |
| `StateRecovery_proofs.tla` | theorems about it |
| `ApplicationUpgrades.tla`, `MCApplicationUpgrades.tla`, `MCApplicationUpgrades_upgrades.cfg` | upgrades of an order, and Applies of the platform it rests on |
| `ApplicationUpgrades_proofs.tla` | theorems about it |
| `PROJECT.json` | components, runs, mutants, source map, findings, hazards, theorems |

Parse with SANY, check with `tlc -config <cfg> <MC module>` (`stopped` and `stuck`
are checked on the module itself), prove with `tlapm <module>_proofs.tla` (`PlatformAccess_proofs` extends `PlatformRuns_proofs`).

How the modules fit together: the jobs that `RunnerCleanup` sees begin, end, are
held and cleared as `PlatformRuns` and `ApplicationJobs` say; `RunnerPool` starts
the jobs of both; `StateRecovery` begins where `ApplicationJobs` has left an Apply
to reconcile, and ends in the clearance that `ApplicationJobs` looks at;
`ApplicationUpgrades` sets the jobs of an order beside the Applies of the platform
that it rests on, both with fewer stages than in their own modules. Each module
keeps of its neighbours what it reads of their rows, and the section of the module
says so.

## Inventory

For each component: the state it keeps, its operations, its partners, what is
hard about it and what makes it correct.

### Platform plan and Apply runs — `plans/service.ts`, `plans/execution.ts`

* State: `lzc.plan_runs` (status, owner, State key, base version, claim, app,
  package, error, applied version, expiry), `plan_credential_grants`,
  `plan_artifacts`, `state_recoveries`, `platform_reconciliations`,
  `platform_states` (document, version, S3 location and identity, lock,
  migration in progress).
* Operations: `start`, `apply`, `dispatch`, `input`, `stage`, the bootstrap
  State backend (`readState`, `lockState`, `writeState`, `unlockState`),
  `saveArtifact`, `report`, `saveRecovery`, the migration of the State to S3,
  `reconcile`, `cancel`, `revokeGrant`, `maintain`.
* Partners: the runner (HTTP with a ticket), Cloud Foundry, S3, timers, owners.
* Hard: `input()` is five transactions with remote requests between them;
  dispatch and its catch block are promises nobody awaits; a runner the broker
  gave up on keeps running; any answer can be lost.
* Correct when: one writer per landing zone, secrets only to the run that may
  have them, a plan is applied once and on the State it was made for, the State
  is never lost in its migration, and every run ends.

### Warm runner pool — `plans/runner-pool.ts`, `app/apps/worker/src/warm-runner.ts`

* State: `lzc.runner_pool_slots`; apps named after their slot; an advisory lock.
* Operations: `maintain` (retire, remove, replenish, launch), `claim`, `start`
  (reserve, record, assign, withdraw), `remove`, `probe`.
* Partners: both dispatchers, Cloud Foundry, warm runners that poll.
* Hard: two API processes at once; a lost answer to an assignment or a claim;
  Cloud Foundry restarts a container that ended; an app can be created after its
  slot is gone.
* Correct when: a job is executed at most once and by the runner its broker
  knows, nobody takes the runner of a running job away, the pool keeps to its
  size, and every lease ends.

### Runner retention sweep — `plans/runner-cleanup.ts`, `db/076`–`078`

* State: a queue of deletion intents. Operations: list stopped apps, classify
  (completed, orphan, protected), recheck, delete, confirm absence.
* Hard: eligibility is decided before many requests and used after them.
* Correct when: no app of a live or unsettled job is deleted, every intent is
  confirmed or retried.

### Cloud Foundry driver — `plans/cloud-foundry.ts`

* State: none of its own; apps by deterministic name. Operations: `start`,
  `prepareWarm`, `remove`, `removeWarm`, `startRecovery`, `isStopped`.
* Hard: a crash between creating an app and recording its id; a deletion is
  answered before it is done.

### One-shot runner — `app/apps/worker/src/runner.ts`, `main.ts`, `deploy/runner/run-plan.sh`

* State: its working directory, the phase it reached, its error.
* Hard: what it reports when OpenTofu, the State backend or the broker fails
  half way; a deadline that kills it.
* Correct when: its failure path never reports more than is known.

### Customer S3 State backend — `deployments/backends.ts`

* State: one object and one lockfile outside the broker's control.
* Hard: reads of the two are separate requests; writes are conditional.

### Application jobs — `applications/service.ts`, `runner-start.ts`, `execution-lifecycle.ts`

* State: `application_job_grants`, `application_dispatches`,
  `application_runner_tickets`, `application_runner_records`, State locks.
* Operations: order, approve, dispatch, consume a ticket, report stages,
  artifacts and results, fail, reconcile.
* Hard: the same interleavings as platform runs, plus approvals by one user and
  execution by another.
* Correct when: one active job per instance, an Apply runs what was approved.

### Interrupted jobs and State recovery — `applications/interrupted-*.ts`, `recovery-replan.ts`, `state-recovery.ts`

* State: clearances, recovery rows with a phase, recovery tasks.
* Hard: what was observed outside the transaction must still hold inside it;
  receipts must be idempotent; two operators recover at once.
* Correct when: an instance is cleared only after everything that could write
  has stopped, and a recovered State is published once.

### Application upgrades — `applications/upgrades.ts`

* State: published upgrade paths with their policy, the candidates of an order
  (append only), the candidate each job was made under, approvals of Plans; per
  platform Apply the guard with the digest of its dependants, and acknowledgements.
* Operations: publish a path, request a version or another platform contract,
  withdraw, adopt the policy published since, approve a Plan; acknowledge the impact
  of a platform Plan, admit and release its Apply.
* Hard: a platform Apply is reviewed against orders that go on living; a candidate is
  replaced while jobs of the one before are in flight; lost Applies.
* Correct when: jobs work for the newest candidate, what is written was approved, a
  withdrawal says what the cloud is, nobody works beside a platform Apply, and an
  admitted one changes only what was acknowledged.

### Sessions and sign-in — `auth/`

* State: sessions, device authorisations, refresh tokens, linked identities.
* Hard: rotation of one refresh token by concurrent requests, polling races.
* Correct when: a device code signs in once, a revoked session stays revoked.

### Organisation, configurations, credential profiles

* State: memberships and invitations, one revisioned document per
  configuration, versioned secrets with the grants that point at them.
* Hard: single use of an invitation, lost updates, deletion under a live grant.

### Timers and start-up — `main.ts`

* Three single-flight interval timers: `Plans.maintain` (30 s),
  `RunnerPool.maintain` (5 s), the retention sweep.

### Left aside

Local plan runner (developer-only), HTTP parsing, the assistant (text in, text
out), the web interface, GitHub repositories (calls of a service), catalogue and
domain validation (pure, large, better served by their unit tests), storage
plumbing. `PROJECT.json` gives the reason for each.

## Plan

1. **PlatformRuns** — done, with eleven theorems.
2. **RunnerPool** and the abstract **OneShot** — done, with five theorems; the refinement is
   checked and proved.
3. **RunnerCleanup** and **PlanRetention** — done, with five theorems about the first.
4. **ApplicationJobs**, with interrupted jobs and clearances — done, with ten theorems.
5. **StateRecovery** — done, with six theorems.
6. **ApplicationUpgrades**, orders and their platform together — done, with six theorems.
7. Left: **Sessions** (rotation and device polling), **Invitations** and
   **Configurations** (lost updates against an abstract register).
8. Left: **S3Backend**, the split read of lockfile and object, against the atomic
   read that PlatformRuns assumes; the pure algorithms `migrationStateMatches` and
   `approvableSummary` as operators against reference definitions.
9. Left to prove: the safety of the modules of 7 and 8 once they are written, and that a
   receipt of the retention sweep means that the app is gone.

Every module takes its sets as CONSTANTS with named assumptions, has one action
per operation and declares no RECURSIVE operator, so that it can be proved about.

## PlatformRuns

One action is one database transaction, one request of a runner, or one step of
the environment (time, logout, a crash, another writer of the S3 object). A
request of a runner can be served while its answer is lost; the runner then takes
its failure path.

| State variable | Code |
| --- | --- |
| `run`, `grant`, `artifact`, `recovery`, `receipt` | rows of `plan_runs`, `plan_credential_grants`, `plan_artifacts`, `state_recoveries`, `platform_reconciliations` |
| `state` | the row of `platform_states`: version, document or S3 identity, `lock_run_id`, migration |
| `remote` | the S3 object and its lockfile |
| `dispatch`, `input` | how far the promise of `dispatch()` and the handler `input()` of a run got in the API process; `ApiRestarts` forgets both |
| `worker` | how far `runWorker()` got, which credentials it has, the error it will report |

| Actions | Code |
| --- | --- |
| `Admission`: `Start`, `Apply` | `Plans.start`, `Plans.apply`, with the capture of `execution.ts` and the partial unique indexes of `db/017` |
| `Dispatching` | `Plans.dispatch`, its `record` callback, its catch block |
| `Input` | the five transactions of `Plans.input`, with the checks between them |
| `Execution` | the runner's path and the handlers it calls: stages, lock, state, artifact, result, migration |
| `Failure` | the runner's catch block, recovery evidence, its death |
| `Owner` | cancel, revoke, the two ways to reconcile (`RetainState`, `ConfirmMigration`) |
| `Time`, `ExpireRuns`, `Clean` | expiries, `expire_plan_runs`, `Plans.maintain` |

What is abstracted. A timestamp is a flag: ahead or passed. A State document is its
writer and its serial, which is as much as `migrationStateMatches` tells apart.
The identity of the S3 object is a counter of its writes. A check of data outside
the model (source repository, role, manifest) can refuse a request, so it is a step
that abandons the request or a request that is not made. `Backends.current` reads
lockfile and object in one step. OpenTofu refuses a saved plan that is stale for
the locked State, and nobody removes an S3 lockfile by force; both are assumptions
about programs outside the repository. Live output streaming is left out.

### Runs

| Run | Instance | What it shows |
| --- | --- | --- |
| `runs` | 3 runs, 2 owners, 2 packages, 1 landing zone, see below | what `input()` checked still holds when it releases secrets, the package of the plan included; a revocation and a release exclude each other; no access after the end; equal versions mean equal State; one writer; a plan is applied at most once, as approved; snapshots stay; reconciliation only at rest; migration keeps the State; success records the right version |
| `live` | a plan and its Apply, 1 owner, 2 State versions and serials, 2 writes of the object | every run ends, the container of every settled run is deleted |
| `lock` | 2 runs, 1 disturbance | a **violation**, see Findings |

A *disturbance* is a timeout, a revocation, a logout, an error, a failure of the
runner, or a write of the S3 object by somebody else. `runs` is the union of three
instances (`PairOrAlone`): two runs of two owners and two packages with one
disturbance of any kind; and, of one owner and only of Applies (`FewDisturbances`),
two runs with up to three disturbances and three runs with one. Three runs are
a plan, its Apply and a newcomer, the longest chain in which one run can harm
another; two are enough where the properties relate two parties.
`MaxVersion = 3` covers capture, Apply, migration and refresh; `MaxSerial = 2` is
a State before and after an Apply; `MaxEtag = 2` an object before and after a
foreign write. The deadlock check is off because a behaviour may use up its run
ids.

`live` has a plan and its Apply: `OrderedStep` cuts admissions of a second plan and
early losses of a grant other than by cancellation, which the properties do not
depend on. Both are under no fairness, so that the behaviours that are left are
behaviours of `FairSpec`, in which the Apply writes, migrates, is lost and reconciled.

*Fairness.* Weak fairness of `ExpireRuns` and `Clean` (the timer of `main.ts`
calls `Plans.maintain` every 30 seconds) and of `RunTimesOut` (time passes).
Nothing is assumed of runners, owners or API handlers. The fairness of `Clean`
includes that removing a container succeeds in the end: `maintain()` has no `try`
around one row (`plans/service.ts:1421`), so while a removal keeps failing the
rows after it wait. `PlanRetention` is about that.

## RunnerPool and OneShot

| State variable | Code |
| --- | --- |
| `slot` | `lzc.runner_pool_slots`; `token` is `token_hash`, `assignment` the job whose ticket is encrypted in the row |
| `app`, `proc` | the Cloud Foundry app of a slot and its containers |
| `job` | what the dispatcher's table keeps of a job: its runner, and whether it is live, held (`reconciliation_required`), settled, ended or cleaned up |
| `dispatch` | how far `start()` and its caller got |
| `maint`, `filling` | how far `maintain()` of each API process got; who holds the advisory lock |
| `prepare` | how far `prepareWarm()` of a slot got |
| `remover` | the slot a `remove()` is working on |
| `log` | the executions, as `OneShot` has them; a history variable |

| Actions | Code |
| --- | --- |
| `Maintain` | `RunnerPool.maintain`: retire, remove app and row, replenish under the advisory lock, wait for the launches; a failing request ends the pass |
| `PrepareWarm` | `prepareWarm` and the `record` callback of `maintain`, with its catch block |
| `Start` | `RunnerPool.start` and the cold path of `CloudFoundryPlanRunner.start`, inside `dispatch`/`dispatchJob` |
| `Instance` | `runWarmRunner` against `claim` |
| `Remove` | `RunnerPool.remove` by `Plans.maintain` and by `probe` |
| `JobEnds`, `JobHeld`, `JobSettled` | the end of a job as the pool can see it (`db/044`, `db/077`) |
| `Expire`, `GrowQuiet`, `ApiCrashes`, `AppGone` | time, crashes, asynchronous deletion |

The two `UPDATE`s and the `SELECT` of a pass are one step: what another process
does between them could as well happen before or after. "Ready" for less than 10 or
for 10 to 15 seconds of silence are not told apart; `Misses` is always possible.

`OneShot` is the promise: a sequence of executions in which no job and no runner
occurs twice. `ExecutesOnce` is `OneShot!Spec` under `Runners <- Slots \cup Jobs`
(a cold job has an app of its own). It holds although an answer to the assignment
or to the claim can be lost, containers overlap while one replaces the other and
restart after they ended, and several processes dispatch and remove.

| Run | Instance | What it shows |
| --- | --- | --- |
| `pool` | see below | the refinement of `OneShot`; nobody takes the runner of an unsettled job away; no started app without a lease; the size of the pool |
| `reclaim` | 1 slot, a platform or an application job, 1 API process, 2 overlapping containers | reservations end; runners of settled jobs are removed |

`pool` is the union of three instances, which `OneThing` states: one warm runner
with a platform or an application job and two overlapping containers, so that it is
claimed twice, beside a maintenance; one warm runner for which a platform and an
application job compete; or two slots of a pool of size 1 with a probe or with two
processes that maintain it, which is what a full pool and a removed slot need.
`reclaim` lets either job use the lease (`OneJob`); `Begin` is under no fairness.
The API processes, the jobs of one kind and the slots are symmetric. The ids of slots
are used once and run out, which `Fresh` allows for and why the deadlock check is off.

*Fairness* (`reclaim`). Weak fairness of `maintain`, launches and time: `main.ts`
calls `maintain` every 5 seconds and all requests have timeouts. Strong fairness of
deletions: one that is tried for ever succeeds in the end, even if passes fail or
processes crash in between. The pool removes in the order of `created_at` and stops
at the first failure, so this is an assumption about Cloud Foundry.

## RunnerCleanup and PlanRetention

| State variable | Code |
| --- | --- |
| `job` | what the sweep looks at of `plan_runs` and `application_dispatches`: status and app; how far `RunnerPool.start()` got for the job and the app it leased meanwhile; that a warm runner claimed it |
| `slot` | `runner_pool_slots`: status, expiry, app, job |
| `app` | the apps of the space: their state, age, tasks and who is starting them |
| `pending`, `receipts` | `runner_cleanup_pending` in the order of `last_checked_at`, `runner_cleanup_receipts` |
| `sweep` | how far the pass of an API process got, its page and its list |

| Actions | Code |
| --- | --- |
| `TakePending`, `ConfirmPending`, `LeavePending` | the first half of `maintain`: absence of what was deleted earlier |
| `ListPage` | `cleanupPage` and the filter on state, age and label |
| `Admit`, `Inspect`, `LookAgain`, `RecordIntent` | `runner_cleanup_disposition`, `deleteStoppedRunner`, the durable intent |
| `RequestDeletion`, `ConfirmDeletion`, `PassOver` | the DELETE with an answer that may be lost, the six looks after it, the next app |
| `SweepFails`, `SweepEnds`, `ApiRestarts` | the ends of a pass |
| `Gone`, `Create`, `Record`, `Launch`, `Stops`, `Age` | Cloud Foundry and the two drivers that create apps |
| `Begin` … `LateRecovery` | jobs, as the other modules say |
| `Lease`, `Expire` | `createSlot`, `expires_at` |
| `Reserve`, `Bind`, `Assign`, `GiveUp` | `RunnerPool.start()`: the reservation, `record()` of the leased app while the slot is only reserved, the UPDATE to *assigned* whose answer may be lost, the `catch` or the end of the process |
| `Claim` | `RunnerPool.claim()` |
| `Retire`, `RemoveWarm`, `ForgetLease` | `RunnerPool.maintain()` and `remove()`: *retiring*, `removeWarm`, the DELETE of the row |
| `RemoveCold` | `Plans.maintain()` for a run without a lease |

| Run | Instance | What it shows |
| --- | --- | --- |
| `guards` | a cold and a warm app of this deployment, an unlabelled app of another one, 2 API processes, 2 apps per page, batches of 1 | the app of a job that is live or held stays, a warm one from the claim on, whatever the sweep and the pool do; apps of others are kept; what the sweep deletes is at rest |
| `sweep` | 2 cold apps, 1 API process, pages of 1 and batches of 1 | every deletion is confirmed; the app of a job that is over goes |
| `stuck` | 3 runs, passes of 2, 1 runner that can not be removed | a **violation**, see Findings |

Pages and batches of one make the cursor and the queue turn over with two apps. The
warm app with an application job is the case where three rows (lease, job, app) must
agree, and they do not change together: `start()` binds the app to the job before the
lease is assigned, and `maintain()` may retire the lease in between. `EvidenceKept`
therefore speaks of warm apps from the claim on. What the documentation says, and
the code does not do, is `HeldRetained`; see Findings. *Fairness* (`FairSpec`): the timer keeps calling `maintain`; processes are not
restarted for ever; a request that is tried for ever succeeds in the end.

`PlanRetention` has `run`, `finished`, `removed` and `pass` for the rows, the
order of completion, the containers and the loop of `Plans.maintain`. Its fairness is
that of the timer (`WF` of the pass) and strong fairness of each removal that *can*
succeed: the run shows that this is not enough.

## ApplicationJobs

One application order. Every SQL function locks the row of the order and is one
step; the requests to Cloud Foundry and the object store, the runner and OpenTofu
move between them.

| State variable | Code |
| --- | --- |
| `job`, `made`, `aged` | grant, dispatch, ticket, claim and records of each job, in the order they were made; how many of them have expired |
| `start` | how far `dispatchJob` of the API got |
| `runner` | the worker of the job: what it holds, what it did |
| `lock`, `wrote` | the State in the customer's bucket: its lock, the Applies that wrote it |
| `delegation`, `source` | the execution delegation of the platform engineer; the execution binding of the order |
| `cleared` | the clearances, with the number of jobs made and the State they were given for |
| `check` | what an owner or operator has looked at and not yet recorded |

| Actions | Code |
| --- | --- |
| `PreparePlan`, `PrepareApply`, `RevokeGrant` | `prepareJob`, `startApply`, `revokeJobGrant` |
| `Delegate`, `RevokeDelegation`, `UpgradeSource` | `configure_application_execution`, `upgrade_application_execution` |
| `Dispatch` | `dispatchJob`: reserve, ticket, bind, launch, its catch block, a restart of the API |
| `Work` | the runner and the handlers it calls: consume, claim, input, stages, records, result, its failure path, its death |
| `Inspect` | runner-start check, completion of an interrupted Plan, record of an interrupted Apply, the two looks and the record of a clearance |
| `Expire`, `Unlock`, `Forget` | time; the customer removes an orphaned lock; an inspection nobody acts on |

Time is one number: capabilities of a job expire 25 minutes after it was made, so in
the order of the jobs. The version of State is the set of Applies that wrote it. An
operator who attests that a runner has stopped tells the truth (`ObserveState`).

| Run | Instance | What it shows |
| --- | --- | --- |
| `jobs` | 4 jobs, 2 delegations, 1 upgrade, standard and destroy | one worker; an Apply is of the newest Plan and of one made after every clearance; revoked grants release nothing; the source is held; *failed* wrote nothing; a clearance saw all that was written |
| `stopped` | 1 job | a **violation**, see Findings |

`Histories` is the union of two kinds of behaviours: two jobs with everything that
may happen to them, and four jobs one after the other whose Plans go well, which is
the shortest history with a lost Apply, its clearance, a new Plan and its Apply, in
which the stale Plan of the first Apply could be used again.

## StateRecovery

| State variable | Code |
| --- | --- |
| `phase`, `aged`, `review` | `application_state_recoveries`: phase, expiry, and what was reviewed: State, lock, inventory |
| `task`, `intent` | tasks (prepare and commit) and the durable intents (revoke, unlock, publish) |
| `request` | a reviewer's request between its looks and its last transaction |
| `worker`, `call` | the recovery runners; their requests in the API between looks and transaction |
| `old` | the runner of the lost Apply, which may still be there |
| `s3`, `cloud` | State with its lockfile; what the inventory of the cloud lists |
| `cleared`, `later` | the clearance and whether the order has a later job |
| `pushed` | history: the proposals whose candidate was written |

| Actions | Code |
| --- | --- |
| `Propose` | `request_application_state_recovery`, expiry, a refused assessment |
| `Reviewer` | assess, commit and inspect: looks, `begin`, bind, launch, give up, the conclusion of an inspection |
| `Runner` | `state-recovery-main.ts` and `state-recovery-publish.ts`: input, fences, force-unlock, push, result, failure, death |
| `Broker` | the handlers of those requests: input, a fence per step, the revocation of the key, the result with its own look at State |
| `Others` | the old runner, the customer's own OpenTofu, the cloud, a job made meanwhile, a clearance by hand |

| Run | Instance | What it shows |
| --- | --- | --- |
| `publish` | 2 proposals, 2 reviewers (symmetric), 1 serial step, 1 change of the cloud, see below | a candidate is only written over the State that was reviewed; keys are revoked before State forgets them; *committed* is published; *blocked* has touched nothing; nobody writes beside a later job |

With a second proposal only one request of a reviewer and one of a runner are under
way, and nobody else writes (`OneAtATime`). Two proposals are what a superseded one needs, two reviewers what a race of an
inspection and a commit needs. A looked-at fact is compared on its own, so the looks
of one request are one step; a change between the looks and the transaction is not
left out. What else a job or a clearance requires is in `ApplicationJobs`. The
worker prepares its candidate again before it publishes and refuses if it differs;
that only restricts and is left out. Removing the app of a recovery is `WorkerDies`.
A revocation that the broker has sent may take effect after the proposal is blocked;
`BlockedUntouched` is about State and says so.

## ApplicationUpgrades

One order, and one platform State in the customer's backend that it rests on. Every
SQL function takes the advisory lock of the tenant's platform impact and is one step.

| State variable | Code |
| --- | --- |
| `order`, `candidate` | the order with the policy of its template version; `application_upgrade_candidates`, to which upgrades, withdrawals and refreshed policies are only appended |
| `template`, `contract`, `edge` | published template versions, approved platform contracts, the newest policy of every upgrade path |
| `job`, `made`, `aged`, `worker` | the rows and the runner of each job, as in `ApplicationJobs`, with the candidate a job is bound to and the class of its Plan |
| `approved` | `application_upgrade_approvals` |
| `applied`, `written` | the Apply that succeeded last; the Apply whose work the State of the order is from |
| `platform`, `plan`, `acks` | version of the platform State, its Apply and the guard kept for it; its saved Plan; the acknowledged impacts |

| Actions | Code |
| --- | --- |
| `Place`, `PreparePlan`, `PrepareApply`, `Approve`, `RevokeGrant` | `instantiate`, `prepareJob`, `startApply`, `approve_application_upgrade`, `revokeJobGrant`, with the trigger of `db/080` that binds the job |
| `Work` | dispatch, runner, the ends of lost runners and clearances |
| `Publish` | versions, contracts and paths |
| `Upgrade` | `request_application_upgrade`, `request_application_platform_upgrade`, `withdraw_application_upgrade`, `refresh_application_upgrade_policy`; each is a guard and `Select` |
| `Platform` | `acknowledge_platform_application_impact`, `guard_platform_application_impact`, `guard_platform_application_material`, and the end or loss of the Apply |

An impact is what `platform_application_dependencies` digests: that the order exists,
its binding, its last job and what blocks it. A lost Apply of the platform leaves the
slot taken, because a State in the customer's backend is not reconciled by the broker.
`applied` follows what was reported, `written` what was done: `WithdrawnIsRestored`
compares the withdrawal with the second.

Not modelled here: more than one order or platform, deletion of an order, retired
versions, the hour in which a Plan can be approved, contracts without a platform
State, and the stages of `ApplicationJobs` that only refuse.

| Run | Instance | What it shows |
| --- | --- | --- |
| `upgrades` | 4 jobs, 3 candidates, 3 template versions, 2 contracts, 2 versions of the platform State | inputs reach only workers of the newest candidate; a withdrawal names what State is from; what was written was approved under its own policy; nobody works beside a platform Apply; an admitted platform Apply changes what was acknowledged |

`Histories` is the union of four kinds of behaviours: two jobs and everything that may
happen to them around one candidate, or with Plans that go well between three; four
jobs in turn, of which only Applies are lost, under a policy that wants approvals
(upgrade, lost Apply, clearance, another Plan and Apply); two upgrades to
different versions around two jobs; and the platform's Plans, acknowledgements and
Applies beside an order with two jobs and one upgrade to another contract.

## Findings

* `lock`: the web interface explains `state_locked` as "locked by a running
  execution. Check its status and wait for it to finish" (`app/apps/web/src/locales/en.ts:1738`).
  A plan that is cancelled while it holds the bootstrap State lock leaves
  `lock_run_id` behind (`plans/service.ts:1186`), its runner's unlock is refused, and
  no code clears the lock: there is no execution to wait for.
* `stuck`: `docs/plan-execution.md:472` says that completed platform runners are
  deleted by the next maintenance pass. `maintain()` has no `try` around a row
  (`plans/service.ts:1426`): a runner that Cloud Foundry refuses to delete ends every
  pass at the same, oldest row, and the runners after it stay.
* `stopped`: `docs/plan-execution.md:41` says that the owner can complete a stopped
  Plan that never reported completion. A runner that consumed its ticket and stopped
  before its first stage leaves a dispatch that is *starting* with a consumed ticket:
  `db/068:51` wants a later stage, the runner-start check an unconsumed ticket, and
  the order stays barred.

One more has no run of its own. `docs/plan-execution.md:33-36` says that
"`reconciliation_required` cases are retained". The runner of a job whose *start*
failed is not: `RunnerPool.start()` records the leased app with the job
(`runner-pool.ts:211`) before it assigns the lease (line 219). If the assignment fails
or the process ends there, the `catch` (line 226) or the next `maintain()` (line 260)
retires the lease and `removeWarm` (line 268) deletes the app, while the broker
moves the Apply to `reconciliation_required` (`db/044:86-93`). Nothing has run, but the
clearance asks Cloud Foundry for exactly this app to be stopped and does not find it, so the job
stays held. `HeldRetained` in `RunnerCleanup` states the sentence of the documentation and is
false: with it as an INVARIANT of `guards` and one API process, TLC gives a trace of
11 states that ends in `Reserve`, `Bind`, `Hold` and `GiveUp` (in either order) and `RemoveWarm`.

## What is proved

### PlatformRuns

`PlatformRuns_proofs.tla`, for every number of runs, owners, landing zones and
packages, and every value of the bounds; the assumptions are `SetsAssumption` (the
ids, `Cli` and `NULL` are different) and `BoundsAssumption`.

| Theorem | Property | Inductive invariant |
| --- | --- | --- |
| `TypeCorrect` | `TypeOK` | `TypeOK` |
| `OneWriter` | `SingleWriter` | `TypeOK`, `Linked`, `OneActive`, `Runners` |
| `SnapshotStays` | `SnapshotHeld` | `TypeOK`, `Linked`, `OneActive`, `SnapshotHeld` |
| `AppliedOnce` | `PlanAppliedOnce` | `TypeOK`, `Linked`, `PlanAppliedOnce` |

`SingleWriter` is not inductive: it speaks of runners, and what keeps a second one
away is the database. `OneActive` is what the unique indexes of `db/017` say: one
active run per landing zone, where `recovery_required` counts. `Runners` ties a
runner to its row: one that executes an Apply has a row that is `applying` or
`recovery_required`, and one whose failure was reported has stopped. `Linked` ties
a row to its landing zone and its plan.

The argument runs through one lemma: a step of any of the actions admits one new
run, or moves rows *forward* (an ended run changes only by a receipt) and leaves
their *bound* columns alone (owner, State key, plan, base version). `RowStep` and
`RunStep` prove that once, action by action; `VersionStep`, `ArtifactStep` and
`RunnersStep` do the same for the State version, the plan artifact and the runners.
The preservation of each invariant then follows from these lemmas and from the
guards of admission.

`PlatformAccess_proofs.tla` goes on from there, with the same assumptions: what a step
may do to a State row (`StateMove`) and to the access of a run (`AccessMove`).

| Theorem | Property | What it rests on besides `TypeOK` and `Linked` |
| --- | --- | --- |
| `VersionsBind` | `VersionBindsContent` | `StateMove`, action by action |
| `StateSurvives` | `MigrationKeepsState` | the guards of the two steps that bind the S3 backend |
| `SuccessRecords` | `SuccessRecordsVersion` | `BaseReached`: no run is ahead of its State |
| `RevokedReleasesNothing` | `RevokedNeverReleased` | `Accesses`: a grant is consumed before secrets are released, and only the release gives credentials |
| `NoAccess` | `NoAccessAfterEnd` | `AccessMove`: each handler reads status and expiry in its own transaction |
| `InputCurrent` | `InputStillCurrent` | `AllChecked`: between the third and the fifth transaction of `input()` the State is unlocked, at the run's version and where it was selected, although nothing is locked |
| `ReconciledRest` | `ReconciledAtRest` | `Runners`, and that a stopped runner does nothing any more |

`AllChecked` is what makes the five transactions of `input()` one decision: whoever could
change the State in between needs an admitted run of that landing zone, and `OneActive`
says there is none.

### RunnerPool

`RunnerPool_proofs.tla`, for every number of slots, jobs, containers and API processes and
every size, from `ConstantsAssumption`.

| Theorem | Property | Inductive invariant |
| --- | --- | --- |
| `TypeCorrect` | `TypeOK`, with the CHECKs of `runner_pool_slots` | `TypeOK` |
| `PoolWithinSize` | `WithinSize` | `TypeOK`, `Room`: who holds the advisory lock has counted less than the size |
| `NoOrphan` | `StartedIsLeased` | `Agree` |
| `ExecutionKeepsRunner` | `KeptWhileExecuting` | `Agree`, `Logged` |
| `PoolImplementsOneShot` | `ExecutesOnce` | `Agree`, `Logged` |

`Agree` says what rows, apps, dispatches, passes and removals owe each other: a lease that
is assigned belongs to the dispatch that reserved it (`LeaseHeld`), an app is stopped only
when its row is retired or its job is over (`AppHeld`), a dispatch has at most one lease,
which nobody else gets (`StartHeld`), and what a pass or a removal is about to delete was
given up before (`PassHeld`, `RemoveHeld`). `Logged` ties each execution to its row: a
warm one to a consumed lease, a cold one to a job that was started. The refinement is
then: the initial states are those of `OneShot`, and a step leaves `log` alone or appends
an execution whose job and runner are not in it yet. A claim erases the assignment it
executes, so neither a second container nor a retry finds it again.

### RunnerCleanup

`RunnerCleanup_proofs.tla`, for every set of apps, jobs, leases and API processes, every
page and batch size, from `CleanupAssumption` (apps have different times of creation; an app with the
label of another deployment, or none, may be foreign; ids of jobs and leases differ).

| Theorem | Property | Inductive invariant |
| --- | --- | --- |
| `TypeCorrect` | `TypeOK`: the queue names an app at most once | `TypeOK` |
| `EvidenceStays` | `EvidenceKept` | `Sound` |
| `ForeignStays` | `ForeignKept` | `Sound` |
| `DeletionAtRest` | `DeletedAtRest` | `Sound` |
| `DeletionStaysPending` | `DeletionIsPending` | `Durable` |

`DeletedAtRest` is not inductive, because the DELETE comes many requests after the checks.
`Sound` has what each check leaves behind: from *idling* on the app is at rest, from
*intended* on no job that goes on uses it (`SweepSound`). Three facts keep that true while
everybody else moves: an app that is a day old has no valid lease and nobody who starts it
(`AppSound`), a job that is over is final, and while `start()` goes on its lease is the
job's or has been retired (`StartSound`), so that only the job that reserved a lease can
be assigned it and run (`SlotSound`). The pool deletes without asking the sweep. What it
may take is in `WhatGoes`: an app of its own only of a job that is over, a warm one only when its
lease is *retiring* or the lease of an ended run. `AppKept` is why neither is the app of an open
job that a runner took: the lease of such a job is *consumed* and names it, `maintain()` and the
`catch` retire no consumed lease, and `retire_completed_application_runners` wants the
job to be over (`KeptApp`, `AppKeptKept`). Before the claim there is no such bond, and the
theorem does not claim one.
`ForeignApart` is what the database knows of an app of another deployment, namely nothing,
so the disposition is *orphan* and the label decides. `Durable` adds that the queue is
written before the request and that only an app that is gone leaves it. The proofs about
the queue rest on lemmas on sequences without repetitions (`RotatedQueue`,
`ShorterQueue`, `LongerQueue`). `DeletionIsPending` is not checked by a run.

### ApplicationJobs

`ApplicationJobs_proofs.tla`, for every number of jobs, delegations and upgrades and
every set of purposes, from `BoundsAreNumbers` and `KnownPurposes`. Ten theorems:
`TypeCorrect`, `OneActiveCorrect` and one per property of the run `jobs`. They share
one inductive invariant:

* `TypeOK`, `OneActive`, `OneWorker`, `AppliesNewestPlan`, `PlannedAfterClearance`;
* `Unmade`: nothing has happened to a job that was not made;
* `JobInv` of each job ties status, ticket, claim and records to what its worker
  holds; without it a revoked grant could not be told from one that was claimed;
* `SourceInv`: a worker with inputs, or one that claimed a job that is not over, has
  the current source;
* `ClearInv` and `CheckInv`: a clearance and an inspection under way have seen every
  write of the job that they are about, because its worker has stopped.

`ClearedIsStopped`, which no run checks, is about steps and follows from `CheckInv`
before the step.

### StateRecovery

`StateRecovery_proofs.tla`, for every number of proposals and reviewers and all
bounds, from `BoundsAssumption`. Six theorems: `TypeCorrect` and one per property of
the run `publish`. The invariant is `TypeOK` with `TaskInv`, `OneOpen` (one open
proposal), `WorkerInv`, `CallInv`, `RequestInv` and `PushedInv` (how far a worker, a
request and a reviewer can be while the proposal is in which phase, and which intents
are behind them), `CommittedIsPublished` and `NoWriteBesideJob`. The argument goes
through `Onward`, what no step ever undoes, and lemmas that say which actions change
which variable; each conjunct is then one lemma over the few actions that touch it.
`PublishesOverReviewed` is an action property: while a reviewed State has not been
replaced it is still there, and the push itself compares the serial.

### ApplicationUpgrades

`ApplicationUpgrades_proofs.tla`, for every number of jobs, candidates, versions and
contracts, from `BoundsAreNumbers`. Six theorems: `TypeCorrect` and one per property of
the run `upgrades`, that is all of them. The invariant `IInv` is `TypeOK` with

* `LiveIsBarred`, `LiveIsBound`, `OneBars`, `ClearedWait`, `WorkersAreMade`: a worker
  that may act bars the order and is bound to the newest candidate, and one job bars at
  most. `Select` and `AdmitApply` want an order that nothing blocks, so they meet no
  worker; this gives `BoundToNewest`.
* `AtRest` and `Reviewed`: from admission to the end of a platform Apply the order is as
  in its guard and nothing blocks it; with `LiveIsBarred` this gives `PlatformAlone`
  and `ImpactReviewed`.
* `AppliesFit`, `CandidatesExist`, `WorkingApplies`: the Plan of an Apply is of its
  candidate and approved where needed; candidates never change; this gives
  `WritesApproved`.
* `Ordered`, `Latest`, `StateIsApplied`, `NoJobs`, `PathsPublished`: Applies have their
  Plans in order, so an Apply that was made before the one that succeeded last can not
  be reserved any more, because its Plan is not the newest; so State is from an Apply at
  least as late as the last success, and if none was attempted since, from that one.
  This is what `WithdrawnIsRestored` needs when a withdrawal is selected.

`Effect` says once what the fifteen actions of a job's dispatch and runner have in
common; `MakeKeeps`, `UpgradeKeeps` and `AsideKeeps` do the same for making a job,
selecting a candidate and everything else.

## What is only model-checked

Liveness (`live`, `reclaim`, `sweep`), because TLAPS 1.4 does not reason about
fairness and `ENABLED`, and the three violations. Every invariant, every action property
and the refinement that a passing run checks is also proved. `TLC` remains the check that
the definitions mean what they should: each property is broken by a mutant of the code.

## Not modelled

See `components` in `PROJECT.json`. Sessions and sign-in, memberships, configurations
and credential profiles; the local plan runner (developer-only); the web interface
and the assistant. Inside the modelled parts: the encryption of
tickets and artifacts (a ciphertext is what it stands for), roles and row-level
security (a request that is refused is not made), droplet copying, the
inspection of stopped apps, live output, and pool slots of earlier packages; the
older path of application jobs, in which a platform engineer approves the backend of
each job; the attested review of an `apply_failed` job with output by an engineer
who is not its owner (`db/064:53-62`, `Mode` has the owner's); for upgrades,
`upgrades.ts`, whose reads surround the calls of the SQL functions that are modelled; the
time that Cloud Foundry takes for an app that the pool deletes (`removeNamed` does not wait
for it, the sweep's own deletions are asynchronous); what a recovery candidate contains (its resources and imports); the split
read of lockfile and object. Most lines of the repository that no module maps are
Terraform, React components, texts, generated permissions and the assistant's
knowledge, in which no state changes that two parties share.
