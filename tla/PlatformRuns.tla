--------------------------- MODULE PlatformRuns ---------------------------
(***************************************************************************)
(* Plan and Apply runs of the platform broker: the rows of lzc.plan_runs,  *)
(* their credential grants and saved plan artifacts, the State row they    *)
(* share (lzc.platform_states), the API handlers that work on them         *)
(* (plans/service.ts, plans/execution.ts), the one-shot runner that calls  *)
(* those handlers (worker/runner.ts) and the customer's S3 State object.   *)
(*                                                                         *)
(* One action is one database transaction, one request of the runner, or   *)
(* one step of the environment.  A request may be served while its answer  *)
(* is lost ("ack" is FALSE): the runner then follows its failure path.     *)
(*                                                                         *)
(* Abstractions.  Times are flags: an expiry timestamp is either ahead or  *)
(* passed.  A State document is its writer and its serial, up to           *)
(* migrationStateMatches; an S3 identity is a counter.  Refusals that      *)
(* depend on data outside the model (source repository, credential check,  *)
(* role, manifest) are the steps that abandon a request, or requests that  *)
(* are never made.  The broker runs with PlatformExecution enabled.        *)
(***************************************************************************)
EXTENDS Integers, FiniteSets

CONSTANTS
  Runs,        \* ids of plan_runs
  Owners,      \* users who start runs
  Keys,        \* state keys, one per landing zone
  Droplets,    \* runner packages
  Cli,         \* writer of an S3 State outside the broker
  NULL,
  MaxVersion,  \* bound on platform_states.version
  MaxSerial,   \* bound on the serial of a State document
  MaxEtag      \* bound on the writes of an S3 object

ASSUME SetsAssumption ==
  /\ NULL \notin Runs \cup Owners \cup Keys \cup Droplets
  /\ Cli \notin Runs
  /\ Cli # NULL
  /\ NULL \notin [by : Runs \cup {Cli}, serial : Nat]

ASSUME BoundsAssumption ==
  /\ MaxVersion \in Nat
  /\ MaxSerial \in Nat \ {0}
  /\ MaxEtag \in Nat

VARIABLES
  run,       \* lzc.plan_runs
  grant,     \* lzc.plan_credential_grants
  artifact,  \* lzc.plan_artifacts
  recovery,  \* runs that have a row in lzc.state_recoveries
  receipt,   \* runs that have a row in lzc.platform_reconciliations
  state,     \* lzc.platform_states
  remote,    \* the S3 object behind a State, with its lockfile
  dispatch,  \* progress of the API's dispatch() promise of a run
  input,     \* progress of the API's input() handler of a run
  worker     \* the runner of a run

vars == <<run, grant, artifact, recovery, receipt, state, remote,
          dispatch, input, worker>>

---------------------------------------------------------------------------
(* Values *)

Live == {"starting", "initializing", "validating", "planning", "applying"}
Terminal == {"succeeded", "failed", "cancelled", "recovery_required"}
Active == Live \cup {"recovery_required"}   \* what the unique indexes of 017 cover

NoVersion == -1
Docs == [by : Runs \cup {Cli}, serial : 1..MaxSerial]
Locations == {"bootstrap", "s3"}

RunRow ==
  [status : Live \cup Terminal \cup {"none"}, op : {"plan", "apply"},
   owner : Owners \cup {NULL}, key : Keys \cup {NULL}, plan : Runs \cup {NULL},
   base : Nat, claimed : BOOLEAN, droplet : Droplets \cup {NULL},
   error : {"none", "other", "apply_failed", "state_failed", "timed_out",
            "runner_unavailable", "cancelled"},
   applied : Nat \cup {NoVersion}, cleaned : BOOLEAN, expired : BOOLEAN]

GrantRow == [consumed : BOOLEAN, revoked : BOOLEAN, expired : BOOLEAN]

StateRow ==
  [version : Nat, doc : Docs \cup {NULL}, s3 : BOOLEAN, etag : Nat,
   lock : Runs \cup {NULL}, pending : BOOLEAN, migRun : Runs \cup {NULL},
   migVersion : Nat, migDoc : Docs \cup {NULL}]

RemoteObject ==
  [doc : Docs \cup {NULL}, etag : Nat, lock : Runs \cup {NULL}]

WorkerPc ==
  {"none", "launched", "waiting", "ready", "validated", "running", "locked",
   "finished", "uploaded", "prepared", "copying", "copied", "moved",
   "switched", "salvage", "failing", "done"}

WorkerRow ==
  [pc : WorkerPc, creds : Locations \cup {"none"},
   error : {"none", "other", "apply_failed", "state_failed"}]

TypeOK ==
  /\ run \in [Runs -> RunRow]
  /\ grant \in [Runs -> GrantRow]
  /\ artifact \in [Runs -> {"none", "approvable", "blocked", "expired"}]
  /\ recovery \in SUBSET Runs
  /\ receipt \in SUBSET Runs
  /\ state \in [Keys -> StateRow]
  /\ remote \in [Keys -> RemoteObject]
  /\ dispatch \in [Runs -> {"idle", "pending", "recorded"}]
  /\ input \in [Runs -> {"idle", "claimed", "consumed", "checked", "released"}
                          \cup Locations]
  /\ worker \in [Runs -> WorkerRow]

NoRun ==
  [status |-> "none", op |-> "plan", owner |-> NULL, key |-> NULL, plan |-> NULL,
   base |-> 0, claimed |-> FALSE, droplet |-> NULL, error |-> "none",
   applied |-> NoVersion, cleaned |-> FALSE, expired |-> FALSE]

FreshState ==
  [version |-> 0, doc |-> NULL, s3 |-> FALSE, etag |-> 0, lock |-> NULL,
   pending |-> FALSE, migRun |-> NULL, migVersion |-> 0, migDoc |-> NULL]

\* A landing zone starts without a State, or its preparation names an S3
\* backend registered before (manifest.backend) that already holds one.
Init ==
  /\ run = [r \in Runs |-> NoRun]
  /\ grant = [r \in Runs |-> [consumed |-> FALSE, revoked |-> FALSE, expired |-> FALSE]]
  /\ artifact = [r \in Runs |-> "none"]
  /\ recovery = {}
  /\ receipt = {}
  /\ state \in [Keys -> {FreshState, [FreshState EXCEPT !.s3 = TRUE]}]
  /\ remote = [k \in Keys |->
       IF state[k].s3 THEN [doc |-> [by |-> Cli, serial |-> 1], etag |-> 1, lock |-> NULL]
       ELSE [doc |-> NULL, etag |-> 0, lock |-> NULL]]
  /\ dispatch = [r \in Runs |-> "idle"]
  /\ input = [r \in Runs |-> "idle"]
  /\ worker = [r \in Runs |-> [pc |-> "none", creds |-> "none", error |-> "none"]]

---------------------------------------------------------------------------
(* Helpers *)

K(r) == run[r].key
Finished(r) == run[r].status \in Terminal              \* finished_at is set
InTime(r) == run[r].status \in Live /\ ~run[r].expired  \* resolve_plan_ticket
Saved(p) == artifact[p] \in {"approvable", "blocked"}  \* unexpired artifact row

\* PlatformExecution.current: the S3 object can be read and is not locked, and
\* its identity is the recorded one unless the caller refreshes.
Readable(k) == state[k].s3 => remote[k].lock = NULL /\ remote[k].doc # NULL
Current(k) == Readable(k) /\ (state[k].s3 => remote[k].etag = state[k].etag)
Refreshed_silently(k) == [state[k] EXCEPT !.etag = remote[k].etag]  \* mutant: keeps the version

Refreshed(k) ==
  IF state[k].s3 /\ remote[k].etag # state[k].etag
  THEN [state[k] EXCEPT !.version = @ + 1, !.etag = remote[k].etag]
  ELSE state[k]

\* The runner's errorCode at the point where it stops.
ErrorOf(r) ==
  IF run[r].op = "plan" \/ worker[r].pc \in {"launched", "waiting", "ready", "validated"}
  THEN "other"
  ELSE IF \/ worker[r].pc \in {"running", "locked"}
          \/ worker[r].pc = "finished" /\ worker[r].creds = "s3"
       THEN "apply_failed"
       ELSE "state_failed"

\* The runner's process has ended, and what it held is gone.
Gone == [pc |-> "done", creds |-> "none", error |-> "none"]
Failing(e) == [pc |-> "failing", creds |-> "none", error |-> e]

\* The runner goes on to pc when it receives the answer, else it fails.
Reply(r, ack, pc) ==
  worker' = [worker EXCEPT ![r] =
    CASE ~ack -> Failing(ErrorOf(r))
      [] ack /\ pc = "done" -> Gone
      [] OTHER -> [@ EXCEPT !.pc = pc]]

NoneActive_perOwner(u, k) ==  \* mutant: without execution_one_active_state
  \A o \in Runs : run[o].status \in Active => run[o].owner # u

NoneActive_live(u, k) ==      \* mutant: recovery_required not covered
  \A o \in Runs : run[o].status \in Live => run[o].owner # u /\ run[o].key # k

\* Plans and Applies of one owner, and of one State, exclude each other.
NoneActive(u, k) ==
  \A o \in Runs : run[o].status \in Active => run[o].owner # u /\ run[o].key # k

---------------------------------------------------------------------------
(* Admission: start() and apply() *)

Admit(r, row) ==
  /\ run[r].status = "none"
  /\ run' = [run EXCEPT ![r] = row]
  /\ dispatch' = [dispatch EXCEPT ![r] = "pending"]

Capturable(k) == state[k].lock = NULL /\ Readable(k)

\* Plans.start with PlatformExecution.capture: the State row is created or
\* locked, refused while a run holds its lock, refreshed from S3 and its
\* version becomes the version the plan is bound to.
Start(r, u, k) ==
  /\ NoneActive(u, k)
  /\ Capturable(k)
  /\ Refreshed(k).version <= MaxVersion
  /\ state' = [state EXCEPT ![k] = Refreshed(k)]
  /\ Admit(r, [NoRun EXCEPT !.status = "starting", !.owner = u, !.key = k,
                            !.base = Refreshed(k).version])
  /\ UNCHANGED <<grant, artifact, recovery, receipt, remote, input, worker>>

Approved_again(p) ==  \* mutant: does not ask whether the plan was used
  /\ run[p].op = "plan" /\ run[p].status = "succeeded" /\ artifact[p] = "approvable"
  /\ state[K(p)].lock = NULL /\ Current(K(p)) /\ state[K(p)].version = run[p].base

\* PlatformExecution.approved
Approved(p) ==
  /\ run[p].op = "plan"
  /\ run[p].status = "succeeded"
  /\ artifact[p] = "approvable"
  /\ state[K(p)].lock = NULL
  /\ Current(K(p))
  /\ state[K(p)].version = run[p].base
  /\ \A o \in Runs : run[o].plan # p

Apply(r, p) ==
  /\ Approved(p)
  /\ NoneActive(run[p].owner, K(p))
  /\ Admit(r, [NoRun EXCEPT !.status = "starting", !.op = "apply", !.plan = p,
                            !.owner = run[p].owner, !.key = K(p), !.base = run[p].base])
  /\ UNCHANGED <<grant, artifact, recovery, receipt, state, remote, input, worker>>

---------------------------------------------------------------------------
(* Dispatch *)

\* The saved plan is there, and the runner package d is the one that made it.
PackageFits(r, d) ==
  run[r].op = "apply" => Saved(run[r].plan) /\ run[run[r].plan].droplet = d

\* The record callback: runner_app_id and runner_droplet_id are set once, while
\* the run is live; an Apply needs its artifact and the package that made it.
Record(r, d) ==
  /\ dispatch[r] = "pending"
  /\ InTime(r)
  /\ run[r].droplet = NULL
  /\ PackageFits(r, d)
  /\ run' = [run EXCEPT ![r].droplet = d]
  /\ dispatch' = [dispatch EXCEPT ![r] = "recorded"]
  /\ UNCHANGED <<grant, artifact, recovery, receipt, state, remote, input, worker>>

\* Cloud Foundry starts the task of a recorded app, even if the request that
\* asked for it was answered with an error.
Launch(r) ==
  /\ run[r].droplet # NULL
  /\ ~run[r].cleaned
  /\ worker[r].pc = "none"
  /\ worker' = [worker EXCEPT ![r].pc = "launched"]
  /\ UNCHANGED <<run, grant, artifact, recovery, receipt, state, remote, dispatch, input>>

DispatchReturns(r) ==
  /\ dispatch[r] = "recorded"
  /\ worker[r].pc # "none"
  /\ dispatch' = [dispatch EXCEPT ![r] = "idle"]
  /\ UNCHANGED <<run, grant, artifact, recovery, receipt, state, remote, input, worker>>

Ended_failed(row, error) == [row EXCEPT !.status = "failed", !.error = error]  \* mutant: as in 005

\* How a run ends that did not report: an Apply may have changed something.
Ended(row, error) ==
  [row EXCEPT !.status = IF row.op = "apply" THEN "recovery_required" ELSE "failed",
              !.error = error]

\* The catch of dispatch(): start() or record threw.
DispatchFails(r) ==
  /\ dispatch[r] \in {"pending", "recorded"}
  /\ dispatch' = [dispatch EXCEPT ![r] = "idle"]
  /\ run' = IF run[r].status \in Live
            THEN [run EXCEPT ![r] = Ended(@, "runner_unavailable")]
            ELSE run
  /\ UNCHANGED <<grant, artifact, recovery, receipt, state, remote, input, worker>>

---------------------------------------------------------------------------
(* The five transactions of input() *)

Serving(r) == input[r] \notin {"idle", "released"}

\* The request may arrive after its runner died, and a duplicate of it may.
ClaimInput(r) ==
  /\ worker[r].pc # "none"
  /\ run[r].status = "starting"
  /\ ~run[r].claimed
  /\ ~run[r].expired
  /\ run' = [run EXCEPT ![r] = [@ EXCEPT !.claimed = TRUE, !.status = "initializing"]]
  /\ input' = [input EXCEPT ![r] = "claimed"]
  /\ worker' = [worker EXCEPT ![r].pc = IF @ = "launched" THEN "waiting" ELSE @]
  /\ UNCHANGED <<grant, artifact, recovery, receipt, state, remote, dispatch>>

ConsumeGrant(r) ==
  /\ input[r] = "claimed"
  /\ ~grant[r].expired /\ ~grant[r].revoked /\ ~grant[r].consumed
  /\ run[r].status = "initializing" /\ run[r].claimed /\ ~run[r].expired
  /\ grant' = [grant EXCEPT ![r].consumed = TRUE]
  /\ input' = [input EXCEPT ![r] = "consumed"]
  /\ UNCHANGED <<run, artifact, recovery, receipt, state, remote, dispatch, worker>>

CheckInput(r) ==
  /\ input[r] = "consumed"
  /\ run[r].status = "initializing" /\ ~run[r].expired
  /\ run[r].droplet # NULL
  /\ state[K(r)].lock = NULL
  /\ state[K(r)].version = run[r].base
  /\ Current(K(r))
  /\ PackageFits(r, run[r].droplet)
  /\ input' = [input EXCEPT ![r] = "checked"]
  /\ UNCHANGED <<run, grant, artifact, recovery, receipt, state, remote, dispatch, worker>>

SelectBackend(r) ==
  /\ input[r] = "checked"
  /\ input' = [input EXCEPT ![r] = IF state[K(r)].s3 THEN "s3" ELSE "bootstrap"]
  /\ UNCHANGED <<run, grant, artifact, recovery, receipt, state, remote, dispatch, worker>>

ReleasableInput_grantOnly(r) ==  \* mutant: does not read the run again
  grant[r].consumed /\ ~grant[r].revoked /\ ~grant[r].expired

\* The last check, then the answer with the secrets.
ReleasableInput(r) ==
  /\ grant[r].consumed /\ ~grant[r].revoked /\ ~grant[r].expired
  /\ run[r].claimed /\ run[r].status = "initializing" /\ ~run[r].expired

ReleaseInput(r, ack) ==
  /\ input[r] \in Locations
  /\ ReleasableInput(r)
  /\ input' = [input EXCEPT ![r] = "released"]
  /\ worker' = [worker EXCEPT ![r] =
       CASE @.pc # "waiting" -> @
         [] @.pc = "waiting" /\ ack -> [@ EXCEPT !.pc = "ready", !.creds = input[r]]
         [] OTHER -> Failing("other")]
  /\ UNCHANGED <<run, grant, artifact, recovery, receipt, state, remote, dispatch>>

\* A check of one of the transactions, or of the source, the credential or the
\* role between them, throws.
AbandonInput(r) ==
  /\ Serving(r)
  /\ input' = [input EXCEPT ![r] = "idle"]
  /\ worker' = IF worker[r].pc = "waiting"
               THEN [worker EXCEPT ![r] = Failing("other")] ELSE worker
  /\ UNCHANGED <<run, grant, artifact, recovery, receipt, state, remote, dispatch>>

---------------------------------------------------------------------------
(* Stages and the bootstrap State backend *)

\* Plans.stage, as the runner calls it around its commands.
Stage(r, ack, at, previous, next, pc) ==
  /\ worker[r].pc = at
  /\ run[r].claimed /\ ~run[r].expired
  /\ run[r].status = previous
  /\ run' = [run EXCEPT ![r].status = next]
  /\ Reply(r, ack, pc)
  /\ UNCHANGED <<grant, artifact, recovery, receipt, state, remote, dispatch, input>>

Validate(r, ack) == Stage(r, ack, "ready", "initializing", "validating", "validated")

Execute(r, ack) ==
  Stage(r, ack, "validated", "validating",
        IF run[r].op = "apply" THEN "applying" ELSE "planning", "running")

\* What every call of the bootstrap backend checks first.
StateCall(r) ==
  LET s == state[K(r)] IN
  /\ worker[r].creds = "bootstrap"
  /\ InTime(r)
  /\ run[r].claimed
  /\ ~s.s3
  /\ s.pending => /\ run[r].op = "apply" /\ run[r].status = "applying"
                  /\ s.migRun = r /\ s.migVersion = s.version /\ s.migDoc = s.doc

Snapshot(r) ==
  IF state[K(r)].pending THEN state[K(r)].migVersion ELSE run[r].base

\* "locked" while planning or applying, "copying" while migrating.
LockState(r, ack) ==
  /\ worker[r].pc \in {"running", "prepared"}
  /\ StateCall(r)
  /\ run[r].op = "apply" => Saved(run[r].plan)
  /\ state[K(r)].lock \in {NULL, r}
  /\ state[K(r)].version = Snapshot(r)
  /\ state' = [state EXCEPT ![K(r)].lock = r]
  /\ Reply(r, ack, IF worker[r].pc = "running" THEN "locked" ELSE "copying")
  /\ UNCHANGED <<run, grant, artifact, recovery, receipt, remote, dispatch, input>>

\* The serial and content rules of a State write.
Follows(d, previous) ==
  previous # NULL => d.serial > previous.serial \/ d = previous

Writable(r) ==
  /\ StateCall(r)
  /\ ~state[K(r)].pending
  /\ run[r].op = "apply" /\ run[r].status = "applying"
  /\ state[K(r)].lock = r

Stored(row, d) == [row EXCEPT !.version = @ + 1, !.doc = d]

\* A write whose answer is lost leaves errored.tfstate with the runner.
WriteState(r, ack, d) ==
  /\ worker[r].pc = "locked"
  /\ Writable(r)
  /\ d.by = r
  /\ Follows(d, state[K(r)].doc)
  /\ state[K(r)].version < MaxVersion
  /\ state' = [state EXCEPT ![K(r)] = Stored(@, d)]
  /\ worker' = IF ack THEN worker
               ELSE [worker EXCEPT ![r].pc = "salvage"]
  /\ UNCHANGED <<run, grant, artifact, recovery, receipt, remote, dispatch, input>>

\* OpenTofu unlocks when it ends, also after a command that failed.
AfterUnlock == [locked |-> "finished", copied |-> "moved"]

UnlockState(r, ack) ==
  /\ worker[r].pc \in {"locked", "copied", "salvage"}
  /\ StateCall(r)
  /\ state[K(r)].lock = r
  /\ state' = [state EXCEPT ![K(r)].lock = NULL]
  /\ IF worker[r].pc = "salvage" THEN UNCHANGED worker
     ELSE Reply(r, ack, AfterUnlock[worker[r].pc])
  /\ UNCHANGED <<run, grant, artifact, recovery, receipt, remote, dispatch, input>>

---------------------------------------------------------------------------
(* OpenTofu's own S3 backend: no call of the broker, only the lockfile *)

Overwritten(object, d) == [object EXCEPT !.doc = d, !.etag = @ + 1]

LockRemote(r) ==
  /\ worker[r].pc = "running"
  /\ worker[r].creds = "s3"
  /\ remote[K(r)].lock = NULL
  /\ run[r].op = "apply" => remote[K(r)].etag = state[K(r)].etag  \* else the plan is stale
  /\ remote' = [remote EXCEPT ![K(r)].lock = r]
  /\ worker' = [worker EXCEPT ![r].pc = "locked"]
  /\ UNCHANGED <<run, grant, artifact, recovery, receipt, state, dispatch, input>>

WriteRemote(r, d) ==
  /\ worker[r].pc = "locked"
  /\ worker[r].creds = "s3"
  /\ run[r].op = "apply"
  /\ d.by = r
  /\ d.serial = remote[K(r)].doc.serial + 1
  /\ remote[K(r)].lock = r
  /\ remote[K(r)].etag < MaxEtag
  /\ remote' = [remote EXCEPT ![K(r)] = Overwritten(@, d)]
  /\ UNCHANGED <<run, grant, artifact, recovery, receipt, state, dispatch, input, worker>>

UnlockRemote(r) ==
  /\ worker[r].pc \in {"locked", "salvage"}
  /\ worker[r].creds = "s3"
  /\ remote[K(r)].lock = r
  /\ remote' = [remote EXCEPT ![K(r)].lock = NULL]
  /\ worker' = IF worker[r].pc = "locked" THEN [worker EXCEPT ![r].pc = "finished"]
               ELSE worker
  /\ UNCHANGED <<run, grant, artifact, recovery, receipt, state, dispatch, input>>

\* Somebody with the customer's keys runs OpenTofu outside the broker.
CliWrite(k) ==
  /\ remote[k].doc # NULL
  /\ remote[k].lock = NULL
  /\ remote[k].doc.serial < MaxSerial
  /\ remote[k].etag < MaxEtag
  /\ remote' = [remote EXCEPT ![k] =
       Overwritten(@, [by |-> Cli, serial |-> remote[k].doc.serial + 1])]
  /\ UNCHANGED <<run, grant, artifact, recovery, receipt, state, dispatch, input, worker>>

---------------------------------------------------------------------------
(* Migration of the bootstrap State to S3 *)

PrepareMigration(r, ack) ==
  LET s == state[K(r)] IN
  /\ worker[r].pc = "finished"
  /\ worker[r].creds = "bootstrap"
  /\ run[r].op = "apply" /\ run[r].status = "applying" /\ run[r].claimed /\ ~run[r].expired
  /\ s.lock = NULL /\ ~s.s3 /\ s.doc # NULL
  /\ remote[K(r)].lock = NULL
  /\ remote[K(r)].doc \in {NULL, s.doc}
  /\ s.pending => s.migRun = r /\ s.migVersion = s.version /\ s.migDoc = s.doc
  /\ state' = [state EXCEPT ![K(r)] =
       [@ EXCEPT !.pending = TRUE, !.migRun = r, !.migVersion = s.version, !.migDoc = s.doc]]
  /\ Reply(r, ack, "prepared")
  /\ UNCHANGED <<run, grant, artifact, recovery, receipt, remote, dispatch, input>>

\* tofu init -migrate-state -force-copy
CopyState(r) ==
  /\ worker[r].pc = "copying"
  /\ remote[K(r)].lock = NULL
  /\ remote[K(r)].etag < MaxEtag
  /\ remote' = [remote EXCEPT ![K(r)] = Overwritten(@, state[K(r)].doc)]
  /\ worker' = [worker EXCEPT ![r].pc = "copied"]
  /\ UNCHANGED <<run, grant, artifact, recovery, receipt, state, dispatch, input>>

Migratable_blindly(r) ==  \* mutant: takes the runner's word for the copy
  LET s == state[K(r)] IN
  s.lock = NULL /\ ~s.s3 /\ s.pending /\ s.migRun = r /\ s.migVersion = s.version

\* The State may move: it is the prepared one and the S3 copy equals it.
Migratable(r) ==
  LET s == state[K(r)] IN
  /\ s.lock = NULL /\ ~s.s3 /\ s.pending
  /\ s.migRun = r /\ s.migVersion = s.version /\ s.migDoc = s.doc
  /\ remote[K(r)].lock = NULL /\ remote[K(r)].doc = s.doc

Switched(k) ==
  [state[k] EXCEPT !.s3 = TRUE, !.doc = NULL, !.etag = remote[k].etag, !.version = @ + 1]

CompleteMigration(r, ack) ==
  /\ worker[r].pc = "moved"
  /\ run[r].op = "apply" /\ run[r].status = "applying" /\ run[r].claimed /\ ~run[r].expired
  /\ Migratable(r)
  /\ state[K(r)].version < MaxVersion
  /\ state' = [state EXCEPT ![K(r)] = Switched(K(r))]
  /\ Reply(r, ack, "switched")
  /\ UNCHANGED <<run, grant, artifact, recovery, receipt, remote, dispatch, input>>

---------------------------------------------------------------------------
(* Results *)

\* PlatformExecution.artifact; "approvable" is the verdict of approvableSummary.
SaveArtifact(r, ack, verdict) ==
  /\ worker[r].pc = "finished"
  /\ run[r].op = "plan" /\ run[r].status = "planning" /\ run[r].claimed /\ ~run[r].expired
  /\ run[r].droplet # NULL
  /\ Current(K(r))
  /\ state[K(r)].version = run[r].base
  /\ state[K(r)].lock \in {NULL, r}
  /\ artifact[r] = "none"
  /\ artifact' = [artifact EXCEPT ![r] = verdict]
  /\ Reply(r, ack, "uploaded")
  /\ UNCHANGED <<run, grant, recovery, receipt, state, remote, dispatch, input>>

PlanSucceeds(r, ack) ==
  /\ worker[r].pc = "uploaded"
  /\ run[r].op = "plan" /\ run[r].status = "planning" /\ ~run[r].expired
  /\ Saved(r)
  /\ run' = [run EXCEPT ![r].status = "succeeded"]
  /\ Reply(r, ack, "done")
  /\ UNCHANGED <<grant, artifact, recovery, receipt, state, remote, dispatch, input>>

AppliedVersion_stale(k) == state[k].version  \* mutant: read before the refresh

AppliedVersion(k) == Refreshed(k).version

ApplySucceeds(r, ack) ==
  LET k == K(r) IN
  /\ \/ worker[r].pc = "switched"
     \/ worker[r].pc = "finished" /\ worker[r].creds = "s3"
  /\ run[r].op = "apply" /\ run[r].status = "applying" /\ ~run[r].expired
  /\ state[k].lock = NULL /\ state[k].s3
  /\ Readable(k)
  /\ Refreshed(k).version <= MaxVersion
  /\ state' = [state EXCEPT ![k] = Refreshed(k)]
  /\ run' = [run EXCEPT ![r] = [@ EXCEPT !.status = "succeeded", !.applied = AppliedVersion(k)]]
  /\ Reply(r, ack, "done")
  /\ UNCHANGED <<grant, artifact, recovery, receipt, remote, dispatch, input>>

\* A command, a check or a request of the runner fails.  A failed State write
\* of an Apply leaves errored.tfstate behind.
WorkerFails(r) ==
  /\ worker[r].pc \in WorkerPc \ {"none", "salvage", "failing", "done"}
  /\ \/ \E e \in {ErrorOf(r), "other"} :   \* "other": killed at its deadline
          worker' = [worker EXCEPT ![r] = Failing(e)]
     \/ /\ worker[r].pc = "locked" /\ run[r].op = "apply"
        /\ worker' = [worker EXCEPT ![r].pc = "salvage"]
  /\ UNCHANGED <<run, grant, artifact, recovery, receipt, state, remote, dispatch, input>>

\* Plans.recovery: the broker keeps the State the runner could not write.
SaveRecovery(r) ==
  /\ worker[r].pc = "salvage"
  /\ InTime(r)
  /\ run[r].op = "apply" /\ run[r].status = "applying" /\ run[r].claimed
  /\ recovery' = recovery \cup {r}
  /\ worker' = [worker EXCEPT ![r] = Failing("state_failed")]
  /\ UNCHANGED <<run, grant, artifact, receipt, state, remote, dispatch, input>>

RecoveryLost(r) ==
  /\ worker[r].pc = "salvage"
  /\ worker' = [worker EXCEPT ![r] = Failing("state_failed")]
  /\ UNCHANGED <<run, grant, artifact, recovery, receipt, state, remote, dispatch, input>>

\* result {status: failed}: refused once the ticket no longer resolves; the
\* runner reports at most once and ends either way.
ReportFailure(r) ==
  /\ worker[r].pc = "failing"
  /\ run' = IF InTime(r) THEN [run EXCEPT ![r] = Ended(@, worker[r].error)] ELSE run
  /\ worker' = [worker EXCEPT ![r] = Gone]
  /\ UNCHANGED <<grant, artifact, recovery, receipt, state, remote, dispatch, input>>

WorkerDies(r) ==
  /\ worker[r].pc \notin {"none", "done"}
  /\ worker' = [worker EXCEPT ![r] = Gone]
  /\ UNCHANGED <<run, grant, artifact, recovery, receipt, state, remote, dispatch, input>>

---------------------------------------------------------------------------
(* The owner, time and maintenance *)

Cancel(r) ==
  /\ run[r].op = "plan" /\ run[r].status \in Live
  /\ run' = [run EXCEPT ![r] = [@ EXCEPT !.status = "cancelled", !.error = "cancelled"]]
  /\ grant' = IF grant[r].consumed THEN grant ELSE [grant EXCEPT ![r].revoked = TRUE]
  /\ UNCHANGED <<artifact, recovery, receipt, state, remote, dispatch, input, worker>>

RevokeGrant_anytime(r) ==  \* mutant: does not read consumed_at
  /\ run[r].status # "none"
  /\ grant' = [grant EXCEPT ![r].revoked = TRUE]
  /\ UNCHANGED <<run, artifact, recovery, receipt, state, remote, dispatch, input, worker>>

RevokeGrant(r) ==
  /\ run[r].status # "none"
  /\ ~grant[r].consumed
  /\ grant' = [grant EXCEPT ![r].revoked = TRUE]
  /\ UNCHANGED <<run, artifact, recovery, receipt, state, remote, dispatch, input, worker>>

Reconcilable_anyError(r, error) ==  \* mutant: takes any unconfirmed Apply
  LET s == state[K(r)] IN
  /\ r \notin receipt /\ run[r].op = "apply" /\ run[r].status = "recovery_required"
  /\ run[r].claimed /\ ~s.s3 /\ s.lock = NULL /\ s.doc # NULL /\ r \notin recovery

Reconcilable(r, error) ==
  LET s == state[K(r)] IN
  /\ r \notin receipt
  /\ run[r].op = "apply" /\ run[r].status = "recovery_required"
  /\ run[r].error = error /\ run[r].claimed
  /\ ~s.s3 /\ s.lock = NULL /\ s.doc # NULL
  /\ r \notin recovery

\* reconcile {confirmRetainState}
RetainState(r) ==
  /\ Reconcilable(r, "apply_failed")
  /\ ~state[K(r)].pending
  /\ receipt' = receipt \cup {r}
  /\ run' = [run EXCEPT ![r].status = "failed"]
  /\ UNCHANGED <<grant, artifact, recovery, state, remote, dispatch, input, worker>>

\* reconcile {confirmCompleteMigration}
ConfirmMigration(r) ==
  /\ Reconcilable(r, "state_failed")
  /\ Migratable(r)
  /\ state[K(r)].version < MaxVersion
  /\ state' = [state EXCEPT ![K(r)] = Switched(K(r))]
  /\ receipt' = receipt \cup {r}
  /\ run' = [run EXCEPT ![r] =
       [@ EXCEPT !.status = "succeeded", !.error = "none", !.applied = Switched(K(r)).version]]
  /\ UNCHANGED <<grant, artifact, recovery, remote, dispatch, input, worker>>

\* 25 minutes; the grant ends with the run, or earlier with its session.
RunTimesOut(r) ==
  /\ run[r].status # "none" /\ ~run[r].expired
  /\ run' = [run EXCEPT ![r].expired = TRUE]
  /\ grant' = [grant EXCEPT ![r].expired = TRUE]
  /\ UNCHANGED <<artifact, recovery, receipt, state, remote, dispatch, input, worker>>

\* Nothing reads the grant once the input was released.
SessionEnds(r) ==
  /\ run[r].status \in {"starting", "initializing"} /\ ~grant[r].expired
  /\ grant' = [grant EXCEPT ![r].expired = TRUE]
  /\ UNCHANGED <<run, artifact, recovery, receipt, state, remote, dispatch, input, worker>>

\* 30 minutes from its upload, hence after the 25 minutes of its run.
ArtifactExpires(r) ==
  /\ Saved(r) /\ run[r].expired
  /\ artifact' = [artifact EXCEPT ![r] = "expired"]
  /\ UNCHANGED <<run, grant, recovery, receipt, state, remote, dispatch, input, worker>>

Overdue_starting(r) ==                                       \* mutant: misses undispatched runs
  run[r].status \in Live \ {"starting"} /\ run[r].expired

Overdue(r) == run[r].status \in Live /\ run[r].expired

ExpireRuns ==
  /\ \E r \in Runs : Overdue(r)
  /\ run' = [r \in Runs |-> IF Overdue(r) THEN Ended(run[r], "timed_out") ELSE run[r]]
  /\ UNCHANGED <<grant, artifact, recovery, receipt, state, remote, dispatch, input, worker>>

Cleanable_recorded(r) ==  \* mutant: waits for an app that was never recorded
  Finished(r) /\ ~run[r].cleaned /\ run[r].status # "recovery_required" /\ run[r].droplet # NULL

Cleanable(r) ==
  /\ Finished(r) /\ ~run[r].cleaned
  /\ run[r].status # "recovery_required"
  /\ run[r].droplet # NULL \/ run[r].expired

\* Deleting the app stops its task; then mark_plan_cleaned.
Clean(r) ==
  /\ Cleanable(r)
  /\ run' = [run EXCEPT ![r].cleaned = TRUE]
  /\ worker' = IF worker[r].pc = "none" THEN worker
               ELSE [worker EXCEPT ![r] = Gone]
  /\ UNCHANGED <<grant, artifact, recovery, receipt, state, remote, dispatch, input>>

\* The API process stops: its promises and handlers are gone, the rows stay.
ApiRestarts ==
  /\ \E r \in Runs : dispatch[r] # "idle" \/ Serving(r)
  /\ dispatch' = [r \in Runs |-> "idle"]
  /\ input' = [r \in Runs |-> IF Serving(r) THEN "idle" ELSE input[r]]
  /\ worker' = [r \in Runs |->
       IF worker[r].pc = "waiting"
       THEN Failing("other") ELSE worker[r]]
  /\ UNCHANGED <<run, grant, artifact, recovery, receipt, state, remote>>

---------------------------------------------------------------------------
Admission(r) ==
  \/ \E u \in Owners, k \in Keys : Start(r, u, k)
  \/ \E p \in Runs : Apply(r, p)

Dispatching(r) ==
  \/ \E d \in Droplets : Record(r, d)
  \/ Launch(r)
  \/ DispatchReturns(r)
  \/ DispatchFails(r)

Input(r) ==
  \/ ClaimInput(r)
  \/ ConsumeGrant(r)
  \/ CheckInput(r)
  \/ SelectBackend(r)
  \/ \E ack \in BOOLEAN : ReleaseInput(r, ack)
  \/ AbandonInput(r)

Execution(r) ==
  \/ \E ack \in BOOLEAN :
       \/ Validate(r, ack)
       \/ Execute(r, ack)
       \/ LockState(r, ack)
       \/ \E d \in Docs : WriteState(r, ack, d)
       \/ UnlockState(r, ack)
       \/ PrepareMigration(r, ack)
       \/ CompleteMigration(r, ack)
       \/ \E verdict \in {"approvable", "blocked"} : SaveArtifact(r, ack, verdict)
       \/ PlanSucceeds(r, ack)
       \/ ApplySucceeds(r, ack)
  \/ LockRemote(r)
  \/ \E d \in Docs : WriteRemote(r, d)
  \/ UnlockRemote(r)
  \/ CopyState(r)

Failure(r) ==
  \/ WorkerFails(r)
  \/ SaveRecovery(r)
  \/ RecoveryLost(r)
  \/ ReportFailure(r)
  \/ WorkerDies(r)

Owner(r) ==
  \/ Cancel(r)
  \/ RevokeGrant(r)
  \/ RetainState(r)
  \/ ConfirmMigration(r)

Time(r) ==
  \/ RunTimesOut(r)
  \/ SessionEnds(r)
  \/ ArtifactExpires(r)

Next ==
  \/ \E r \in Runs : \/ Admission(r) \/ Dispatching(r) \/ Input(r) \/ Execution(r)
                     \/ Failure(r) \/ Owner(r) \/ Time(r) \/ Clean(r)
  \/ \E k \in Keys : CliWrite(k)
  \/ ExpireRuns
  \/ ApiRestarts

Spec == Init /\ [][Next]_vars

\* The maintenance timer calls Plans.maintain every 30 s, and time passes.
FairSpec ==
  /\ Spec
  /\ WF_vars(ExpireRuns)
  /\ \A r \in Runs : WF_vars(RunTimesOut(r)) /\ WF_vars(Clean(r))

---------------------------------------------------------------------------
(* Safety *)

\* The runner of r may be changing infrastructure, or its State.
Executing(r) ==
  /\ run[r].op = "apply"
  /\ worker[r].pc \in {"running", "locked", "finished", "prepared", "copying", "copied",
                       "moved", "switched", "salvage"}

\* While the runner of an Apply may still change a landing zone, no other run of
\* that landing zone is admitted or executes, even when the broker has given up
\* on the Apply: the partial unique indexes cover recovery_required.
SingleWriter ==
  \A r, o \in Runs :
    r # o /\ Executing(r) /\ run[o].key = K(r) => run[o].status \notin Live /\ ~Executing(o)

\* What the third transaction of input() checked still holds when the fifth
\* releases the secrets: State version, lock and backend are those of the plan;
\* and an Apply runs in the package that made its plan, whatever is deployed by then.
InputStillCurrent ==
  \A r \in Runs :
    input[r] \in {"checked"} \cup Locations /\ ReleasableInput(r) =>
      /\ state[K(r)].lock = NULL
      /\ state[K(r)].version = run[r].base
      /\ input[r] \in Locations => (input[r] = "s3") = state[K(r)].s3
      /\ run[r].op = "apply" => run[r].droplet = run[run[r].plan].droplet

\* Until it applies, a live run finds the State at the version it is bound to.
SnapshotHeld ==
  \A r \in Runs :
    run[r].status \in Live \ {"applying"} => state[K(r)].version = run[r].base

\* A revoked grant released no secrets, and one that did can not be revoked.
RevokedNeverReleased ==
  \A r \in Runs :
    grant[r].revoked => ~grant[r].consumed /\ input[r] # "released" /\ worker[r].creds = "none"

\* A plan is applied at most once, as it was approved: complete, successful, by
\* its owner and at the State version it was made for.
PlanAppliedOnce ==
  \A r \in Runs : run[r].op = "apply" =>
    LET p == run[r].plan IN
    /\ run[p].op = "plan" /\ run[p].status = "succeeded"
    /\ artifact[p] \in {"approvable", "expired"}
    /\ run[r].key = K(p) /\ run[r].owner = run[p].owner /\ run[r].base = run[p].base
    /\ \A o \in Runs : run[o].plan = p => o = r

\* Reconciliation settles an Apply only when its runner has stopped, its lock is
\* released and no State it failed to write waits to be recovered.
ReconciledAtRest ==
  \A r \in receipt :
    /\ worker[r].pc = "done"
    /\ r \notin recovery
    /\ run[r].status \in {"failed", "succeeded"}
    /\ state[K(r)].lock # r

\* Deployments.tsx explains state_locked as a lock of a running execution.
LockHeldByRunningExecution ==
  \A k \in Keys : state[k].lock # NULL => run[state[k].lock].status \in Live

---------------------------------------------------------------------------
(* What no step does *)

\* Equal versions mean the same State: content, location or remote identity
\* never change without a new version, and versions do not come back.
VersionBindsContent ==
  [][\A k \in Keys :
       /\ state'[k].version >= state[k].version
       /\ state'[k].version = state[k].version =>
            state'[k].doc = state[k].doc /\ state'[k].s3 = state[k].s3
            /\ state'[k].etag = state[k].etag]_vars

\* The bootstrap State is dropped only in the step that binds the backend where
\* an unlocked copy of it was found.
MigrationKeepsState ==
  [][\A k \in Keys : state[k].doc # NULL /\ state'[k].doc = NULL =>
       /\ state'[k].s3
       /\ remote[k].doc = state[k].doc
       /\ remote[k].lock = NULL
       /\ state'[k].etag = remote[k].etag]_vars

\* An Apply succeeds only with its State unlocked in the customer's backend, and
\* records the version that State then has: outputs() compares the two.
SuccessRecordsVersion ==
  [][\A r \in Runs : run[r].op = "apply" /\ run[r].status # "succeeded"
                     /\ run'[r].status = "succeeded" =>
       /\ state'[K(r)].s3 /\ state'[K(r)].lock = NULL
       /\ run'[r].applied = state'[K(r)].version
       /\ run[r].base <= run'[r].applied]_vars

\* "Cancellation immediately revokes broker access": the runner of a run that
\* ended or timed out gets no secrets and takes no lock, and no plan, State or
\* recovery evidence of it is stored any more.
NoAccessAfterEnd ==
  [][\A r \in Runs :
       \/ input[r] # "released" /\ input'[r] = "released"
       \/ r \in recovery' \ recovery
       \/ artifact[r] = "none" /\ artifact'[r] # "none"
       \/ \E k \in Keys : state[k].lock # r /\ state'[k].lock = r
       \/ \E k \in Keys : /\ state'[k].doc \notin {NULL, state[k].doc}
                          /\ state'[k].doc.by = r
       => run[r].status \in Live /\ ~run[r].expired]_vars

---------------------------------------------------------------------------
(* Liveness *)

\* Every run ends: the runner, its owner or the deadline ends it.
RunsEnd == \A r \in Runs : run[r].status \in Live ~> Finished(r)

\* The container of a run that is settled is deleted.
RunsCleaned ==
  \A r \in Runs : Finished(r) /\ run[r].status # "recovery_required" ~> run[r].cleaned
===========================================================================
