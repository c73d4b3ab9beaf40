----------------------- MODULE PlatformAccess_proofs -----------------------
(* Theorems about PlatformRuns, for every value of its constants: what a   *)
(* step may do to a State row, who gets access to secrets and State, and   *)
(* what a receipt rests on.                                                *)
EXTENDS PlatformRuns_proofs

---------------------------------------------------------------------------
(* What a step does to a State row *)

SameContent(k) ==
  /\ state'[k].version = state[k].version /\ state'[k].doc = state[k].doc
  /\ state'[k].s3 = state[k].s3 /\ state'[k].etag = state[k].etag

\* A run takes, keeps or gives up the lock of its State, or prepares its migration.
Relocked(r, k) ==
  /\ K(r) = k /\ SameContent(k)
  /\ state'[k].lock \in {NULL, r, state[k].lock}
  /\ state'[k].lock # state[k].lock /\ state'[k].lock = r =>
       /\ InTime(r) /\ worker[r].creds = "bootstrap"
       /\ worker[r].pc \in {"running", "prepared"}

Written(r, k) ==
  /\ K(r) = k /\ InTime(r)
  /\ \E d \in Docs : d.by = r /\ state'[k] = Stored(state[k], d)

Moved(r, k) == K(r) = k /\ Migratable(r) /\ state'[k] = Switched(k)

StateMove(k) ==
  \/ state'[k] = state[k]
  \/ state'[k] = Refreshed(k)
  \/ \E r \in Runs : Relocked(r, k) \/ Written(r, k) \/ Moved(r, k)

LEMMA ExecutionState ==
  ASSUME TypeOK, NEW r \in Runs, Execution(r), NEW k \in Keys
  PROVE  StateMove(k)
<1>1. state \in [Keys -> StateRow] /\ state[k] \in StateRow
  BY DEF TypeOK
<1>2. ASSUME NEW ack \in BOOLEAN, LockState(r, ack) PROVE StateMove(k)
  <2>1. CASE K(r) = k
    <3>1. state'[k] = [state[k] EXCEPT !.lock = r]
      BY <1>1, <1>2, <2>1 DEF LockState
    <3>2. SameContent(k) /\ state'[k].lock = r
      BY <1>1, <3>1 DEF StateRow, SameContent
    <3>3. Relocked(r, k)
      BY <1>2, <2>1, <3>2 DEF Relocked, LockState, StateCall
    <3>4. QED
      BY <3>3 DEF StateMove
  <2>2. QED
    BY <1>1, <1>2, <2>1 DEF LockState, StateMove
<1>3. ASSUME NEW ack \in BOOLEAN, NEW d \in Docs, WriteState(r, ack, d) PROVE StateMove(k)
  <2>1. CASE K(r) = k
    <3>1. state'[k] = Stored(state[k], d)
      BY <1>1, <1>3, <2>1 DEF WriteState
    <3>2. Written(r, k)
      BY <1>3, <2>1, <3>1 DEF Written, WriteState, Writable, StateCall
    <3>3. QED
      BY <3>2 DEF StateMove
  <2>2. QED
    BY <1>1, <1>3, <2>1 DEF WriteState, StateMove
<1>4. ASSUME NEW ack \in BOOLEAN, UnlockState(r, ack) PROVE StateMove(k)
  <2>1. CASE K(r) = k
    <3>1. state'[k] = [state[k] EXCEPT !.lock = NULL]
      BY <1>1, <1>4, <2>1 DEF UnlockState
    <3>2. SameContent(k) /\ state'[k].lock = NULL
      BY <1>1, <3>1 DEF StateRow, SameContent
    <3>3. Relocked(r, k)
      BY <2>1, <3>2, SetsAssumption DEF Relocked
    <3>4. QED
      BY <3>3 DEF StateMove
  <2>2. QED
    BY <1>1, <1>4, <2>1 DEF UnlockState, StateMove
<1>5. ASSUME NEW ack \in BOOLEAN, PrepareMigration(r, ack) PROVE StateMove(k)
  <2>1. CASE K(r) = k
    <3>1. state'[k] = [state[k] EXCEPT !.pending = TRUE, !.migRun = r,
                         !.migVersion = state[k].version, !.migDoc = state[k].doc]
      BY <1>1, <1>5, <2>1 DEF PrepareMigration
    <3>2. SameContent(k) /\ state'[k].lock = state[k].lock
      BY <1>1, <3>1 DEF StateRow, SameContent
    <3>3. Relocked(r, k)
      BY <2>1, <3>2 DEF Relocked
    <3>4. QED
      BY <3>3 DEF StateMove
  <2>2. QED
    BY <1>1, <1>5, <2>1 DEF PrepareMigration, StateMove
<1>6. ASSUME NEW ack \in BOOLEAN, CompleteMigration(r, ack) PROVE StateMove(k)
  <2>1. CASE K(r) = k
    BY <1>1, <1>6, <2>1 DEF CompleteMigration, Moved, StateMove
  <2>2. QED
    BY <1>1, <1>6, <2>1 DEF CompleteMigration, StateMove
<1>7. ASSUME NEW ack \in BOOLEAN, ApplySucceeds(r, ack) PROVE StateMove(k)
  BY <1>1, <1>7 DEF ApplySucceeds, StateMove
<1>8. CASE UNCHANGED state
  BY <1>8 DEF StateMove
<1>9. QED
  BY <1>2, <1>3, <1>4, <1>5, <1>6, <1>7, <1>8
  DEF Execution, Validate, Execute, Stage, SaveArtifact, PlanSucceeds, LockRemote,
      WriteRemote, UnlockRemote, CopyState

LEMMA StateStep ==
  ASSUME TypeOK, [Next]_vars
  PROVE  \A k \in Keys : StateMove(k)
<1> SUFFICES ASSUME NEW k \in Keys PROVE StateMove(k)
  OBVIOUS
<1>1. state \in [Keys -> StateRow] /\ state[k] \in StateRow
  BY DEF TypeOK
<1>2. CASE UNCHANGED state
  BY <1>2 DEF StateMove
<1>3. ASSUME NEW r \in Runs, NEW u \in Owners, NEW l \in Keys, Start(r, u, l)
      PROVE  StateMove(k)
  BY <1>1, <1>3 DEF Start, StateMove
<1>4. ASSUME NEW r \in Runs, ConfirmMigration(r)
      PROVE  StateMove(k)
  <2>1. CASE K(r) = k
    BY <1>1, <1>4, <2>1 DEF ConfirmMigration, Moved, StateMove
  <2>2. QED
    BY <1>1, <1>4, <2>1 DEF ConfirmMigration, StateMove
<1>5. ASSUME NEW r \in Runs, \/ Admission(r) \/ Dispatching(r) \/ Input(r) \/ Execution(r)
                             \/ Failure(r) \/ Owner(r) \/ Time(r) \/ Clean(r)
      PROVE  StateMove(k)
  BY <1>2, <1>3, <1>4, <1>5, ExecutionState
  DEF Admission, Apply, Dispatching, Record, Launch, DispatchReturns, DispatchFails, Input,
      ClaimInput, ConsumeGrant, CheckInput, SelectBackend, ReleaseInput, AbandonInput,
      Failure, WorkerFails, SaveRecovery, RecoveryLost, ReportFailure, WorkerDies, Owner,
      Cancel, RevokeGrant, RetainState, Time, RunTimesOut, SessionEnds, ArtifactExpires, Clean
<1>6. ASSUME ExpireRuns \/ ApiRestarts \/ \E l \in Keys : CliWrite(l)
      PROVE  StateMove(k)
  BY <1>2, <1>6 DEF ExpireRuns, ApiRestarts, CliWrite
<1>7. QED
  BY <1>2, <1>5, <1>6 DEF Next, vars

LEMMA RefreshedContent ==
  ASSUME TypeOK, NEW k \in Keys
  PROVE  /\ Refreshed(k).doc = state[k].doc /\ Refreshed(k).s3 = state[k].s3
         /\ Refreshed(k).lock = state[k].lock
         /\ \/ Refreshed(k) = state[k]
            \/ Refreshed(k).version = state[k].version + 1
<1>1. state[k] \in StateRow
  BY DEF TypeOK
<1>2. QED
  BY <1>1 DEF Refreshed, StateRow

LEMMA SwitchedContent ==
  ASSUME TypeOK, NEW k \in Keys
  PROVE  /\ Switched(k).version = state[k].version + 1 /\ Switched(k).doc = NULL
         /\ Switched(k).s3 /\ Switched(k).etag = remote[k].etag
         /\ Switched(k).lock = state[k].lock
<1>1. state[k] \in StateRow
  BY DEF TypeOK
<1>2. QED
  BY <1>1 DEF Switched, StateRow

LEMMA StoredContent ==
  ASSUME NEW row \in StateRow, NEW d \in Docs
  PROVE  /\ Stored(row, d).version = row.version + 1 /\ Stored(row, d).doc = d
         /\ Stored(row, d).s3 = row.s3 /\ Stored(row, d).etag = row.etag
         /\ Stored(row, d).lock = row.lock
BY DEF Stored, StateRow

LEMMA NoDoc == NULL \notin Docs
<1>1. \A d \in Docs : d \in [by : Runs \cup {Cli}, serial : Nat]
  BY BoundsAssumption DEF Docs
<1>2. QED
  BY <1>1, SetsAssumption

---------------------------------------------------------------------------
(* Versions *)

VersionBinds(k) ==
  /\ state'[k].version >= state[k].version
  /\ state'[k].version = state[k].version =>
       state'[k].doc = state[k].doc /\ state'[k].s3 = state[k].s3
       /\ state'[k].etag = state[k].etag

LEMMA VersionBindsStep ==
  ASSUME TypeOK, [Next]_vars
  PROVE  \A k \in Keys : VersionBinds(k)
<1> SUFFICES ASSUME NEW k \in Keys PROVE VersionBinds(k)
  OBVIOUS
<1> USE DEF VersionBinds
<1>1. state[k] \in StateRow /\ state[k].version \in Nat
  BY DEF TypeOK, StateRow
<1>2. CASE state'[k] = state[k]
  BY <1>1, <1>2
<1>3. CASE state'[k] = Refreshed(k)
  BY <1>1, <1>3, RefreshedContent
<1>4. ASSUME NEW r \in Runs, Relocked(r, k) \/ Written(r, k) \/ Moved(r, k)
      PROVE  VersionBinds(k)
  <2>1. CASE Relocked(r, k)
    BY <1>1, <2>1 DEF Relocked, SameContent
  <2>2. CASE Written(r, k)
    BY <1>1, <2>2, StoredContent DEF Written
  <2>3. CASE Moved(r, k)
    BY <1>1, <2>3, SwitchedContent DEF Moved
  <2>4. QED
    BY <1>4, <2>1, <2>2, <2>3
<1>5. QED
  BY <1>2, <1>3, <1>4, StateStep DEF StateMove

\* Equal versions of a platform_states row mean the same State: no capture, State
\* call, migration or reconciliation changes its document, its location or the
\* identity of its S3 object without a new version, and no version comes back.
THEOREM VersionsBind == Spec => VersionBindsContent
<1>1. TypeOK /\ [Next]_vars => [\A k \in Keys :
         /\ state'[k].version >= state[k].version
         /\ state'[k].version = state[k].version =>
              state'[k].doc = state[k].doc /\ state'[k].s3 = state[k].s3
              /\ state'[k].etag = state[k].etag]_vars
  BY VersionBindsStep DEF VersionBinds
<1>2. QED
  BY <1>1, TypeCorrect, PTL DEF Spec, VersionBindsContent

\* The bootstrap State is dropped only in the step that binds the S3 backend, and
\* there the broker found it unlocked and unchanged: complete-migration, and the
\* reconciliation of a migration whose runner was lost.
THEOREM StateSurvives == Spec => MigrationKeepsState
<1>1. ASSUME TypeOK, [Next]_vars, NEW k \in Keys, state[k].doc # NULL, state'[k].doc = NULL
      PROVE  /\ state'[k].s3
             /\ remote[k].doc = state[k].doc
             /\ remote[k].lock = NULL
             /\ state'[k].etag = remote[k].etag
  <2>1. state[k] \in StateRow /\ NULL \notin Docs
    BY <1>1, NoDoc DEF TypeOK
  <2>2. state'[k] # state[k] /\ state'[k] # Refreshed(k)
    BY <1>1, RefreshedContent
  <2>3. PICK r \in Runs : Relocked(r, k) \/ Written(r, k) \/ Moved(r, k)
    BY <1>1, <2>2, StateStep DEF StateMove
  <2>4. ~Relocked(r, k)
    BY <1>1 DEF Relocked, SameContent
  <2>5. ~Written(r, k)
    BY <1>1, <2>1, StoredContent DEF Written
  <2>6. Moved(r, k)
    BY <2>3, <2>4, <2>5
  <2>7. QED
    BY <1>1, <2>6, SwitchedContent DEF Moved, Migratable
<1>2. TypeOK /\ [Next]_vars => [\A k \in Keys : state[k].doc # NULL /\ state'[k].doc = NULL =>
         /\ state'[k].s3
         /\ remote[k].doc = state[k].doc
         /\ remote[k].lock = NULL
         /\ state'[k].etag = remote[k].etag]_vars
  BY <1>1
<1>3. QED
  BY <1>2, TypeCorrect, PTL DEF Spec, MigrationKeepsState

---------------------------------------------------------------------------
(* Success *)

LEMMA SuccessSteps ==
  ASSUME TypeOK, Linked, [Next]_vars
  PROVE  \A x \in Runs :
           run[x].op = "apply" /\ run[x].status # "succeeded" /\ run'[x].status = "succeeded" =>
             ConfirmMigration(x) \/ \E ack \in BOOLEAN : ApplySucceeds(x, ack)
<1> SUFFICES ASSUME NEW x \in Runs, run[x].op = "apply", run[x].status # "succeeded",
                    run'[x].status = "succeeded"
             PROVE  ConfirmMigration(x) \/ \E ack \in BOOLEAN : ApplySucceeds(x, ack)
  OBVIOUS
<1>1. run \in [Runs -> RunRow] /\ run[x] \in RunRow
  BY DEF TypeOK
<1>2. run' # run
  OBVIOUS
<1>3. ASSUME NEW r \in Runs, Admission(r) PROVE FALSE
  BY <1>3, AdmitStep DEF Admitted
<1>4. ASSUME NEW r \in Runs, Dispatching(r) PROVE FALSE
  <2>1. ASSUME NEW d \in Droplets, Record(r, d) PROVE FALSE
    BY <1>1, <2>1 DEF Record, RunRow
  <2>2. CASE DispatchFails(r)
    <3>1. x = r /\ run[r].status \in Live /\ run'[r] = Ended(run[r], "runner_unavailable")
      BY <1>1, <2>2 DEF DispatchFails
    <3>2. run'[r].status = "recovery_required"
      BY <1>1, <3>1 DEF Ended, RunRow
    <3>3. QED
      BY <3>1, <3>2
  <2>3. QED
    BY <1>2, <1>4, <2>1, <2>2 DEF Dispatching, Launch, DispatchReturns
<1>5. ASSUME NEW r \in Runs, Input(r) PROVE FALSE
  <2>1. CASE ClaimInput(r)
    <3>1. run' = [run EXCEPT ![r] = [run[r] EXCEPT !.claimed = TRUE, !.status = "initializing"]]
      BY <2>1 DEF ClaimInput
    <3>2. QED
      BY <1>1, <3>1 DEF RunRow
  <2>2. QED
    BY <1>2, <1>5, <2>1
    DEF Input, ConsumeGrant, CheckInput, SelectBackend, ReleaseInput, AbandonInput
<1>6. ASSUME NEW r \in Runs, Execution(r)
      PROVE  \E ack \in BOOLEAN : ApplySucceeds(x, ack)
  <2>1. ASSUME NEW ack \in BOOLEAN, Validate(r, ack) PROVE FALSE
    BY <1>1, <2>1 DEF Validate, Stage, RunRow
  <2>2. ASSUME NEW ack \in BOOLEAN, Execute(r, ack) PROVE FALSE
    <3>1. PICK next \in Live : next = IF run[r].op = "apply" THEN "applying" ELSE "planning"
      BY DEF Live
    <3>2. run' = [run EXCEPT ![r].status = next]
      BY <2>2, <3>1 DEF Execute, Stage
    <3>3. QED
      BY <1>1, <3>1, <3>2 DEF Live, RunRow
  <2>3. ASSUME NEW ack \in BOOLEAN, PlanSucceeds(r, ack) PROVE FALSE
    BY <1>1, <2>3 DEF PlanSucceeds
  <2>4. ASSUME NEW ack \in BOOLEAN, ApplySucceeds(r, ack) PROVE x = r
    BY <1>1, <2>4 DEF ApplySucceeds
  <2>5. QED
    BY <1>2, <1>6, <2>1, <2>2, <2>3, <2>4
    DEF Execution, LockState, WriteState, UnlockState, PrepareMigration, CompleteMigration,
        SaveArtifact, LockRemote, WriteRemote, UnlockRemote, CopyState
<1>7. ASSUME NEW r \in Runs, Failure(r) PROVE FALSE
  <2>1. CASE ReportFailure(r)
    <3>1. x = r /\ run'[r] = Ended(run[r], worker[r].error)
      BY <1>1, <2>1 DEF ReportFailure
    <3>2. run'[r].status = "recovery_required"
      BY <1>1, <3>1 DEF Ended, RunRow
    <3>3. QED
      BY <3>1, <3>2
  <2>2. QED
    BY <1>2, <1>7, <2>1 DEF Failure, WorkerFails, SaveRecovery, RecoveryLost, WorkerDies
<1>8. ASSUME NEW r \in Runs, Owner(r) PROVE ConfirmMigration(x)
  <2>1. CASE Cancel(r) \/ RetainState(r)
    BY <1>1, <2>1 DEF Cancel, RetainState, RunRow
  <2>2. CASE ConfirmMigration(r)
    BY <1>1, <2>2 DEF ConfirmMigration
  <2>3. QED
    BY <1>2, <1>8, <2>1, <2>2 DEF Owner, RevokeGrant
<1>9. ASSUME NEW r \in Runs, Time(r) \/ Clean(r) PROVE FALSE
  BY <1>1, <1>2, <1>9 DEF Time, RunTimesOut, SessionEnds, ArtifactExpires, Clean, RunRow
<1>10. ASSUME ExpireRuns PROVE FALSE
  <2>1. Overdue(x) /\ run'[x] = Ended(run[x], "timed_out")
    BY <1>1, <1>10 DEF ExpireRuns
  <2>2. run'[x].status = "recovery_required"
    BY <1>1, <2>1 DEF Ended, RunRow
  <2>3. QED
    BY <2>2
<1>11. QED
  BY <1>2, <1>3, <1>4, <1>5, <1>6, <1>7, <1>8, <1>9, <1>10 DEF Next, vars, ApiRestarts, CliWrite

\* The State of a run is never behind the version the run is bound to.
BaseReached ==
  \A r \in Runs : run[r].status # "none" => run[r].base <= state[K(r)].version

LEMMA BaseStep == TypeOK /\ Linked /\ BaseReached /\ [Next]_vars => BaseReached'
<1> SUFFICES ASSUME TypeOK, Linked, BaseReached, [Next]_vars,
                    NEW x \in Runs, run'[x].status # "none"
             PROVE  run'[x].base <= state'[run'[x].key].version
  BY DEF BaseReached, K
<1>1. TypeOK' /\ Linked'
  BY TypeStep, LinkedStep
<1>2. run'[x].base \in Nat
  BY <1>1 DEF TypeOK, RunRow
<1>3. ASSUME run'[x].key = K(x), run'[x].base = run[x].base, run[x].status # "none"
      PROVE  run'[x].base <= state'[run'[x].key].version
  <2>1. K(x) \in Keys /\ run[x].base <= state[K(x)].version
    BY <1>3 DEF BaseReached, Linked
  <2>2. state'[K(x)].version >= state[K(x)].version
    BY <2>1, VersionBindsStep DEF VersionBinds
  <2>3. state'[K(x)].version \in Nat /\ state[K(x)].version \in Nat
    BY <1>1, <2>1 DEF TypeOK, StateRow
  <2>4. QED
    BY <1>2, <1>3, <2>1, <2>2, <2>3
<1>4. ASSUME NEW r \in Runs, Admitted(r), \A o \in Runs \ {r} : run'[o] = run[o]
      PROVE  run'[x].base <= state'[run'[x].key].version
  <2>1. CASE x = r
    BY <1>2, <1>4, <2>1 DEF Admitted
  <2>2. CASE x # r
    BY <1>3, <1>4, <2>2 DEF K
  <2>3. QED
    BY <2>1, <2>2
<1>5. ASSUME \A o \in Runs : Bound(o) /\ Forward(o)
      PROVE  run'[x].base <= state'[run'[x].key].version
  BY <1>3, <1>5 DEF Bound, Forward, K, Live
<1>6. QED
  BY <1>4, <1>5, RunStep

\* An Apply becomes succeeded only when its State is unlocked in the customer's
\* backend, and it records the version that row has after the same transaction,
\* which is not behind the plan's: outputs() later compares the two.
THEOREM SuccessRecords == Spec => SuccessRecordsVersion
<1> DEFINE Inv == TypeOK /\ Linked /\ BaseReached
<1>1. Init => Inv
  <2>1. Init => BaseReached
    BY DEF Init, NoRun, BaseReached
  <2>2. QED
    BY <2>1, InitType, LinkedInit
<1>2. Inv /\ [Next]_vars => Inv'
  BY TypeStep, LinkedStep, BaseStep
<1>3. ASSUME Inv, [Next]_vars, NEW r \in Runs, run[r].op = "apply",
             run[r].status # "succeeded", run'[r].status = "succeeded"
      PROVE  /\ state'[K(r)].s3 /\ state'[K(r)].lock = NULL
             /\ run'[r].applied = state'[K(r)].version
             /\ run[r].base <= run'[r].applied
  <2>1. ConfirmMigration(r) \/ \E ack \in BOOLEAN : ApplySucceeds(r, ack)
    BY <1>3, SuccessSteps
  <2>2. run[r].status # "none" /\ run[r] \in RunRow
    BY <1>3, <2>1 DEF ConfirmMigration, Reconcilable, ApplySucceeds, TypeOK
  <2>3. PICK k \in Keys : k = K(r)
    BY <1>3, <2>2 DEF Linked
  <2>4. /\ state'[k].s3 /\ state'[k].lock = NULL
        /\ run'[r].applied = state'[k].version
    <3>1. CASE ConfirmMigration(r)
      <4>1. state[k].lock = NULL /\ state'[k] = Switched(k)
        BY <1>3, <2>3, <3>1 DEF ConfirmMigration, Migratable, TypeOK
      <4>2. run'[r].applied = Switched(k).version
        BY <1>3, <2>2, <2>3, <3>1 DEF ConfirmMigration, TypeOK, RunRow
      <4>3. QED
        BY <1>3, <4>1, <4>2, SwitchedContent
    <3>2. ASSUME NEW ack \in BOOLEAN, ApplySucceeds(r, ack)
          PROVE  /\ state'[k].s3 /\ state'[k].lock = NULL
                 /\ run'[r].applied = state'[k].version
      <4>1. state[k].lock = NULL /\ state[k].s3 /\ state'[k] = Refreshed(k)
        BY <1>3, <2>3, <3>2 DEF ApplySucceeds, TypeOK
      <4>2. run'[r].applied = Refreshed(k).version
        BY <1>3, <2>2, <2>3, <3>2 DEF ApplySucceeds, AppliedVersion, TypeOK, RunRow
      <4>3. QED
        BY <1>3, <4>1, <4>2, RefreshedContent
    <3>3. QED
      BY <2>1, <3>1, <3>2
  <2>5. run[r].base <= state[k].version /\ state'[k].version >= state[k].version
    BY <1>3, <2>2, <2>3, VersionBindsStep DEF BaseReached, VersionBinds
  <2>6. run[r].base \in Nat /\ state[k].version \in Nat /\ state'[k].version \in Nat
    BY <1>2, <1>3, <2>2, <2>3 DEF TypeOK, RunRow, StateRow
  <2>7. QED
    BY <2>3, <2>4, <2>5, <2>6
<1>4. Inv /\ [Next]_vars =>
        [\A r \in Runs : run[r].op = "apply" /\ run[r].status # "succeeded"
                         /\ run'[r].status = "succeeded" =>
           /\ state'[K(r)].s3 /\ state'[K(r)].lock = NULL
           /\ run'[r].applied = state'[K(r)].version
           /\ run[r].base <= run'[r].applied]_vars
  BY <1>3
<1>5. QED
  BY <1>1, <1>2, <1>4, PTL DEF Spec, SuccessRecordsVersion

---------------------------------------------------------------------------
(* Grants, input() and credentials *)

Same(x) ==
  /\ run'[x] = run[x] /\ grant'[x] = grant[x] /\ input'[x] = input[x]
  /\ worker'[x].creds = worker[x].creds

\* A step that neither serves the runner's input nor uses its grant.
Quiet(x) ==
  /\ grant'[x].consumed = grant[x].consumed /\ grant'[x].revoked = grant[x].revoked
  /\ input'[x] = input[x]
  /\ worker'[x].creds \in {"none", worker[x].creds}
  /\ run'[x].claimed = run[x].claimed /\ run'[x].droplet = run[x].droplet
  /\ \/ run'[x].status = run[x].status
     \/ run'[x].status \notin {"none", "starting", "initializing"}

\* Every step is quiet for a run, or what it does to its access is one of these.
AccessMove(x) ==
  \/ Quiet(x)
  \/ /\ run[x].status = "none" /\ run'[x].status = "starting" /\ ~run'[x].claimed
     /\ run'[x].droplet = NULL
     /\ grant' = grant /\ input' = input /\ worker' = worker
  \/ \E d \in Droplets : Record(x, d)
  \/ ClaimInput(x) \/ ConsumeGrant(x) \/ CheckInput(x) \/ SelectBackend(x)
  \/ \E ack \in BOOLEAN : ReleaseInput(x, ack)
  \/ /\ Serving(x) /\ input'[x] = "idle" /\ run' = run /\ grant' = grant
     /\ worker'[x].creds \in {"none", worker[x].creds}
  \/ /\ ~grant[x].consumed /\ grant'[x].revoked /\ ~grant'[x].consumed
     /\ input' = input /\ worker' = worker
     /\ run'[x].claimed = run[x].claimed /\ run'[x].droplet = run[x].droplet
     /\ run'[x].status \in {run[x].status, "cancelled"} /\ run[x].status # "none"

LEMMA SameQuiet == \A x : Same(x) => Quiet(x)
BY DEF Same, Quiet

LEMMA ReplyCreds ==
  ASSUME TypeOK, NEW r \in Runs, NEW ack \in BOOLEAN, NEW pc \in WorkerPc, Reply(r, ack, pc)
  PROVE  /\ worker'[r].creds \in {"none", worker[r].creds}
         /\ \A x \in Runs \ {r} : worker'[x] = worker[x]
BY DEF TypeOK, Reply, Failing, Gone, WorkerRow

LEMMA AdmissionAccess ==
  ASSUME TypeOK, Linked, NEW r \in Runs, Admission(r)
  PROVE  AccessMove(r) /\ \A x \in Runs \ {r} : Same(x)
<1>1. /\ run[r].status = "none" /\ run'[r].status = "starting"
      /\ \A x \in Runs \ {r} : run'[x] = run[x]
  BY AdmitStep DEF Admitted
<1>2. grant' = grant /\ input' = input /\ worker' = worker
  BY DEF Admission, Start, Apply
<1>3. ~run'[r].claimed /\ run'[r].droplet = NULL
  <2>1. ASSUME NEW u \in Owners, NEW k \in Keys, Start(r, u, k)
        PROVE  ~run'[r].claimed /\ run'[r].droplet = NULL
    BY <2>1 DEF Start, Admit, NoRun, TypeOK
  <2>2. ASSUME NEW p \in Runs, Apply(r, p)
        PROVE  ~run'[r].claimed /\ run'[r].droplet = NULL
    BY <2>2 DEF Apply, Admit, NoRun, TypeOK
  <2>3. QED
    BY <2>1, <2>2 DEF Admission
<1>4. QED
  BY <1>1, <1>2, <1>3 DEF AccessMove, Same

LEMMA EndedAccess ==
  ASSUME NEW row \in RunRow, NEW error
  PROVE  LET e == Ended(row, error)
         IN  /\ e.claimed = row.claimed /\ e.droplet = row.droplet /\ e.status \in Terminal
<1>1. PICK st \in Terminal : st = IF row.op = "apply" THEN "recovery_required" ELSE "failed"
  BY DEF Terminal
<1>2. Ended(row, error) = [row EXCEPT !.status = st, !.error = error]
  BY <1>1 DEF Ended
<1>3. QED
  BY <1>2 DEF RunRow

LEMMA DispatchingAccess ==
  ASSUME TypeOK, NEW r \in Runs, Dispatching(r)
  PROVE  AccessMove(r) /\ \A x \in Runs \ {r} : Same(x)
<1>1. run \in [Runs -> RunRow] /\ run[r] \in RunRow
      /\ worker \in [Runs -> WorkerRow] /\ worker[r] \in WorkerRow
  BY DEF TypeOK
<1>2. ASSUME NEW d \in Droplets, Record(r, d)
      PROVE  AccessMove(r) /\ \A x \in Runs \ {r} : Same(x)
  BY <1>1, <1>2 DEF Record, AccessMove, Same
<1>3. CASE Launch(r)
  BY <1>1, <1>3 DEF Launch, AccessMove, Quiet, Same, WorkerRow
<1>4. CASE DispatchReturns(r)
  BY <1>4 DEF DispatchReturns, AccessMove, Quiet, Same
<1>5. CASE DispatchFails(r)
  <2>1. grant' = grant /\ input' = input /\ worker' = worker
    BY <1>5 DEF DispatchFails
  <2>2. /\ \/ run' = run
           \/ run' = [run EXCEPT ![r] = Ended(run[r], "runner_unavailable")]
    BY <1>5 DEF DispatchFails
  <2>3. QED
    BY <1>1, <2>1, <2>2, EndedAccess DEF AccessMove, Quiet, Same, Terminal
<1>6. QED
  BY <1>2, <1>3, <1>4, <1>5 DEF Dispatching

LEMMA InputAccess ==
  ASSUME TypeOK, NEW r \in Runs, Input(r)
  PROVE  AccessMove(r) /\ \A x \in Runs \ {r} : Same(x)
<1>1. /\ run \in [Runs -> RunRow] /\ grant \in [Runs -> GrantRow]
      /\ worker \in [Runs -> WorkerRow] /\ worker[r] \in WorkerRow
      /\ input \in [Runs -> {"idle", "claimed", "consumed", "checked", "released"} \cup Locations]
  BY DEF TypeOK
<1>2. CASE ClaimInput(r)
  <2>1. \A x \in Runs \ {r} : worker'[x] = worker[x] /\ run'[x] = run[x] /\ input'[x] = input[x]
    BY <1>1, <1>2 DEF ClaimInput
  <2>2. QED
    BY <1>2, <2>1 DEF ClaimInput, AccessMove, Same
<1>3. CASE ConsumeGrant(r) \/ CheckInput(r) \/ SelectBackend(r)
  BY <1>1, <1>3 DEF ConsumeGrant, CheckInput, SelectBackend, AccessMove, Same
<1>4. ASSUME NEW ack \in BOOLEAN, ReleaseInput(r, ack)
      PROVE  AccessMove(r) /\ \A x \in Runs \ {r} : Same(x)
  BY <1>1, <1>4 DEF ReleaseInput, AccessMove, Same
<1>5. CASE AbandonInput(r)
  BY <1>1, <1>5 DEF AbandonInput, Failing, AccessMove, Same
<1>6. QED
  BY <1>2, <1>3, <1>4, <1>5 DEF Input

\* The row of r keeps its claim and package, and its status does not come back.
Progressed(r) ==
  /\ run'[r].claimed = run[r].claimed /\ run'[r].droplet = run[r].droplet
  /\ \/ run'[r].status = run[r].status
     \/ run'[r].status \notin {"none", "starting", "initializing"}
  /\ \A x \in Runs \ {r} : run'[x] = run[x]

LEMMA ExecutionAccess ==
  ASSUME TypeOK, NEW r \in Runs, Execution(r)
  PROVE  AccessMove(r) /\ \A x \in Runs \ {r} : Same(x)
<1>1. /\ run \in [Runs -> RunRow] /\ run[r] \in RunRow
      /\ worker \in [Runs -> WorkerRow] /\ worker[r] \in WorkerRow
  BY DEF TypeOK
<1>2. grant' = grant /\ input' = input
  BY DEF Execution, Validate, Execute, Stage, LockState, WriteState, UnlockState,
         PrepareMigration, CompleteMigration, SaveArtifact, PlanSucceeds, ApplySucceeds,
         LockRemote, WriteRemote, UnlockRemote, CopyState
<1>3. /\ worker'[r].creds \in {"none", worker[r].creds}
      /\ \A x \in Runs \ {r} : worker'[x] = worker[x]
  <2>1. ASSUME NEW ack \in BOOLEAN,
               \/ Validate(r, ack) \/ Execute(r, ack) \/ LockState(r, ack)
               \/ PrepareMigration(r, ack) \/ CompleteMigration(r, ack)
               \/ \E verdict \in {"approvable", "blocked"} : SaveArtifact(r, ack, verdict)
               \/ PlanSucceeds(r, ack) \/ ApplySucceeds(r, ack)
        PROVE  \E pc \in WorkerPc : Reply(r, ack, pc)
    BY <2>1 DEF Validate, Execute, Stage, LockState, PrepareMigration, CompleteMigration,
                SaveArtifact, PlanSucceeds, ApplySucceeds, WorkerPc
  <2>2. ASSUME NEW ack \in BOOLEAN, UnlockState(r, ack)
        PROVE  worker' = worker \/ \E pc \in WorkerPc : Reply(r, ack, pc)
    BY <2>2 DEF UnlockState, AfterUnlock, WorkerPc
  <2>3. ASSUME \/ \E ack \in BOOLEAN, d \in Docs : WriteState(r, ack, d)
               \/ LockRemote(r) \/ \E d \in Docs : WriteRemote(r, d)
               \/ UnlockRemote(r) \/ CopyState(r)
        PROVE  worker' = worker \/ \E pc \in WorkerPc : worker' = [worker EXCEPT ![r].pc = pc]
    BY <2>3 DEF WriteState, LockRemote, WriteRemote, UnlockRemote, CopyState, WorkerPc
  <2>4. \/ worker' = worker
        \/ \E ack \in BOOLEAN, pc \in WorkerPc : Reply(r, ack, pc)
        \/ \E pc \in WorkerPc : worker' = [worker EXCEPT ![r].pc = pc]
    BY <2>1, <2>2, <2>3 DEF Execution
  <2>5. QED
    BY <1>1, <2>4, ReplyCreds DEF WorkerRow
<1>4. Progressed(r)
  <2>1. ASSUME NEW st \in {"validating", "applying", "planning", "succeeded"},
               run' = [run EXCEPT ![r].status = st]
        PROVE  Progressed(r)
    BY <1>1, <2>1 DEF RunRow, Progressed
  <2>2. ASSUME NEW ack \in BOOLEAN, ApplySucceeds(r, ack)
        PROVE  Progressed(r)
    BY <1>1, <2>2 DEF ApplySucceeds, RunRow, Progressed
  <2>3. ASSUME NEW ack \in BOOLEAN, Validate(r, ack) \/ Execute(r, ack) \/ PlanSucceeds(r, ack)
        PROVE  \E st \in {"validating", "applying", "planning", "succeeded"} :
                 run' = [run EXCEPT ![r].status = st]
    BY <2>3 DEF Validate, Execute, Stage, PlanSucceeds
  <2>4. CASE run' = run
    BY <2>4 DEF Progressed
  <2>5. QED
    BY <2>1, <2>2, <2>3, <2>4
    DEF Execution, LockState, WriteState, UnlockState, PrepareMigration, CompleteMigration,
        SaveArtifact, LockRemote, WriteRemote, UnlockRemote, CopyState
<1>5. QED
  BY <1>2, <1>3, <1>4 DEF AccessMove, Quiet, Same, Progressed

LEMMA FailureAccess ==
  ASSUME TypeOK, NEW r \in Runs, Failure(r)
  PROVE  AccessMove(r) /\ \A x \in Runs \ {r} : Same(x)
<1>1. /\ run \in [Runs -> RunRow] /\ run[r] \in RunRow
      /\ worker \in [Runs -> WorkerRow] /\ worker[r] \in WorkerRow
  BY DEF TypeOK
<1>2. grant' = grant /\ input' = input
  BY DEF Failure, WorkerFails, SaveRecovery, RecoveryLost, ReportFailure, WorkerDies
<1>3. run' = run \/ run' = [run EXCEPT ![r] = Ended(run[r], worker[r].error)]
  BY <1>1 DEF Failure, WorkerFails, SaveRecovery, RecoveryLost, ReportFailure, WorkerDies
<1>4. \/ \E e \in {ErrorOf(r), "other", "state_failed"} : worker' = [worker EXCEPT ![r] = Failing(e)]
      \/ worker' = [worker EXCEPT ![r].pc = "salvage"]
      \/ worker' = [worker EXCEPT ![r] = Gone]
  BY DEF Failure, WorkerFails, SaveRecovery, RecoveryLost, ReportFailure, WorkerDies
<1>5. /\ worker'[r].creds \in {"none", worker[r].creds}
      /\ \A x \in Runs \ {r} : worker'[x] = worker[x]
  BY <1>1, <1>4 DEF Failing, Gone, WorkerRow
<1>6. QED
  BY <1>1, <1>2, <1>3, <1>5, EndedAccess DEF AccessMove, Quiet, Same, Terminal

LEMMA OwnerAccess ==
  ASSUME TypeOK, NEW r \in Runs, Owner(r)
  PROVE  AccessMove(r) /\ \A x \in Runs \ {r} : Same(x)
<1>1. /\ run \in [Runs -> RunRow] /\ run[r] \in RunRow
      /\ grant \in [Runs -> GrantRow] /\ grant[r] \in GrantRow
  BY DEF TypeOK
<1>2. CASE Cancel(r)
  <2>1. /\ run'[r].claimed = run[r].claimed /\ run'[r].droplet = run[r].droplet
        /\ run'[r].status = "cancelled" /\ run[r].status # "none"
        /\ \A x \in Runs \ {r} : run'[x] = run[x]
    BY <1>1, <1>2 DEF Cancel, RunRow, Live
  <2>2. grant' = IF grant[r].consumed THEN grant ELSE [grant EXCEPT ![r].revoked = TRUE]
    BY <1>2 DEF Cancel
  <2>3. input' = input /\ worker' = worker
    BY <1>2 DEF Cancel
  <2>4. CASE grant[r].consumed
    BY <2>1, <2>2, <2>3, <2>4 DEF AccessMove, Quiet, Same
  <2>5. CASE ~grant[r].consumed
    <3>1. grant'[r].revoked /\ ~grant'[r].consumed /\ \A x \in Runs \ {r} : grant'[x] = grant[x]
      BY <1>1, <2>2, <2>5 DEF GrantRow
    <3>2. QED
      BY <2>1, <2>3, <2>5, <3>1 DEF AccessMove, Same
  <2>6. QED
    BY <2>4, <2>5
<1>3. CASE RevokeGrant(r)
  <2>1. grant'[r].revoked /\ ~grant'[r].consumed /\ \A x \in Runs \ {r} : grant'[x] = grant[x]
    BY <1>1, <1>3 DEF RevokeGrant, GrantRow
  <2>2. QED
    BY <1>3, <2>1 DEF RevokeGrant, AccessMove, Same
<1>4. CASE RetainState(r)
  BY <1>1, <1>4 DEF RetainState, RunRow, AccessMove, Quiet, Same
<1>5. CASE ConfirmMigration(r)
  BY <1>1, <1>5 DEF ConfirmMigration, RunRow, AccessMove, Quiet, Same
<1>6. QED
  BY <1>2, <1>3, <1>4, <1>5 DEF Owner

LEMMA TimeAccess ==
  ASSUME TypeOK, NEW r \in Runs, Time(r) \/ Clean(r)
  PROVE  AccessMove(r) /\ \A x \in Runs \ {r} : Same(x)
<1>1. /\ run \in [Runs -> RunRow] /\ run[r] \in RunRow
      /\ grant \in [Runs -> GrantRow] /\ grant[r] \in GrantRow
      /\ worker \in [Runs -> WorkerRow] /\ worker[r] \in WorkerRow
  BY DEF TypeOK
<1>2. CASE Time(r)
  <2>1. CASE RunTimesOut(r)
    <3>1. /\ run'[r] = [run[r] EXCEPT !.expired = TRUE]
          /\ grant'[r] = [grant[r] EXCEPT !.expired = TRUE]
          /\ \A x \in Runs \ {r} : run'[x] = run[x] /\ grant'[x] = grant[x]
          /\ input' = input /\ worker' = worker
      BY <1>1, <2>1 DEF RunTimesOut
    <3>2. QED
      BY <1>1, <3>1 DEF RunRow, GrantRow, AccessMove, Quiet, Same
  <2>2. CASE SessionEnds(r)
    BY <1>1, <2>2 DEF SessionEnds, GrantRow, AccessMove, Quiet, Same
  <2>3. CASE ArtifactExpires(r)
    BY <2>3 DEF ArtifactExpires, AccessMove, Quiet, Same
  <2>4. QED
    BY <1>2, <2>1, <2>2, <2>3 DEF Time
<1>3. CASE Clean(r)
  BY <1>1, <1>3 DEF Clean, Gone, RunRow, WorkerRow, AccessMove, Quiet, Same
<1>4. QED
  BY <1>2, <1>3

LEMMA AccessStep ==
  ASSUME TypeOK, Linked, [Next]_vars
  PROVE  \A x \in Runs : AccessMove(x)
<1>1. ASSUME NEW r \in Runs, \/ Admission(r) \/ Dispatching(r) \/ Input(r) \/ Execution(r)
                             \/ Failure(r) \/ Owner(r) \/ Time(r) \/ Clean(r)
      PROVE  \A x \in Runs : AccessMove(x)
  <2>1. AccessMove(r) /\ \A x \in Runs \ {r} : Same(x)
    BY <1>1, AdmissionAccess, DispatchingAccess, InputAccess, ExecutionAccess, FailureAccess,
       OwnerAccess, TimeAccess
  <2>2. QED
    BY <2>1, SameQuiet DEF AccessMove
<1>2. ASSUME UNCHANGED vars \/ \E k \in Keys : CliWrite(k)
      PROVE  \A x \in Runs : AccessMove(x)
  BY <1>2 DEF vars, CliWrite, AccessMove, Quiet
<1>3. CASE ExpireRuns
  <2>1. \A x \in Runs : run'[x] = run[x] \/ run'[x] = Ended(run[x], "timed_out")
    BY <1>3 DEF ExpireRuns
  <2>2. \A x \in Runs : run[x] \in RunRow
    BY DEF TypeOK
  <2>3. QED
    BY <1>3, <2>1, <2>2, EndedAccess DEF ExpireRuns, AccessMove, Quiet, Terminal
<1>4. CASE ApiRestarts
  <2>1. \A x \in Runs : worker'[x].creds \in {"none", worker[x].creds}
    BY <1>4 DEF ApiRestarts, Failing
  <2>2. \A x \in Runs : input'[x] = input[x] \/ (Serving(x) /\ input'[x] = "idle")
    BY <1>4 DEF ApiRestarts
  <2>3. run' = run /\ grant' = grant
    BY <1>4 DEF ApiRestarts
  <2>4. QED
    BY <2>1, <2>2, <2>3 DEF AccessMove, Quiet
<1>5. QED
  BY <1>1, <1>2, <1>3, <1>4 DEF Next

\* A step after which the run is initializing found it so, or its input was claimed.
LEMMA StillInitializing ==
  ASSUME TypeOK, Linked, [Next]_vars, NEW x \in Runs, run'[x].status = "initializing"
  PROVE  run[x].status = "initializing" \/ ClaimInput(x)
<1>1. run[x] \in RunRow /\ run \in [Runs -> RunRow]
  BY DEF TypeOK
<1>2. ASSUME NEW d \in Droplets, Record(x, d) PROVE run'[x].status = run[x].status
  BY <1>1, <1>2 DEF Record, RunRow
<1>3. QED
  BY <1>2, AccessStep
  DEF AccessMove, Quiet, ConsumeGrant, CheckInput, SelectBackend, ReleaseInput

\* A grant is consumed before secrets are released and never revoked afterwards; only
\* the release gives the runner credentials; every step of input() follows its claim.
Access(x) ==
  /\ ~(grant[x].revoked /\ grant[x].consumed)
  /\ input[x] \notin {"idle", "claimed"} => grant[x].consumed
  /\ worker[x].creds # "none" => input[x] = "released"
  /\ input[x] # "idle" => run[x].claimed
  /\ run[x].claimed => run[x].status \notin {"none", "starting"}

Accesses == \A x \in Runs : Access(x)

LEMMA AccessesStep == TypeOK /\ Linked /\ Accesses /\ [Next]_vars => Accesses'
<1> SUFFICES ASSUME TypeOK, Linked, [Next]_vars, NEW x \in Runs, Access(x) PROVE Access(x)'
  BY DEF Accesses
<1> USE DEF Access
<1>1. /\ run \in [Runs -> RunRow] /\ run[x] \in RunRow
      /\ grant \in [Runs -> GrantRow] /\ grant[x] \in GrantRow
      /\ worker \in [Runs -> WorkerRow] /\ worker[x] \in WorkerRow
      /\ input \in [Runs -> {"idle", "claimed", "consumed", "checked", "released"} \cup Locations]
  BY DEF TypeOK
<1>2. CASE Quiet(x)
  BY <1>2 DEF Quiet
<1>3. ASSUME NEW d \in Droplets, Record(x, d) PROVE Access(x)'
  BY <1>1, <1>3 DEF Record, RunRow
<1>4. CASE ClaimInput(x)
  <2>1. /\ run'[x] = [run[x] EXCEPT !.claimed = TRUE, !.status = "initializing"]
        /\ input'[x] = "claimed" /\ grant' = grant
    BY <1>1, <1>4 DEF ClaimInput
  <2>2. run'[x].claimed /\ run'[x].status = "initializing"
    BY <1>1, <2>1 DEF RunRow
  <2>3. input[x] = "idle" /\ worker[x].creds = "none"
    BY <1>4 DEF ClaimInput
  <2>4. worker'[x].creds = worker[x].creds
    <3>1. PICK pc : pc = IF worker[x].pc = "launched" THEN "waiting" ELSE worker[x].pc
      OBVIOUS
    <3>2. worker' = [worker EXCEPT ![x].pc = pc]
      BY <1>4, <3>1 DEF ClaimInput
    <3>3. QED
      BY <1>1, <3>2 DEF WorkerRow
  <2>5. QED
    BY <2>1, <2>2, <2>3, <2>4
<1>5. CASE ConsumeGrant(x)
  BY <1>1, <1>5 DEF ConsumeGrant, GrantRow
<1>6. CASE CheckInput(x) \/ SelectBackend(x)
  BY <1>1, <1>6 DEF CheckInput, SelectBackend, Locations
<1>7. ASSUME NEW ack \in BOOLEAN, ReleaseInput(x, ack) PROVE Access(x)'
  BY <1>1, <1>7 DEF ReleaseInput, ReleasableInput
<1>8. QED
  BY <1>2, <1>3, <1>4, <1>5, <1>6, <1>7, AccessStep DEF AccessMove, Serving

LEMMA AccessesInit == Init => Accesses
BY DEF Init, NoRun, Accesses, Access

\* A grant that its owner revoked, alone or by cancelling the run, released no
\* secrets and never will; a grant whose secrets were released can not be revoked
\* (revoke_plan_grant and cancel read consumed_at in the statement that revokes).
THEOREM RevokedReleasesNothing == Spec => []RevokedNeverReleased
<1> DEFINE Inv == TypeOK /\ Linked /\ Accesses
<1>1. Init => Inv
  BY InitType, LinkedInit, AccessesInit
<1>2. Inv /\ [Next]_vars => Inv'
  BY TypeStep, LinkedStep, AccessesStep
<1>3. Inv => RevokedNeverReleased
  BY DEF Accesses, Access, RevokedNeverReleased
<1>4. QED
  BY <1>1, <1>2, <1>3, PTL DEF Spec

LEMMA RecoverySteps ==
  ASSUME [Next]_vars
  PROVE  recovery' = recovery \/ \E r \in Runs : SaveRecovery(r) /\ recovery' = recovery \cup {r}
<1>1. ASSUME NEW r \in Runs, \/ Admission(r) \/ Dispatching(r) \/ Input(r) \/ Owner(r)
                             \/ Time(r) \/ Clean(r)
      PROVE  recovery' = recovery
  BY <1>1
  DEF Admission, Start, Apply, Dispatching, Record, Launch, DispatchReturns, DispatchFails,
      Input, ClaimInput, ConsumeGrant, CheckInput, SelectBackend, ReleaseInput, AbandonInput,
      Owner, Cancel, RevokeGrant, RetainState, ConfirmMigration, Time, RunTimesOut,
      SessionEnds, ArtifactExpires, Clean
<1>2. ASSUME NEW r \in Runs, Execution(r) PROVE recovery' = recovery
  BY <1>2
  DEF Execution, Validate, Execute, Stage, LockState, WriteState, UnlockState,
      PrepareMigration, CompleteMigration, SaveArtifact, PlanSucceeds, ApplySucceeds,
      LockRemote, WriteRemote, UnlockRemote, CopyState
<1>3. ASSUME NEW r \in Runs, Failure(r)
      PROVE  \/ recovery' = recovery
             \/ SaveRecovery(r) /\ recovery' = recovery \cup {r}
  <2>1. SaveRecovery(r) => recovery' = recovery \cup {r}
    BY DEF SaveRecovery
  <2>2. WorkerFails(r) \/ RecoveryLost(r) \/ ReportFailure(r) \/ WorkerDies(r) =>
          recovery' = recovery
    BY DEF WorkerFails, RecoveryLost, ReportFailure, WorkerDies
  <2>3. QED
    BY <1>3, <2>1, <2>2 DEF Failure
<1>4. QED
  BY <1>1, <1>2, <1>3 DEF Next, vars, ExpireRuns, ApiRestarts, CliWrite

LEMMA ArtifactSteps ==
  ASSUME TypeOK, [Next]_vars, NEW x \in Runs, artifact[x] = "none", artifact'[x] # "none"
  PROVE  \E ack \in BOOLEAN, verdict \in {"approvable", "blocked"} : SaveArtifact(x, ack, verdict)
<1>1. artifact \in [Runs -> {"none", "approvable", "blocked", "expired"}]
  BY DEF TypeOK
<1>2. ASSUME NEW r \in Runs, \/ Admission(r) \/ Dispatching(r) \/ Input(r) \/ Failure(r)
                             \/ Owner(r) \/ Time(r) \/ Clean(r)
      PROVE  FALSE
  <2>1. CASE ArtifactExpires(r)
    BY <1>1, <2>1 DEF ArtifactExpires, Saved
  <2>2. QED
    BY <1>2, <2>1
    DEF Admission, Start, Apply, Dispatching, Record, Launch, DispatchReturns, DispatchFails,
        Input, ClaimInput, ConsumeGrant, CheckInput, SelectBackend, ReleaseInput, AbandonInput,
        Failure, WorkerFails, SaveRecovery, RecoveryLost, ReportFailure, WorkerDies,
        Owner, Cancel, RevokeGrant, RetainState, ConfirmMigration, Time, RunTimesOut,
        SessionEnds, Clean
<1>3. ASSUME NEW r \in Runs, Execution(r)
      PROVE  \E ack \in BOOLEAN, verdict \in {"approvable", "blocked"} :
               SaveArtifact(x, ack, verdict)
  <2>1. ASSUME NEW ack \in BOOLEAN, NEW verdict \in {"approvable", "blocked"},
               SaveArtifact(r, ack, verdict)
        PROVE  x = r
    BY <1>1, <2>1 DEF SaveArtifact
  <2>2. QED
    BY <1>3, <2>1
    DEF Execution, Validate, Execute, Stage, LockState, WriteState, UnlockState,
        PrepareMigration, CompleteMigration, PlanSucceeds, ApplySucceeds,
        LockRemote, WriteRemote, UnlockRemote, CopyState
<1>4. QED
  BY <1>2, <1>3 DEF Next, vars, ExpireRuns, ApiRestarts, CliWrite

\* Once a run ended or its time is over, its runner is released no secrets and takes
\* no lock, and no plan, State or recovery evidence of it is stored any more: every
\* handler reads the status and the expiry of the run in its own transaction.
THEOREM NoAccess == Spec => NoAccessAfterEnd
<1>1. ASSUME TypeOK, Linked, [Next]_vars, NEW r \in Runs,
             input[r] # "released" /\ input'[r] = "released"
      PROVE  InTime(r)
  <2>1. ASSUME NEW d \in Droplets, Record(r, d) PROVE input' = input
    BY <2>1 DEF Record
  <2>2. ~Quiet(r) /\ ~ClaimInput(r) /\ ~ConsumeGrant(r) /\ ~CheckInput(r) /\ ~SelectBackend(r)
    BY <1>1
    DEF Quiet, ClaimInput, ConsumeGrant, CheckInput, SelectBackend, TypeOK, Locations
  <2>3. \E ack \in BOOLEAN : ReleaseInput(r, ack)
    BY <1>1, <2>1, <2>2, AccessStep DEF AccessMove
  <2>4. QED
    BY <2>3 DEF ReleaseInput, ReleasableInput, InTime, Live
<1>2. ASSUME TypeOK, [Next]_vars, NEW r \in Runs, r \in recovery' \ recovery
      PROVE  InTime(r)
  BY <1>2, RecoverySteps DEF SaveRecovery
<1>3. ASSUME TypeOK, [Next]_vars, NEW r \in Runs, artifact[r] = "none" /\ artifact'[r] # "none"
      PROVE  InTime(r)
  BY <1>3, ArtifactSteps DEF SaveArtifact, InTime, Live
<1>4. ASSUME TypeOK, [Next]_vars, NEW r \in Runs, NEW k \in Keys,
             state[k].lock # r /\ state'[k].lock = r
      PROVE  InTime(r)
  <2>1. state[k] \in StateRow
    BY <1>4 DEF TypeOK
  <2>2. ASSUME NEW o \in Runs, Written(o, k) PROVE state'[k].lock = state[k].lock
    BY <2>1, <2>2, StoredContent DEF Written
  <2>3. ASSUME NEW o \in Runs, Moved(o, k) PROVE state'[k].lock = state[k].lock
    BY <1>4, <2>3, SwitchedContent DEF Moved
  <2>4. PICK o \in Runs : Relocked(o, k)
    BY <1>4, <2>2, <2>3, StateStep, RefreshedContent DEF StateMove
  <2>5. r # NULL
    BY SetsAssumption
  <2>6. QED
    BY <1>4, <2>4, <2>5 DEF Relocked
<1>5. ASSUME TypeOK, [Next]_vars, NEW r \in Runs, NEW k \in Keys,
             state'[k].doc \notin {NULL, state[k].doc}, state'[k].doc.by = r
      PROVE  InTime(r)
  <2>1. state[k] \in StateRow
    BY <1>5 DEF TypeOK
  <2>2. PICK o \in Runs : Written(o, k)
    BY <1>5, StateStep, RefreshedContent, SwitchedContent
    DEF StateMove, Relocked, SameContent, Moved
  <2>3. o = r /\ InTime(o)
    BY <1>5, <2>1, <2>2, StoredContent DEF Written
  <2>4. QED
    BY <2>3
<1>6. TypeOK /\ Linked /\ [Next]_vars =>
        [\A r \in Runs :
           \/ input[r] # "released" /\ input'[r] = "released"
           \/ r \in recovery' \ recovery
           \/ artifact[r] = "none" /\ artifact'[r] # "none"
           \/ \E k \in Keys : state[k].lock # r /\ state'[k].lock = r
           \/ \E k \in Keys : /\ state'[k].doc \notin {NULL, state[k].doc}
                              /\ state'[k].doc.by = r
           => run[r].status \in Live /\ ~run[r].expired]_vars
  BY <1>1, <1>2, <1>3, <1>4, <1>5 DEF InTime
<1>7. Init => TypeOK /\ Linked
  BY InitType, LinkedInit
<1>8. (TypeOK /\ Linked) /\ [Next]_vars => (TypeOK /\ Linked)'
  BY TypeStep, LinkedStep
<1>9. QED
  BY <1>6, <1>7, <1>8, PTL DEF Spec, NoAccessAfterEnd

---------------------------------------------------------------------------
(* What input() checked *)

\* What the third transaction of input() found, until the fifth releases the secrets:
\* the package of the run, and the State of its snapshot.
Checked(x) ==
  input[x] \in {"checked"} \cup Locations =>
    /\ run[x].droplet # NULL
    /\ run[x].op = "apply" => run[run[x].plan].droplet = run[x].droplet
    /\ run[x].status = "initializing" =>
         /\ state[K(x)].lock = NULL
         /\ state[K(x)].version = run[x].base
         /\ input[x] \in Locations => (input[x] = "s3") = state[K(x)].s3

AllChecked == \A x \in Runs : Checked(x)

\* A recorded package is never replaced.
LEMMA DropletStep ==
  ASSUME TypeOK, Linked, Runners, [Next]_vars, NEW x \in Runs, run[x].droplet # NULL
  PROVE  run'[x].droplet = run[x].droplet
<1>1. run \in [Runs -> RunRow] /\ run[x] \in RunRow
  BY DEF TypeOK
<1>2. run[x].status # "none" /\ ~\E d \in Droplets : Record(x, d)
  BY DEF Runners, RunnerOf, Record
<1>3. CASE ClaimInput(x)
  <2>1. run'[x] = [run[x] EXCEPT !.claimed = TRUE, !.status = "initializing"]
    BY <1>1, <1>3 DEF ClaimInput
  <2>2. QED
    BY <1>1, <2>1 DEF RunRow
<1>4. ASSUME \/ ConsumeGrant(x) \/ CheckInput(x) \/ SelectBackend(x)
             \/ \E ack \in BOOLEAN : ReleaseInput(x, ack)
      PROVE  run' = run
  BY <1>4 DEF ConsumeGrant, CheckInput, SelectBackend, ReleaseInput
<1>5. QED
  BY <1>2, <1>3, <1>4, AccessStep DEF AccessMove, Quiet

\* An admitted run keeps what it is bound to.
LEMMA BoundStep ==
  ASSUME TypeOK, Linked, [Next]_vars, NEW x \in Runs, run[x].status # "none"
  PROVE  Bound(x)
BY RunStep DEF Bound, Admitted

\* While a run is initializing without secrets, nobody moves or locks its State.
LEMMA UnlockedStep ==
  ASSUME TypeOK, Linked, OneActive, SnapshotHeld, SnapshotHeld', [Next]_vars, NEW x \in Runs,
         run[x].status = "initializing", run'[x].status = "initializing",
         worker[x].creds = "none", state[K(x)].lock = NULL
  PROVE  /\ state'[K(x)].lock = NULL
         /\ state'[K(x)].version = run[x].base
         /\ state'[K(x)].s3 = state[K(x)].s3
<1>1. PICK k \in Keys : k = K(x)
  BY DEF Linked
<1>2. Bound(x)
  BY BoundStep
<1>3. state[k].version = run[x].base /\ state'[k].version = run[x].base
  BY <1>1, <1>2 DEF SnapshotHeld, Bound, K, Live
<1>4. state'[k].s3 = state[k].s3
  BY <1>3, VersionBindsStep DEF VersionBinds
<1>5. state[k] \in StateRow
  BY DEF TypeOK
<1>6. ASSUME NEW r \in Runs, Relocked(r, k) PROVE state'[k].lock = NULL
  <2>1. SUFFICES ASSUME state'[k].lock # NULL PROVE FALSE
    OBVIOUS
  <2>2. InTime(r) /\ worker[r].creds = "bootstrap" /\ K(r) = k
    BY <1>1, <1>6, <2>1 DEF Relocked
  <2>3. r = x
    BY <1>1, <2>2 DEF OneActive, InTime, Active, Live
  <2>4. QED
    BY <2>2, <2>3
<1>7. ASSUME NEW r \in Runs, Written(r, k) PROVE state'[k].lock = state[k].lock
  BY <1>5, <1>7, StoredContent DEF Written
<1>8. ASSUME NEW r \in Runs, Moved(r, k) PROVE state'[k].lock = state[k].lock
  BY <1>8, SwitchedContent DEF Moved
<1>9. state'[k].lock = NULL
  BY <1>1, <1>6, <1>7, <1>8, StateStep, RefreshedContent DEF StateMove
<1>10. QED
  BY <1>1, <1>3, <1>4, <1>9

LEMMA CheckedStep ==
  ASSUME TypeOK, Linked, OneActive, Runners, SnapshotHeld, SnapshotHeld', Accesses, AllChecked,
         [Next]_vars
  PROVE  AllChecked'
<1> SUFFICES ASSUME NEW x \in Runs, input'[x] \in {"checked"} \cup Locations
             PROVE  Checked(x)'
  BY DEF AllChecked, Checked
<1>1. input \in [Runs -> {"idle", "claimed", "consumed", "checked", "released"} \cup Locations]
  BY DEF TypeOK
<1>2. CASE CheckInput(x)
  <2>1. input'[x] = "checked" /\ run' = run /\ state' = state
    BY <1>1, <1>2 DEF CheckInput
  <2>2. /\ run[x].droplet # NULL /\ state[K(x)].lock = NULL
        /\ state[K(x)].version = run[x].base
        /\ run[x].op = "apply" => run[run[x].plan].droplet = run[x].droplet
    BY <1>2 DEF CheckInput, PackageFits
  <2>3. QED
    BY <2>1, <2>2 DEF Checked, K, Locations
<1>3. CASE SelectBackend(x)
  <2>1. input'[x] = (IF state[K(x)].s3 THEN "s3" ELSE "bootstrap")
        /\ input[x] = "checked" /\ run' = run /\ state' = state
    BY <1>1, <1>3 DEF SelectBackend
  <2>2. Checked(x) /\ K(x)' = K(x)
    BY <2>1 DEF AllChecked, K
  <2>3. run[x].status = "initializing" => K(x) \in Keys /\ state[K(x)].s3 \in BOOLEAN
    BY DEF Linked, TypeOK, StateRow
  <2>4. QED
    BY <2>1, <2>2, <2>3 DEF Checked, Locations
<1>4. CASE input'[x] = input[x] /\ run'[x].droplet = run[x].droplet
           /\ (run'[x].status = "initializing" => run[x].status = "initializing")
  <2>1. Checked(x) /\ Access(x) /\ input[x] \in {"checked"} \cup Locations
    BY <1>4 DEF AllChecked, Accesses
  <2>2. /\ run[x].status # "none" /\ worker[x].creds = "none"
        /\ run[x].droplet # NULL
    BY <2>1 DEF Access, Checked, Locations
  <2>3. Bound(x)
    BY <2>2, BoundStep
  <2>4. ASSUME run[x].op = "apply" PROVE run'[run[x].plan].droplet = run[x].droplet
    <3>1. run[x].plan \in Runs /\ run[run[x].plan].droplet = run[x].droplet
      BY <2>1, <2>4 DEF Checked, Linked
    <3>2. QED
      BY <2>2, <3>1, DropletStep
  <2>5. ASSUME run'[x].status = "initializing"
        PROVE  /\ state'[K(x)].lock = NULL
               /\ state'[K(x)].version = run[x].base
               /\ input[x] \in Locations => (input[x] = "s3") = state'[K(x)].s3
    <3>1. run[x].status = "initializing"
      BY <1>4, <2>5
    <3>2. state[K(x)].lock = NULL
          /\ (input[x] \in Locations => (input[x] = "s3") = state[K(x)].s3)
      BY <2>1, <3>1 DEF Checked
    <3>3. QED
      BY <2>2, <2>5, <3>1, <3>2, UnlockedStep
  <2>6. QED
    BY <1>4, <2>2, <2>3, <2>4, <2>5 DEF Checked, Bound, K
<1>5. CASE Quiet(x)
  BY <1>4, <1>5 DEF Quiet
<1>6. ASSUME ~grant[x].consumed, input' = input PROVE FALSE
  BY <1>6 DEF Accesses, Access, Locations
<1>7. ASSUME NEW d \in Droplets, Record(x, d) PROVE FALSE
  BY <1>7 DEF Record, AllChecked, Checked
<1>8. ASSUME run[x].status = "none", input' = input PROVE FALSE
  BY <1>8 DEF Accesses, Access, Locations
<1>9. ASSUME \/ ClaimInput(x) \/ ConsumeGrant(x) \/ \E ack \in BOOLEAN : ReleaseInput(x, ack)
             \/ input'[x] = "idle"
      PROVE  FALSE
  BY <1>1, <1>9 DEF ClaimInput, ConsumeGrant, ReleaseInput, Locations
<1>10. QED
  BY <1>2, <1>3, <1>5, <1>6, <1>7, <1>8, <1>9, AccessStep DEF AccessMove

\* When input() releases the secrets, what its earlier transactions checked still
\* holds: the State is unlocked, at the run's version and in the backend that was
\* selected, and an Apply runs in the package that made its plan, although nothing is
\* locked in between.
THEOREM InputCurrent == Spec => []InputStillCurrent
<1> DEFINE Inv == TypeOK /\ Linked /\ OneActive /\ Runners /\ SnapshotHeld /\ Accesses /\ AllChecked
<1>1. Init => Inv
  <2>1. Init => OneActive /\ SnapshotHeld
    BY DEF Init, NoRun, OneActive, SnapshotHeld, Active, Live
  <2>2. Init => Runners
    BY DEF Init, NoRun, Runners, RunnerOf, Busy
  <2>3. Init => AllChecked
    BY DEF Init, AllChecked, Checked, Locations
  <2>4. QED
    BY <2>1, <2>2, <2>3, InitType, LinkedInit, AccessesInit
<1>2. Inv /\ [Next]_vars => Inv'
  BY TypeStep, LinkedStep, OneActiveStep, RunnersStep, SnapshotStep, AccessesStep, CheckedStep
<1>3. Inv => InputStillCurrent
  BY DEF AllChecked, Checked, InputStillCurrent, ReleasableInput
<1>4. QED
  BY <1>1, <1>2, <1>3, PTL DEF Spec

---------------------------------------------------------------------------
(* Reconciliation *)

\* A runner whose process has ended never runs again.
Stopped(x) == worker[x].pc = "done" => worker'[x].pc = "done"

LEMMA StoppedStep ==
  ASSUME TypeOK, Linked, Runners, [Next]_vars
  PROVE  \A x \in Runs : Stopped(x)
<1> SUFFICES ASSUME NEW x \in Runs, worker[x].pc = "done" PROVE worker'[x].pc = "done"
  BY DEF Stopped
<1>1. worker \in [Runs -> WorkerRow] /\ worker[x] \in WorkerRow
  BY DEF TypeOK
<1>2. ASSUME NEW r \in Runs, NEW ack \in BOOLEAN, NEW pc \in WorkerPc,
             worker[r].pc # "done", Reply(r, ack, pc)
      PROVE  worker'[x] = worker[x]
  BY <1>2, ReplyEffect
<1>3. ASSUME NEW r \in Runs, Execution(r) PROVE worker'[x] = worker[x]
  <2>1. ASSUME NEW ack \in BOOLEAN,
               \/ Validate(r, ack) \/ Execute(r, ack) \/ LockState(r, ack)
               \/ PrepareMigration(r, ack) \/ CompleteMigration(r, ack)
               \/ \E verdict \in {"approvable", "blocked"} : SaveArtifact(r, ack, verdict)
               \/ PlanSucceeds(r, ack) \/ ApplySucceeds(r, ack)
        PROVE  worker[r].pc # "done" /\ \E pc \in WorkerPc : Reply(r, ack, pc)
    BY <2>1 DEF Validate, Execute, Stage, LockState, PrepareMigration, CompleteMigration,
                SaveArtifact, PlanSucceeds, ApplySucceeds, WorkerPc
  <2>2. ASSUME NEW ack \in BOOLEAN, UnlockState(r, ack)
        PROVE  worker' = worker \/ (worker[r].pc # "done" /\ \E pc \in WorkerPc : Reply(r, ack, pc))
    BY <2>2 DEF UnlockState, AfterUnlock, WorkerPc
  <2>3. ASSUME NEW ack \in BOOLEAN, NEW d \in Docs, WriteState(r, ack, d)
        PROVE  worker'[x] = worker[x]
    BY <1>1, <2>3 DEF WriteState
  <2>4. ASSUME \/ LockRemote(r) \/ \E d \in Docs : WriteRemote(r, d)
               \/ UnlockRemote(r) \/ CopyState(r)
        PROVE  worker'[x] = worker[x]
    BY <1>1, <2>4 DEF LockRemote, WriteRemote, UnlockRemote, CopyState
  <2>5. QED
    BY <1>2, <1>3, <2>1, <2>2, <2>3, <2>4 DEF Execution
<1>4. ASSUME NEW r \in Runs, Failure(r) PROVE worker'[x].pc = "done"
  BY <1>1, <1>4 DEF Failure, WorkerFails, SaveRecovery, RecoveryLost, ReportFailure, WorkerDies, Gone
<1>5. ASSUME NEW r \in Runs, Input(r) PROVE worker'[x].pc = "done"
  <2>1. CASE ClaimInput(r)
    <3>1. PICK pc : pc = IF worker[r].pc = "launched" THEN "waiting" ELSE worker[r].pc
      OBVIOUS
    <3>2. worker' = [worker EXCEPT ![r].pc = pc]
      BY <2>1, <3>1 DEF ClaimInput
    <3>3. QED
      BY <1>1, <3>1, <3>2 DEF WorkerRow
  <2>2. ASSUME NEW ack \in BOOLEAN, ReleaseInput(r, ack) PROVE worker'[x].pc = "done"
    BY <1>1, <2>2 DEF ReleaseInput
  <2>3. CASE AbandonInput(r)
    BY <1>1, <2>3 DEF AbandonInput
  <2>4. QED
    BY <1>5, <2>1, <2>2, <2>3 DEF Input, ConsumeGrant, CheckInput, SelectBackend
<1>6. ASSUME NEW r \in Runs, Dispatching(r) \/ Clean(r) PROVE worker'[x].pc = "done"
  BY <1>1, <1>6
  DEF Dispatching, Record, Launch, DispatchReturns, DispatchFails, Clean, Gone
<1>7. ASSUME NEW r \in Runs, Admission(r) \/ Owner(r) \/ Time(r) PROVE worker' = worker
  BY <1>7 DEF Admission, Start, Apply, Owner, Cancel, RevokeGrant, RetainState,
              ConfirmMigration, Time, RunTimesOut, SessionEnds, ArtifactExpires
<1>8. CASE ApiRestarts
  BY <1>8 DEF ApiRestarts
<1>9. QED
  BY <1>3, <1>4, <1>5, <1>6, <1>7, <1>8 DEF Next, vars, ExpireRuns, CliWrite

LEMMA ReceiptSteps ==
  ASSUME [Next]_vars
  PROVE  \/ receipt' = receipt
         \/ \E r \in Runs : (RetainState(r) \/ ConfirmMigration(r)) /\ receipt' = receipt \cup {r}
<1>1. ASSUME NEW r \in Runs, \/ Admission(r) \/ Dispatching(r) \/ Input(r) \/ Failure(r)
                             \/ Time(r) \/ Clean(r)
      PROVE  receipt' = receipt
  BY <1>1
  DEF Admission, Start, Apply, Dispatching, Record, Launch, DispatchReturns, DispatchFails,
      Input, ClaimInput, ConsumeGrant, CheckInput, SelectBackend, ReleaseInput, AbandonInput,
      Failure, WorkerFails, SaveRecovery, RecoveryLost, ReportFailure, WorkerDies,
      Time, RunTimesOut, SessionEnds, ArtifactExpires, Clean
<1>2. ASSUME NEW r \in Runs, Execution(r) PROVE receipt' = receipt
  BY <1>2
  DEF Execution, Validate, Execute, Stage, LockState, WriteState, UnlockState,
      PrepareMigration, CompleteMigration, SaveArtifact, PlanSucceeds, ApplySucceeds,
      LockRemote, WriteRemote, UnlockRemote, CopyState
<1>3. ASSUME NEW r \in Runs, Cancel(r) \/ RevokeGrant(r) PROVE receipt' = receipt
  BY <1>3 DEF Cancel, RevokeGrant
<1>4. ASSUME NEW r \in Runs, RetainState(r) \/ ConfirmMigration(r)
      PROVE  receipt' = receipt \cup {r}
  BY <1>4 DEF RetainState, ConfirmMigration
<1>5. QED
  BY <1>1, <1>2, <1>3, <1>4 DEF Next, vars, ExpireRuns, ApiRestarts, CliWrite, Owner

\* What ReconciledAtRest says of a reconciled run.
AtRest(r) ==
  /\ worker[r].pc = "done"
  /\ r \notin recovery
  /\ run[r].status \in {"failed", "succeeded"}
  /\ state[K(r)].lock # r

\* What settles the Apply r leaves it at rest.
LEMMA SettledAtRest ==
  ASSUME TypeOK, Linked, Runners, NEW r \in Runs, RetainState(r) \/ ConfirmMigration(r)
  PROVE  AtRest(r)'
<1>1. /\ run \in [Runs -> RunRow] /\ run[r] \in RunRow /\ K(r) \in Keys
      /\ run[r].error \in {"apply_failed", "state_failed"}
      /\ r \notin recovery /\ state[K(r)].lock = NULL
  BY DEF TypeOK, Linked, RetainState, ConfirmMigration, Reconcilable
<1>2. worker[r].pc = "done" /\ r # NULL
  BY <1>1, SetsAssumption DEF Runners, RunnerOf
<1>3. worker' = worker /\ recovery' = recovery
  BY DEF RetainState, ConfirmMigration
<1>4. /\ run'[r].key = K(r) /\ run'[r].status \in {"failed", "succeeded"}
      /\ state'[K(r)].lock = NULL
  <2>1. CASE RetainState(r)
    BY <1>1, <2>1 DEF RetainState, RunRow, K
  <2>2. CASE ConfirmMigration(r)
    <3>1. run'[r].key = K(r) /\ run'[r].status = "succeeded"
      BY <1>1, <2>2 DEF ConfirmMigration, RunRow, K
    <3>2. state'[K(r)] = Switched(K(r))
      BY <1>1, <2>2 DEF ConfirmMigration, TypeOK
    <3>3. QED
      BY <1>1, <3>1, <3>2, SwitchedContent
  <2>3. QED
    BY <2>1, <2>2
<1>5. QED
  BY <1>1, <1>2, <1>3, <1>4 DEF AtRest, K

LEMMA AtRestStep ==
  ASSUME TypeOK, Linked, Runners, [Next]_vars, NEW x \in Runs, AtRest(x)
  PROVE  AtRest(x)'
<1>1. worker'[x].pc = "done"
  BY StoppedStep DEF AtRest, Stopped
<1>2. x \notin recovery'
  BY RecoverySteps DEF AtRest, SaveRecovery
<1>3. PICK k \in Keys : k = K(x)
  BY DEF AtRest, Linked
<1>4. Bound(x) /\ run'[x].status \in {"failed", "succeeded"}
  BY RunStep DEF AtRest, Bound, Forward, Admitted, Live, Terminal
<1>5. state'[k].lock # x
  <2>1. state[k] \in StateRow /\ state[k].lock # x /\ x # NULL
    BY <1>3, SetsAssumption DEF AtRest, TypeOK
  <2>2. ASSUME NEW r \in Runs, Relocked(r, k) PROVE state'[k].lock # x
    BY <2>1, <2>2 DEF Relocked, AtRest
  <2>3. ASSUME NEW r \in Runs, Written(r, k) PROVE state'[k].lock = state[k].lock
    BY <2>1, <2>3, StoredContent DEF Written
  <2>4. ASSUME NEW r \in Runs, Moved(r, k) PROVE state'[k].lock = state[k].lock
    BY <2>4, SwitchedContent DEF Moved
  <2>5. QED
    BY <2>1, <2>2, <2>3, <2>4, StateStep, RefreshedContent DEF StateMove
<1>6. QED
  BY <1>1, <1>2, <1>3, <1>4, <1>5 DEF AtRest, Bound, K

\* Reconciliation settles an Apply only when its runner has stopped for good, its lock
\* is released and no State that it failed to write waits to be recovered; and nothing
\* of it comes back: the error the runner reported is the last thing it does.
THEOREM ReconciledRest == Spec => []ReconciledAtRest
<1> DEFINE Inv == TypeOK /\ Linked /\ Runners /\ ReconciledAtRest
<1>1. Init => Inv
  <2>1. Init => Runners
    BY DEF Init, NoRun, Runners, RunnerOf, Busy
  <2>2. Init => ReconciledAtRest
    BY DEF Init, ReconciledAtRest
  <2>3. QED
    BY <2>1, <2>2, InitType, LinkedInit
<1>2. ASSUME Inv, [Next]_vars PROVE ReconciledAtRest'
  <2>1. ASSUME NEW x \in receipt' PROVE AtRest(x)'
    <3>1. CASE x \in receipt
      <4>1. x \in Runs /\ AtRest(x)
        BY <1>2, <3>1 DEF TypeOK, ReconciledAtRest, AtRest
      <4>2. QED
        BY <1>2, <4>1, AtRestStep
    <3>2. CASE x \notin receipt
      <4>1. x \in Runs /\ (RetainState(x) \/ ConfirmMigration(x))
        BY <1>2, <2>1, <3>2, ReceiptSteps
      <4>2. QED
        BY <1>2, <4>1, SettledAtRest
    <3>3. QED
      BY <3>1, <3>2
  <2>2. QED
    BY <2>1 DEF ReconciledAtRest, AtRest
<1>3. Inv /\ [Next]_vars => Inv'
  BY <1>2, TypeStep, LinkedStep, RunnersStep
<1>4. QED
  BY <1>1, <1>3, PTL DEF Spec
=============================================================================
