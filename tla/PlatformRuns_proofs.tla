------------------------ MODULE PlatformRuns_proofs ------------------------
(* Theorems about PlatformRuns, for every value of its constants. *)
EXTENDS PlatformRuns, TLAPS

---------------------------------------------------------------------------
(* Types of the helpers *)

\* Every admitted run is of one landing zone, and every Apply of one plan.
Linked ==
  \A r \in Runs :
    /\ run[r].status # "none" => K(r) \in Keys
    /\ run[r].op = "apply" => run[r].plan \in Runs

LEMMA InitType == Init => TypeOK
<1> SUFFICES ASSUME Init PROVE TypeOK
  OBVIOUS
<1> USE SetsAssumption, BoundsAssumption
<1>1. run \in [Runs -> RunRow]
  BY DEF Init, NoRun, RunRow, Live, Terminal, NoVersion
<1>2. FreshState \in StateRow /\ [FreshState EXCEPT !.s3 = TRUE] \in StateRow
  BY DEF FreshState, StateRow
<1>3. state \in [Keys -> StateRow]
  BY <1>2 DEF Init
<1>4. remote \in [Keys -> RemoteObject]
  BY DEF Init, RemoteObject, Docs
<1>5. QED
  BY <1>1, <1>3, <1>4 DEF Init, TypeOK, GrantRow, WorkerRow, WorkerPc, Locations

LEMMA RefreshedType ==
  ASSUME TypeOK, NEW k \in Keys
  PROVE  Refreshed(k) \in StateRow
<1>1. state[k] \in StateRow /\ remote[k].etag \in Nat
  BY DEF TypeOK, RemoteObject
<1>2. PICK v \in Nat : v = state[k].version + 1
  BY <1>1 DEF StateRow
<1>3. QED
  BY <1>1, <1>2 DEF Refreshed, StateRow

LEMMA SwitchedType ==
  ASSUME TypeOK, NEW k \in Keys
  PROVE  Switched(k) \in StateRow
<1>1. state[k] \in StateRow /\ remote[k].etag \in Nat
  BY DEF TypeOK, RemoteObject
<1>2. PICK v \in Nat : v = state[k].version + 1
  BY <1>1 DEF StateRow
<1>3. QED
  BY <1>1, <1>2 DEF Switched, StateRow

LEMMA StoredType ==
  ASSUME NEW row \in StateRow, NEW d \in Docs
  PROVE  Stored(row, d) \in StateRow
<1>1. PICK v \in Nat : v = row.version + 1
  BY DEF StateRow
<1>2. QED
  BY <1>1 DEF Stored, StateRow

LEMMA OverwrittenType ==
  ASSUME NEW object \in RemoteObject, NEW d \in Docs \cup {NULL}
  PROVE  Overwritten(object, d) \in RemoteObject
<1>1. PICK n \in Nat : n = object.etag + 1
  BY DEF RemoteObject
<1>2. QED
  BY <1>1 DEF Overwritten, RemoteObject

LEMMA EndedType ==
  ASSUME NEW row \in RunRow,
         NEW error \in {"none", "other", "apply_failed", "state_failed", "timed_out", "runner_unavailable"}
  PROVE  Ended(row, error) \in RunRow
<1>1. PICK st \in Terminal : st = IF row.op = "apply" THEN "recovery_required" ELSE "failed"
  BY DEF Terminal
<1>2. [row EXCEPT !.status = st, !.error = error] \in RunRow
  BY DEF RunRow
<1>3. QED
  BY <1>1, <1>2 DEF Ended

LEMMA ErrorOfType == \A r : ErrorOf(r) \in {"other", "apply_failed", "state_failed"}
BY DEF ErrorOf

LEMMA FailingType ==
  ASSUME NEW e \in {"none", "other", "apply_failed", "state_failed"}
  PROVE  Failing(e) \in WorkerRow /\ Gone \in WorkerRow
BY DEF Failing, Gone, WorkerRow, WorkerPc

LEMMA WorkerAt ==
  ASSUME TypeOK, NEW r \in Runs, NEW pc \in WorkerPc
  PROVE  [worker[r] EXCEPT !.pc = pc] \in WorkerRow
BY DEF TypeOK, WorkerRow

LEMMA ReplyType ==
  ASSUME TypeOK, NEW r \in Runs, NEW ack \in BOOLEAN, NEW pc \in WorkerPc, Reply(r, ack, pc)
  PROVE  worker' \in [Runs -> WorkerRow]
<1>1. Failing(ErrorOf(r)) \in WorkerRow /\ Gone \in WorkerRow
  BY FailingType, ErrorOfType
<1>2. [worker[r] EXCEPT !.pc = pc] \in WorkerRow
  BY WorkerAt
<1>3. QED
  BY <1>1, <1>2 DEF Reply, TypeOK

LEMMA StageType ==
  ASSUME TypeOK, NEW r \in Runs, NEW ack \in BOOLEAN, NEW at, NEW previous,
         NEW next \in Live, NEW pc \in WorkerPc, Stage(r, ack, at, previous, next, pc)
  PROVE  TypeOK'
<1>1. worker' \in [Runs -> WorkerRow]
  BY ReplyType DEF Stage
<1>2. [run[r] EXCEPT !.status = next] \in RunRow
  BY DEF TypeOK, RunRow
<1>3. QED
  BY <1>1, <1>2 DEF TypeOK, Stage

---------------------------------------------------------------------------
(* Every action keeps the types *)

LEMMA AdmissionType ==
  ASSUME TypeOK, NEW r \in Runs, Admission(r)
  PROVE  TypeOK'
<1> USE SetsAssumption
<1>1. ASSUME NEW u \in Owners, NEW k \in Keys, Start(r, u, k) PROVE TypeOK'
  <2>1. Refreshed(k) \in StateRow
    BY RefreshedType
  <2>2. state' \in [Keys -> StateRow]
    BY <1>1, <2>1 DEF TypeOK, Start
  <2>3. [NoRun EXCEPT !.status = "starting", !.owner = u, !.key = k,
                      !.base = Refreshed(k).version] \in RunRow
    BY <2>1 DEF RunRow, NoRun, Live, Terminal, NoVersion, StateRow
  <2>4. run' \in [Runs -> RunRow]
    BY <1>1, <2>3 DEF TypeOK, Start, Admit
  <2>5. QED
    BY <1>1, <2>2, <2>4 DEF TypeOK, Start, Admit
<1>2. ASSUME NEW p \in Runs, Apply(r, p) PROVE TypeOK'
  <2>1. run[p] \in RunRow
    BY DEF TypeOK
  <2>a. PICK owner \in Owners \cup {NULL}, key \in Keys \cup {NULL}, base \in Nat :
          owner = run[p].owner /\ key = K(p) /\ base = run[p].base
    BY <2>1 DEF RunRow, K
  <2>b. [NoRun EXCEPT !.status = "starting", !.op = "apply", !.plan = p,
                      !.owner = owner, !.key = key, !.base = base] \in RunRow
    BY DEF RunRow, NoRun, Live, NoVersion
  <2>2. [NoRun EXCEPT !.status = "starting", !.op = "apply", !.plan = p,
                      !.owner = run[p].owner, !.key = K(p), !.base = run[p].base] \in RunRow
    BY <2>a, <2>b
  <2>3. run' \in [Runs -> RunRow]
    BY <1>2, <2>2 DEF TypeOK, Apply, Admit
  <2>4. QED
    BY <1>2, <2>3 DEF TypeOK, Apply, Admit
<1>3. QED
  BY <1>1, <1>2 DEF Admission

LEMMA DispatchingType ==
  ASSUME TypeOK, NEW r \in Runs, Dispatching(r)
  PROVE  TypeOK'
<1>1. run[r] \in RunRow
  BY DEF TypeOK
<1>2. ASSUME NEW d \in Droplets, Record(r, d) PROVE TypeOK'
  <2>1. [run[r] EXCEPT !.droplet = d] \in RunRow
    BY <1>1 DEF RunRow
  <2>2. QED
    BY <1>2, <2>1 DEF TypeOK, Record
<1>3. CASE Launch(r)
  BY <1>3, WorkerAt DEF TypeOK, Launch, WorkerPc
<1>4. CASE DispatchReturns(r)
  BY <1>4 DEF TypeOK, DispatchReturns
<1>5. CASE DispatchFails(r)
  BY <1>1, <1>5, EndedType DEF TypeOK, DispatchFails
<1>6. QED
  BY <1>2, <1>3, <1>4, <1>5 DEF Dispatching

LEMMA InputType ==
  ASSUME TypeOK, NEW r \in Runs, Input(r)
  PROVE  TypeOK'
<1>1. worker[r] \in WorkerRow /\ run[r] \in RunRow /\ grant[r] \in GrantRow
  BY DEF TypeOK
<1>2. Failing("other") \in WorkerRow
  BY FailingType
<1>3. CASE ClaimInput(r)
  <2>1. [run[r] EXCEPT !.claimed = TRUE, !.status = "initializing"] \in RunRow
    BY <1>1 DEF RunRow, Live
  <2>2. run' \in [Runs -> RunRow]
    BY <1>3, <2>1 DEF TypeOK, ClaimInput
  <2>3. worker' \in [Runs -> WorkerRow]
    <3>1. PICK pc \in WorkerPc :
            pc = IF worker[r].pc = "launched" THEN "waiting" ELSE worker[r].pc
      BY <1>1 DEF WorkerRow, WorkerPc
    <3>2. QED
      BY <1>3, <3>1, WorkerAt DEF TypeOK, ClaimInput
  <2>4. QED
    BY <1>3, <2>2, <2>3 DEF TypeOK, ClaimInput
<1>4. CASE ConsumeGrant(r)
  BY <1>1, <1>4 DEF TypeOK, ConsumeGrant, GrantRow
<1>5. CASE CheckInput(r)
  BY <1>5 DEF TypeOK, CheckInput
<1>6. CASE SelectBackend(r)
  BY <1>6 DEF TypeOK, SelectBackend, Locations
<1>7. ASSUME NEW ack \in BOOLEAN, ReleaseInput(r, ack) PROVE TypeOK'
  <2>1. [worker[r] EXCEPT !.pc = "ready", !.creds = input[r]] \in WorkerRow
    BY <1>1, <1>7 DEF ReleaseInput, WorkerRow, WorkerPc
  <2>2. QED
    BY <1>1, <1>2, <1>7, <2>1 DEF TypeOK, ReleaseInput
<1>8. CASE AbandonInput(r)
  BY <1>2, <1>8 DEF TypeOK, AbandonInput
<1>9. QED
  BY <1>3, <1>4, <1>5, <1>6, <1>7, <1>8 DEF Input

LEMMA BootstrapType ==
  ASSUME TypeOK, NEW r \in Runs, NEW ack \in BOOLEAN,
         \/ LockState(r, ack)
         \/ \E d \in Docs : WriteState(r, ack, d)
         \/ UnlockState(r, ack)
         \/ PrepareMigration(r, ack)
         \/ CompleteMigration(r, ack)
  PROVE  TypeOK'
<1>1. \A k \in Keys : state[k] \in StateRow
  BY DEF TypeOK
<1>2. CASE LockState(r, ack)
  <2>1. worker' \in [Runs -> WorkerRow]
    BY <1>2, ReplyType DEF LockState, WorkerPc
  <2>2. \A k \in Keys : [state[k] EXCEPT !.lock = r] \in StateRow
    BY <1>1 DEF StateRow
  <2>3. QED
    BY <1>2, <2>1, <2>2 DEF TypeOK, LockState
<1>3. ASSUME NEW d \in Docs, WriteState(r, ack, d) PROVE TypeOK'
  <2>1. worker' \in [Runs -> WorkerRow]
    BY <1>3, WorkerAt DEF TypeOK, WriteState, WorkerPc
  <2>2. state' \in [Keys -> StateRow]
    BY <1>1, <1>3, StoredType DEF TypeOK, WriteState
  <2>3. QED
    BY <1>3, <2>1, <2>2 DEF TypeOK, WriteState
<1>4. CASE UnlockState(r, ack)
  <2>1. worker' \in [Runs -> WorkerRow]
    BY <1>4, ReplyType DEF TypeOK, UnlockState, AfterUnlock, WorkerPc
  <2>2. \A k \in Keys : [state[k] EXCEPT !.lock = NULL] \in StateRow
    BY <1>1 DEF StateRow
  <2>3. QED
    BY <1>4, <2>1, <2>2 DEF TypeOK, UnlockState
<1>5. CASE PrepareMigration(r, ack)
  <2>1. worker' \in [Runs -> WorkerRow]
    BY <1>5, ReplyType DEF PrepareMigration, WorkerPc
  <2>2. \A k \in Keys : [state[k] EXCEPT !.pending = TRUE, !.migRun = r,
          !.migVersion = state[k].version, !.migDoc = state[k].doc] \in StateRow
    BY <1>1 DEF StateRow
  <2>3. state' \in [Keys -> StateRow]
    BY <1>5, <2>2 DEF TypeOK, PrepareMigration
  <2>4. QED
    BY <1>5, <2>1, <2>3 DEF TypeOK, PrepareMigration
<1>6. CASE CompleteMigration(r, ack)
  <2>1. worker' \in [Runs -> WorkerRow]
    BY <1>6, ReplyType DEF CompleteMigration, WorkerPc
  <2>2. state' \in [Keys -> StateRow]
    BY <1>6, SwitchedType DEF TypeOK, CompleteMigration
  <2>3. QED
    BY <1>6, <2>1, <2>2 DEF TypeOK, CompleteMigration
<1>7. QED
  BY <1>2, <1>3, <1>4, <1>5, <1>6

LEMMA RemoteType ==
  ASSUME TypeOK, NEW r \in Runs,
         \/ LockRemote(r)
         \/ \E d \in Docs : WriteRemote(r, d)
         \/ UnlockRemote(r)
         \/ CopyState(r)
  PROVE  TypeOK'
<1>1. \A k \in Keys : remote[k] \in RemoteObject /\ state[k].doc \in Docs \cup {NULL}
  BY DEF TypeOK, StateRow
<1>2. \A k \in Keys, l \in Runs \cup {NULL} : [remote[k] EXCEPT !.lock = l] \in RemoteObject
  BY <1>1 DEF RemoteObject
<1>3. CASE LockRemote(r)
  BY <1>2, <1>3, WorkerAt DEF TypeOK, LockRemote, WorkerPc
<1>4. ASSUME NEW d \in Docs, WriteRemote(r, d) PROVE TypeOK'
  BY <1>1, <1>4, OverwrittenType DEF TypeOK, WriteRemote
<1>5. CASE UnlockRemote(r)
  BY <1>2, <1>5, WorkerAt DEF TypeOK, UnlockRemote, WorkerPc
<1>6. CASE CopyState(r)
  BY <1>1, <1>6, OverwrittenType, WorkerAt DEF TypeOK, CopyState, WorkerPc
<1>7. QED
  BY <1>3, <1>4, <1>5, <1>6

LEMMA ResultType ==
  ASSUME TypeOK, Linked, NEW r \in Runs, NEW ack \in BOOLEAN,
         \/ \E verdict \in {"approvable", "blocked"} : SaveArtifact(r, ack, verdict)
         \/ PlanSucceeds(r, ack)
         \/ ApplySucceeds(r, ack)
  PROVE  TypeOK'
<1>1. run[r] \in RunRow
  BY DEF TypeOK
<1>2. ASSUME NEW verdict \in {"approvable", "blocked"}, SaveArtifact(r, ack, verdict)
      PROVE  TypeOK'
  <2>1. worker' \in [Runs -> WorkerRow]
    BY <1>2, ReplyType DEF SaveArtifact, WorkerPc
  <2>2. QED
    BY <1>2, <2>1 DEF TypeOK, SaveArtifact
<1>3. CASE PlanSucceeds(r, ack)
  <2>1. worker' \in [Runs -> WorkerRow]
    BY <1>3, ReplyType DEF PlanSucceeds, WorkerPc
  <2>2. [run[r] EXCEPT !.status = "succeeded"] \in RunRow
    BY <1>1 DEF RunRow, Terminal
  <2>3. QED
    BY <1>3, <2>1, <2>2 DEF TypeOK, PlanSucceeds
<1>4. CASE ApplySucceeds(r, ack)
  <2>1. worker' \in [Runs -> WorkerRow]
    BY <1>4, ReplyType DEF ApplySucceeds, WorkerPc
  <2>2. K(r) \in Keys
    BY <1>4 DEF Linked, ApplySucceeds
  <2>3. Refreshed(K(r)) \in StateRow
    BY <2>2, RefreshedType
  <2>4. [run[r] EXCEPT !.status = "succeeded", !.applied = AppliedVersion(K(r))] \in RunRow
    BY <1>1, <2>3 DEF AppliedVersion, RunRow, StateRow, Terminal
  <2>5. QED
    BY <1>4, <2>1, <2>3, <2>4 DEF TypeOK, ApplySucceeds
<1>5. QED
  BY <1>2, <1>3, <1>4

LEMMA FailureType ==
  ASSUME TypeOK, NEW r \in Runs, Failure(r)
  PROVE  TypeOK'
<1>1. worker[r] \in WorkerRow /\ run[r] \in RunRow
  BY DEF TypeOK
<1>2. CASE WorkerFails(r)
  <2>1. Failing(ErrorOf(r)) \in WorkerRow /\ Failing("other") \in WorkerRow
    BY FailingType, ErrorOfType
  <2>2. [worker[r] EXCEPT !.pc = "salvage"] \in WorkerRow
    BY WorkerAt DEF WorkerPc
  <2>3. worker' \in [Runs -> WorkerRow]
    BY <1>2, <2>1, <2>2 DEF TypeOK, WorkerFails
  <2>4. QED
    BY <1>2, <2>3 DEF TypeOK, WorkerFails
<1>3. CASE SaveRecovery(r)
  BY <1>3, FailingType DEF TypeOK, SaveRecovery
<1>4. CASE RecoveryLost(r)
  BY <1>4, FailingType DEF TypeOK, RecoveryLost
<1>5. CASE ReportFailure(r)
  <2>1. Ended(run[r], worker[r].error) \in RunRow
    BY <1>1, EndedType DEF WorkerRow
  <2>2. Gone \in WorkerRow
    BY FailingType
  <2>3. run' \in [Runs -> RunRow] /\ worker' \in [Runs -> WorkerRow]
    BY <1>5, <2>1, <2>2 DEF TypeOK, ReportFailure
  <2>4. QED
    BY <1>5, <2>3 DEF TypeOK, ReportFailure
<1>6. CASE WorkerDies(r)
  BY <1>6, FailingType DEF TypeOK, WorkerDies
<1>7. QED
  BY <1>2, <1>3, <1>4, <1>5, <1>6 DEF Failure

LEMMA OwnerType ==
  ASSUME TypeOK, Linked, NEW r \in Runs, Owner(r)
  PROVE  TypeOK'
<1>1. run[r] \in RunRow /\ grant[r] \in GrantRow
  BY DEF TypeOK
<1>2. [grant[r] EXCEPT !.revoked = TRUE] \in GrantRow
  BY <1>1 DEF GrantRow
<1>3. CASE Cancel(r)
  <2>1. [run[r] EXCEPT !.status = "cancelled", !.error = "cancelled"] \in RunRow
    BY <1>1 DEF RunRow, Terminal
  <2>2. QED
    BY <1>2, <1>3, <2>1 DEF TypeOK, Cancel
<1>4. CASE RevokeGrant(r)
  BY <1>2, <1>4 DEF TypeOK, RevokeGrant
<1>5. CASE RetainState(r)
  <2>1. [run[r] EXCEPT !.status = "failed"] \in RunRow
    BY <1>1 DEF RunRow, Terminal
  <2>2. QED
    BY <1>5, <2>1 DEF TypeOK, RetainState
<1>6. CASE ConfirmMigration(r)
  <2>1. K(r) \in Keys
    BY <1>6 DEF Linked, ConfirmMigration, Reconcilable
  <2>2. Switched(K(r)) \in StateRow
    BY <2>1, SwitchedType
  <2>3. [run[r] EXCEPT !.status = "succeeded", !.error = "none",
                       !.applied = Switched(K(r)).version] \in RunRow
    BY <1>1, <2>2 DEF RunRow, StateRow, Terminal
  <2>4. QED
    BY <1>6, <2>2, <2>3 DEF TypeOK, ConfirmMigration
<1>7. QED
  BY <1>3, <1>4, <1>5, <1>6 DEF Owner

LEMMA TimeType ==
  ASSUME TypeOK, NEW r \in Runs, Time(r)
  PROVE  TypeOK'
<1>1. [run[r] EXCEPT !.expired = TRUE] \in RunRow
  <2>1. run[r] \in RunRow
    BY DEF TypeOK
  <2>2. QED
    BY <2>1 DEF RunRow
<1>2. [grant[r] EXCEPT !.expired = TRUE] \in GrantRow
  BY DEF TypeOK, GrantRow
<1>3. CASE RunTimesOut(r)
  BY <1>1, <1>2, <1>3 DEF TypeOK, RunTimesOut
<1>4. CASE SessionEnds(r)
  BY <1>2, <1>4 DEF TypeOK, SessionEnds
<1>5. CASE ArtifactExpires(r)
  BY <1>5 DEF TypeOK, ArtifactExpires
<1>6. QED
  BY <1>3, <1>4, <1>5 DEF Time

LEMMA MaintenanceType ==
  ASSUME TypeOK, ExpireRuns \/ ApiRestarts \/ \E r \in Runs : Clean(r)
  PROVE  TypeOK'
<1>1. \A r \in Runs : Ended(run[r], "timed_out") \in RunRow
  BY EndedType DEF TypeOK
<1>2. CASE ExpireRuns
  BY <1>1, <1>2 DEF TypeOK, ExpireRuns
<1>3. CASE ApiRestarts
  BY <1>3, FailingType DEF TypeOK, ApiRestarts
<1>4. ASSUME NEW r \in Runs, Clean(r) PROVE TypeOK'
  <2>1. [run[r] EXCEPT !.cleaned = TRUE] \in RunRow
    <3>1. run[r] \in RunRow
      BY DEF TypeOK
    <3>2. QED
      BY <3>1 DEF RunRow
  <2>2. run' \in [Runs -> RunRow]
    BY <1>4, <2>1 DEF TypeOK, Clean
  <2>3. worker' \in [Runs -> WorkerRow]
    BY <1>4, FailingType DEF TypeOK, Clean
  <2>4. QED
    BY <1>4, <2>2, <2>3 DEF TypeOK, Clean
<1>5. QED
  BY <1>2, <1>3, <1>4

LEMMA CliWriteType ==
  ASSUME TypeOK, NEW k \in Keys, CliWrite(k)
  PROVE  TypeOK'
<1>1. remote[k] \in RemoteObject
  BY DEF TypeOK
<1>2. [by |-> Cli, serial |-> remote[k].doc.serial + 1] \in Docs
  BY <1>1, BoundsAssumption DEF CliWrite, RemoteObject, Docs
<1>3. QED
  BY <1>1, <1>2, OverwrittenType DEF TypeOK, CliWrite

LEMMA ExecutionType ==
  ASSUME TypeOK, Linked, NEW r \in Runs, Execution(r)
  PROVE  TypeOK'
<1>1. ASSUME NEW ack \in BOOLEAN, Validate(r, ack) PROVE TypeOK'
  BY <1>1, StageType DEF Validate, Live, WorkerPc
<1>2. ASSUME NEW ack \in BOOLEAN, Execute(r, ack) PROVE TypeOK'
  <2>1. PICK next \in Live : next = IF run[r].op = "apply" THEN "applying" ELSE "planning"
    BY DEF Live
  <2>2. Stage(r, ack, "validated", "validating", next, "running")
    BY <1>2, <2>1 DEF Execute
  <2>3. QED
    BY <2>2, StageType DEF WorkerPc
<1>3. QED
  BY <1>1, <1>2, BootstrapType, RemoteType, ResultType DEF Execution

LEMMA TypeStep == TypeOK /\ Linked /\ [Next]_vars => TypeOK'
<1> SUFFICES ASSUME TypeOK, Linked, [Next]_vars PROVE TypeOK'
  OBVIOUS
<1>1. CASE UNCHANGED vars
  BY <1>1 DEF vars, TypeOK
<1>2. CASE Next
  BY <1>2, AdmissionType, DispatchingType, InputType, ExecutionType, FailureType, OwnerType,
     TimeType, MaintenanceType, CliWriteType DEF Next
<1>3. QED
  BY <1>1, <1>2

---------------------------------------------------------------------------
(* What a step does to a row of plan_runs *)

\* What start() and apply() wrote stays.
Bound(x) ==
  /\ run'[x].op = run[x].op /\ run'[x].owner = run[x].owner /\ run'[x].key = run[x].key
  /\ run'[x].plan = run[x].plan /\ run'[x].base = run[x].base

\* A status never comes back: only a live run changes it, or a receipt settles an Apply.
Forward(x) ==
  \/ run'[x].status = run[x].status
  \/ run[x].status \in Live \ {"applying"} /\ run'[x].status \in Live
  \/ run[x].status \in Live /\ run'[x].status \in Terminal
  \/ /\ run[x].op = "apply" /\ run[x].status = "recovery_required"
     /\ run[x].error \in {"apply_failed", "state_failed"}
     /\ run'[x].status \in Terminal

LEMMA EndedBound ==
  ASSUME NEW row \in RunRow, NEW error
  PROVE  LET e == Ended(row, error)
         IN  /\ e.op = row.op /\ e.owner = row.owner /\ e.key = row.key
             /\ e.plan = row.plan /\ e.base = row.base
             /\ e.status \in Terminal /\ e.error = error
<1>1. PICK st \in Terminal : st = IF row.op = "apply" THEN "recovery_required" ELSE "failed"
  BY DEF Terminal
<1>2. Ended(row, error) = [row EXCEPT !.status = st, !.error = error]
  BY <1>1 DEF Ended
<1>3. QED
  BY <1>2 DEF RunRow

LEMMA RowStep ==
  ASSUME TypeOK, NEW r \in Runs,
         \/ Dispatching(r) \/ Input(r) \/ Execution(r) \/ Failure(r)
         \/ Owner(r) \/ Time(r) \/ Clean(r)
  PROVE  \A x \in Runs : Bound(x) /\ Forward(x)
<1> SUFFICES ASSUME NEW x \in Runs PROVE Bound(x) /\ Forward(x)
  OBVIOUS
<1> USE DEF Bound, Forward
<1>1. run \in [Runs -> RunRow] /\ run[x] \in RunRow /\ run[r] \in RunRow
  BY DEF TypeOK
<1>2. CASE Dispatching(r)
  <2>1. ASSUME NEW d \in Droplets, Record(r, d) PROVE Bound(x) /\ Forward(x)
    BY <1>1, <2>1 DEF Record, RunRow
  <2>2. CASE Launch(r) \/ DispatchReturns(r)
    BY <2>2 DEF Launch, DispatchReturns
  <2>3. CASE DispatchFails(r)
    BY <1>1, <2>3, EndedBound DEF DispatchFails
  <2>4. QED
    BY <1>2, <2>1, <2>2, <2>3 DEF Dispatching
<1>3. CASE Input(r)
  <2>1. CASE ClaimInput(r)
    BY <1>1, <2>1 DEF ClaimInput, RunRow, Live
  <2>2. CASE UNCHANGED run
    BY <2>2
  <2>3. QED
    BY <1>3, <2>1, <2>2
    DEF Input, ConsumeGrant, CheckInput, SelectBackend, ReleaseInput, AbandonInput
<1>4. CASE Execution(r)
  <2>1. ASSUME NEW ack \in BOOLEAN, Validate(r, ack) PROVE Bound(x) /\ Forward(x)
    BY <1>1, <2>1 DEF Validate, Stage, RunRow, Live
  <2>2. ASSUME NEW ack \in BOOLEAN, Execute(r, ack) PROVE Bound(x) /\ Forward(x)
    <3>1. PICK next \in Live : next = IF run[r].op = "apply" THEN "applying" ELSE "planning"
      BY DEF Live
    <3>2. Stage(r, ack, "validated", "validating", next, "running")
      BY <2>2, <3>1 DEF Execute
    <3>3. QED
      BY <1>1, <3>2 DEF Stage, RunRow, Live
  <2>3. ASSUME NEW ack \in BOOLEAN, PlanSucceeds(r, ack) PROVE Bound(x) /\ Forward(x)
    BY <1>1, <2>3 DEF PlanSucceeds, RunRow, Live, Terminal
  <2>4. ASSUME NEW ack \in BOOLEAN, ApplySucceeds(r, ack) PROVE Bound(x) /\ Forward(x)
    BY <1>1, <2>4 DEF ApplySucceeds, RunRow, Live, Terminal
  <2>5. CASE UNCHANGED run
    BY <2>5
  <2>6. QED
    BY <1>4, <2>1, <2>2, <2>3, <2>4, <2>5
    DEF Execution, LockState, WriteState, UnlockState, PrepareMigration, CompleteMigration,
        SaveArtifact, LockRemote, WriteRemote, UnlockRemote, CopyState
<1>5. CASE Failure(r)
  <2>1. CASE ReportFailure(r)
    BY <1>1, <2>1, EndedBound DEF ReportFailure, InTime
  <2>2. CASE UNCHANGED run
    BY <2>2
  <2>3. QED
    BY <1>5, <2>1, <2>2 DEF Failure, WorkerFails, SaveRecovery, RecoveryLost, WorkerDies
<1>6. CASE Owner(r)
  <2>1. CASE Cancel(r)
    BY <1>1, <2>1 DEF Cancel, RunRow, Terminal
  <2>2. CASE RevokeGrant(r)
    BY <2>2 DEF RevokeGrant
  <2>3. CASE RetainState(r)
    BY <1>1, <2>3 DEF RetainState, Reconcilable, RunRow, Terminal
  <2>4. CASE ConfirmMigration(r)
    BY <1>1, <2>4 DEF ConfirmMigration, Reconcilable, RunRow, Terminal
  <2>5. QED
    BY <1>6, <2>1, <2>2, <2>3, <2>4 DEF Owner
<1>7. CASE Time(r)
  BY <1>1, <1>7 DEF Time, RunTimesOut, SessionEnds, ArtifactExpires, RunRow
<1>8. CASE Clean(r)
  BY <1>1, <1>8 DEF Clean, RunRow
<1>9. QED
  BY <1>2, <1>3, <1>4, <1>5, <1>6, <1>7, <1>8

LEMMA OtherStep ==
  ASSUME TypeOK, ExpireRuns \/ ApiRestarts \/ \E k \in Keys : CliWrite(k)
  PROVE  \A x \in Runs : Bound(x) /\ Forward(x)
<1>1. CASE ExpireRuns
  BY <1>1, EndedBound DEF TypeOK, ExpireRuns, Overdue, Bound, Forward
<1>2. CASE UNCHANGED run
  BY <1>2 DEF Bound, Forward
<1>3. QED
  BY <1>1, <1>2 DEF ApiRestarts, CliWrite

\* A new row is a plan of one owner and one landing zone, or the Apply of a plan.
Admitted(r) ==
  /\ run[r].status = "none" /\ run'[r].status = "starting"
  /\ run'[r].key \in Keys
  /\ NoneActive(run'[r].owner, run'[r].key)
  /\ state'[run'[r].key].version = run'[r].base
  /\ \/ run'[r].op = "plan" /\ run'[r].plan = NULL
     \/ run'[r].op = "apply" /\ \E p \in Runs : Apply(r, p) /\ run'[r].plan = p

LEMMA AdmitStep ==
  ASSUME TypeOK, Linked, NEW r \in Runs, Admission(r)
  PROVE  Admitted(r) /\ \A x \in Runs \ {r} : run'[x] = run[x]
<1>1. ASSUME NEW u \in Owners, NEW k \in Keys, Start(r, u, k)
      PROVE  Admitted(r) /\ \A x \in Runs \ {r} : run'[x] = run[x]
  <2>1. PICK v \in Nat : v = Refreshed(k).version
    BY RefreshedType DEF StateRow
  <2>2. run' = [run EXCEPT ![r] = [NoRun EXCEPT !.status = "starting", !.owner = u,
                                                !.key = k, !.base = v]]
    BY <1>1, <2>1 DEF Start, Admit
  <2>3. state'[k].version = v
    BY <1>1, <2>1 DEF Start, TypeOK
  <2>4. QED
    BY <1>1, <2>2, <2>3 DEF Start, Admit, Admitted, TypeOK, NoRun
<1>2. ASSUME NEW p \in Runs, Apply(r, p)
      PROVE  Admitted(r) /\ \A x \in Runs \ {r} : run'[x] = run[x]
  <2>1. run' = [run EXCEPT ![r] = [NoRun EXCEPT !.status = "starting", !.op = "apply",
                  !.plan = p, !.owner = run[p].owner, !.key = K(p), !.base = run[p].base]]
    BY <1>2 DEF Apply, Admit
  <2>2. /\ run'[r].status = "starting" /\ run'[r].op = "apply" /\ run'[r].plan = p
        /\ run'[r].owner = run[p].owner /\ run'[r].key = K(p) /\ run'[r].base = run[p].base
    BY <2>1 DEF TypeOK, NoRun
  <2>3. K(p) \in Keys /\ state[K(p)].version = run[p].base /\ state' = state
    BY <1>2 DEF Apply, Approved, Linked
  <2>4. NoneActive(run[p].owner, K(p)) /\ run[r].status = "none"
    BY <1>2 DEF Apply, Admit
  <2>5. QED
    BY <1>2, <2>1, <2>2, <2>3, <2>4 DEF Admitted, TypeOK
<1>3. QED
  BY <1>1, <1>2 DEF Admission

\* Every step admits one run and leaves the others, or moves rows forward.
LEMMA RunStep ==
  ASSUME TypeOK, Linked, [Next]_vars
  PROVE  \/ \E r \in Runs : Admission(r) /\ Admitted(r)
                             /\ \A x \in Runs \ {r} : run'[x] = run[x]
         \/ \A x \in Runs : Bound(x) /\ Forward(x)
<1>1. CASE UNCHANGED vars
  BY <1>1 DEF vars, Bound, Forward
<1>2. CASE Next
  BY <1>2, AdmitStep, RowStep, OtherStep DEF Next
<1>3. QED
  BY <1>1, <1>2

LEMMA LinkedStep == TypeOK /\ Linked /\ [Next]_vars => Linked'
<1> SUFFICES ASSUME TypeOK, Linked, [Next]_vars PROVE Linked'
  OBVIOUS
<1>1. ASSUME NEW r \in Runs, Admitted(r), \A x \in Runs \ {r} : run'[x] = run[x]
      PROVE  Linked'
  BY <1>1 DEF Admitted, Linked, K
<1>2. CASE \A x \in Runs : Bound(x) /\ Forward(x)
  BY <1>2 DEF Bound, Forward, Linked, K, Live
<1>3. QED
  BY <1>1, <1>2, RunStep

LEMMA LinkedInit == Init => Linked
BY DEF Init, NoRun, Linked

---------------------------------------------------------------------------
(* Type correctness *)

\* Every row, object and process of the model stays within its type: the columns
\* and enumerations of lzc.plan_runs, its grants, artifacts and State rows.
THEOREM TypeCorrect == Spec => []TypeOK
<1>1. Init => TypeOK /\ Linked
  BY InitType, LinkedInit
<1>2. (TypeOK /\ Linked) /\ [Next]_vars => (TypeOK /\ Linked)'
  BY TypeStep, LinkedStep
<1>3. QED
  BY <1>1, <1>2, PTL DEF Spec

---------------------------------------------------------------------------
(* One writer per landing zone *)

\* The partial unique indexes of migration 017.
OneActive ==
  \A r, o \in Runs :
    r # o /\ run[r].status \in Active /\ run[o].status \in Active => K(r) # K(o)

LEMMA OneActiveStep == TypeOK /\ Linked /\ OneActive /\ [Next]_vars => OneActive'
<1> SUFFICES ASSUME TypeOK, Linked, OneActive, [Next]_vars PROVE OneActive'
  OBVIOUS
<1>1. ASSUME NEW r \in Runs, Admitted(r), \A x \in Runs \ {r} : run'[x] = run[x]
      PROVE  OneActive'
  BY <1>1 DEF Admitted, NoneActive, OneActive, K
<1>2. CASE \A x \in Runs : Bound(x) /\ Forward(x)
  BY <1>2 DEF Bound, Forward, OneActive, K, Active
<1>3. QED
  BY <1>1, <1>2, RunStep

Busy == {"running", "locked", "finished", "prepared", "copying", "copied", "moved",
         "switched", "salvage"}

\* A runner that may change something belongs to an Apply that is applying or
\* unconfirmed; a reported failure of an Apply is the last thing its runner does.
RunnerOf(x) ==
  /\ run[x].op = "apply" /\ worker[x].pc \in Busy =>
       run[x].status \in {"applying", "recovery_required"}
  /\ run[x].error \in {"apply_failed", "state_failed"} => worker[x].pc = "done"
  /\ run[x].status = "none" => worker[x].pc = "none" /\ run[x].droplet = NULL

Runners == \A x \in Runs : RunnerOf(x)

Untouched(x) == run'[x] = run[x] /\ worker'[x] = worker[x]

LEMMA UntouchedRunner == \A x : RunnerOf(x) /\ Untouched(x) => RunnerOf(x)'
BY DEF RunnerOf, Untouched

LEMMA ReplyEffect ==
  ASSUME TypeOK, NEW r \in Runs, NEW ack \in BOOLEAN, NEW pc \in WorkerPc, Reply(r, ack, pc)
  PROVE  worker'[r].pc \in {"failing", pc} /\ \A x \in Runs \ {r} : worker'[x] = worker[x]
BY DEF TypeOK, Reply, Failing, Gone, WorkerRow

LEMMA DispatchingRunner ==
  ASSUME TypeOK, NEW r \in Runs, RunnerOf(r), Dispatching(r)
  PROVE  RunnerOf(r)' /\ \A x \in Runs \ {r} : Untouched(x)
<1> USE DEF Untouched, RunnerOf
<1>1. run \in [Runs -> RunRow] /\ run[r] \in RunRow
      /\ worker \in [Runs -> WorkerRow] /\ worker[r] \in WorkerRow
  BY DEF TypeOK
<1>2. ASSUME NEW d \in Droplets, Record(r, d)
      PROVE  RunnerOf(r)' /\ \A x \in Runs \ {r} : Untouched(x)
  BY <1>1, <1>2 DEF Record, RunRow, InTime, Live
<1>3. CASE Launch(r)
  BY <1>1, <1>3 DEF Launch, RunRow, WorkerRow, Busy
<1>4. CASE DispatchReturns(r)
  BY <1>4 DEF DispatchReturns
<1>5. CASE DispatchFails(r)
  <2>1. CASE run[r].status \in Live
    <3>1. run'[r] = Ended(run[r], "runner_unavailable") /\ worker' = worker
          /\ \A x \in Runs \ {r} : run'[x] = run[x]
      BY <1>1, <1>5, <2>1 DEF DispatchFails
    <3>2. /\ run'[r].op = run[r].op /\ run'[r].error = "runner_unavailable"
          /\ run'[r].status = IF run[r].op = "apply" THEN "recovery_required" ELSE "failed"
      BY <1>1, <3>1 DEF Ended, RunRow
    <3>3. QED
      BY <3>1, <3>2
  <2>2. CASE run[r].status \notin Live
    BY <1>5, <2>2 DEF DispatchFails
  <2>3. QED
    BY <2>1, <2>2
<1>6. QED
  BY <1>2, <1>3, <1>4, <1>5 DEF Dispatching

LEMMA InputRunner ==
  ASSUME TypeOK, NEW r \in Runs, RunnerOf(r), Input(r)
  PROVE  RunnerOf(r)' /\ \A x \in Runs \ {r} : Untouched(x)
<1> USE DEF Untouched, RunnerOf
<1>1. run \in [Runs -> RunRow] /\ run[r] \in RunRow
      /\ worker \in [Runs -> WorkerRow] /\ worker[r] \in WorkerRow
  BY DEF TypeOK
<1>2. CASE ClaimInput(r)
  <2>1. PICK pc \in WorkerPc :
          pc = IF worker[r].pc = "launched" THEN "waiting" ELSE worker[r].pc
    BY <1>1 DEF WorkerRow, WorkerPc
  <2>2. worker' = [worker EXCEPT ![r].pc = pc]
    BY <1>2, <2>1 DEF ClaimInput
  <2>3. worker'[r].pc = pc /\ \A x \in Runs \ {r} : worker'[x] = worker[x]
    BY <1>1, <2>2 DEF WorkerRow
  <2>4. run'[r] = [run[r] EXCEPT !.claimed = TRUE, !.status = "initializing"]
        /\ run[r].status = "starting" /\ \A x \in Runs \ {r} : run'[x] = run[x]
    BY <1>1, <1>2 DEF ClaimInput
  <2>5. run'[r].op = run[r].op /\ run'[r].error = run[r].error /\ run'[r].status = "initializing"
    BY <1>1, <2>4 DEF RunRow
  <2>6. QED
    BY <2>1, <2>3, <2>4, <2>5 DEF Busy
<1>3. CASE ConsumeGrant(r) \/ CheckInput(r) \/ SelectBackend(r)
  BY <1>3 DEF ConsumeGrant, CheckInput, SelectBackend
<1>4. ASSUME NEW ack \in BOOLEAN, ReleaseInput(r, ack)
      PROVE  RunnerOf(r)' /\ \A x \in Runs \ {r} : Untouched(x)
  BY <1>1, <1>4 DEF ReleaseInput, WorkerRow, Failing, Busy
<1>5. CASE AbandonInput(r)
  BY <1>1, <1>5 DEF AbandonInput, Failing, Busy
<1>6. QED
  BY <1>2, <1>3, <1>4, <1>5 DEF Input

LEMMA ExecutionRunner ==
  ASSUME TypeOK, NEW r \in Runs, RunnerOf(r), Execution(r)
  PROVE  RunnerOf(r)' /\ \A x \in Runs \ {r} : Untouched(x)
<1> USE DEF Untouched, RunnerOf
<1>1. run \in [Runs -> RunRow] /\ run[r] \in RunRow
      /\ worker \in [Runs -> WorkerRow] /\ worker[r] \in WorkerRow
  BY DEF TypeOK
<1>2. ASSUME NEW ack \in BOOLEAN, Validate(r, ack)
      PROVE  RunnerOf(r)' /\ \A x \in Runs \ {r} : Untouched(x)
  <2>1. worker[r].pc = "ready" /\ worker'[r].pc \in {"failing", "validated"}
        /\ \A x \in Runs \ {r} : worker'[x] = worker[x]
    BY <1>2, ReplyEffect DEF Validate, Stage, WorkerPc
  <2>2. run'[r].op = run[r].op /\ run'[r].error = run[r].error /\ run'[r].status = "validating"
        /\ \A x \in Runs \ {r} : run'[x] = run[x]
    BY <1>1, <1>2 DEF Validate, Stage, RunRow
  <2>3. QED
    BY <2>1, <2>2 DEF Busy
<1>3. ASSUME NEW ack \in BOOLEAN, Execute(r, ack)
      PROVE  RunnerOf(r)' /\ \A x \in Runs \ {r} : Untouched(x)
  <2>1. worker[r].pc = "validated" /\ worker'[r].pc \in {"failing", "running"}
        /\ \A x \in Runs \ {r} : worker'[x] = worker[x]
    BY <1>3, ReplyEffect DEF Execute, Stage, WorkerPc
  <2>2. PICK next \in Live : next = IF run[r].op = "apply" THEN "applying" ELSE "planning"
    BY DEF Live
  <2>3. run'[r].op = run[r].op /\ run'[r].error = run[r].error /\ run'[r].status = next
        /\ \A x \in Runs \ {r} : run'[x] = run[x]
    BY <1>1, <1>3, <2>2 DEF Execute, Stage, RunRow
  <2>4. run[r].status = "validating"
    BY <1>3 DEF Execute, Stage
  <2>5. QED
    BY <2>1, <2>2, <2>3, <2>4 DEF Busy
<1>4. ASSUME NEW ack \in BOOLEAN, PlanSucceeds(r, ack)
      PROVE  RunnerOf(r)' /\ \A x \in Runs \ {r} : Untouched(x)
  <2>1. worker[r].pc = "uploaded" /\ worker'[r].pc \in {"failing", "done"}
        /\ \A x \in Runs \ {r} : worker'[x] = worker[x]
    BY <1>4, ReplyEffect DEF PlanSucceeds, WorkerPc
  <2>2. run'[r].op = run[r].op /\ run'[r].error = run[r].error /\ run'[r].status = "succeeded"
        /\ \A x \in Runs \ {r} : run'[x] = run[x]
    BY <1>1, <1>4 DEF PlanSucceeds, RunRow
  <2>3. QED
    BY <2>1, <2>2 DEF Busy
<1>5. ASSUME NEW ack \in BOOLEAN, ApplySucceeds(r, ack)
      PROVE  RunnerOf(r)' /\ \A x \in Runs \ {r} : Untouched(x)
  <2>1. worker[r].pc \in {"switched", "finished"} /\ worker'[r].pc \in {"failing", "done"}
        /\ \A x \in Runs \ {r} : worker'[x] = worker[x]
    BY <1>5, ReplyEffect DEF ApplySucceeds, WorkerPc
  <2>2. run'[r].op = run[r].op /\ run'[r].error = run[r].error /\ run'[r].status = "succeeded"
        /\ \A x \in Runs \ {r} : run'[x] = run[x]
    BY <1>1, <1>5 DEF ApplySucceeds, RunRow
  <2>3. QED
    BY <2>1, <2>2 DEF Busy
<1>6. ASSUME NEW ack \in BOOLEAN,
             \/ LockState(r, ack) \/ \E d \in Docs : WriteState(r, ack, d)
             \/ UnlockState(r, ack) \/ PrepareMigration(r, ack) \/ CompleteMigration(r, ack)
             \/ \E verdict \in {"approvable", "blocked"} : SaveArtifact(r, ack, verdict)
      PROVE  RunnerOf(r)' /\ \A x \in Runs \ {r} : Untouched(x)
  <2>1. run' = run /\ worker[r].pc \in Busy
    BY <1>6 DEF LockState, WriteState, UnlockState, PrepareMigration, CompleteMigration,
                SaveArtifact, Busy
  <2>2. /\ worker' = worker \/ worker'[r].pc # "none"
        /\ \A x \in Runs \ {r} : worker'[x] = worker[x]
    <3>1. CASE LockState(r, ack)
      BY <3>1, ReplyEffect DEF LockState, WorkerPc
    <3>2. ASSUME NEW d \in Docs, WriteState(r, ack, d)
          PROVE  /\ worker' = worker \/ worker'[r].pc # "none"
                 /\ \A x \in Runs \ {r} : worker'[x] = worker[x]
      BY <1>1, <3>2 DEF WriteState, WorkerRow
    <3>3. CASE UnlockState(r, ack)
      BY <3>3, ReplyEffect DEF UnlockState, AfterUnlock, WorkerPc
    <3>4. CASE PrepareMigration(r, ack)
      BY <3>4, ReplyEffect DEF PrepareMigration, WorkerPc
    <3>5. CASE CompleteMigration(r, ack)
      BY <3>5, ReplyEffect DEF CompleteMigration, WorkerPc
    <3>6. ASSUME NEW verdict \in {"approvable", "blocked"}, SaveArtifact(r, ack, verdict)
          PROVE  /\ worker' = worker \/ worker'[r].pc # "none"
                 /\ \A x \in Runs \ {r} : worker'[x] = worker[x]
      BY <3>6, ReplyEffect DEF SaveArtifact, WorkerPc
    <3>7. QED
      BY <1>6, <3>1, <3>2, <3>3, <3>4, <3>5, <3>6
  <2>3. QED
    BY <2>1, <2>2 DEF Busy
<1>7. CASE LockRemote(r) \/ (\E d \in Docs : WriteRemote(r, d)) \/ UnlockRemote(r) \/ CopyState(r)
  BY <1>1, <1>7 DEF LockRemote, WriteRemote, UnlockRemote, CopyState, WorkerRow, Busy
<1>8. QED
  BY <1>2, <1>3, <1>4, <1>5, <1>6, <1>7 DEF Execution

LEMMA FailureRunner ==
  ASSUME TypeOK, NEW r \in Runs, RunnerOf(r), Failure(r)
  PROVE  RunnerOf(r)' /\ \A x \in Runs \ {r} : Untouched(x)
<1> USE DEF Untouched, RunnerOf
<1>1. run \in [Runs -> RunRow] /\ run[r] \in RunRow
      /\ worker \in [Runs -> WorkerRow] /\ worker[r] \in WorkerRow
  BY DEF TypeOK
<1>2. CASE WorkerFails(r)
  <2>1. run' = run /\ worker[r].pc \notin {"none", "done"}
    BY <1>2 DEF WorkerFails
  <2>2. \/ worker'[r].pc = "failing"
        \/ worker'[r].pc = "salvage" /\ worker[r].pc = "locked"
    BY <1>1, <1>2 DEF WorkerFails, Failing, WorkerRow
  <2>3. \A x \in Runs \ {r} : worker'[x] = worker[x]
    BY <1>1, <1>2 DEF WorkerFails
  <2>4. QED
    BY <2>1, <2>2, <2>3 DEF Busy
<1>3. CASE SaveRecovery(r) \/ RecoveryLost(r)
  BY <1>1, <1>3 DEF SaveRecovery, RecoveryLost, Failing, Busy
<1>4. CASE ReportFailure(r)
  <2>1. worker[r].pc = "failing" /\ worker'[r].pc = "done"
        /\ \A x \in Runs \ {r} : worker'[x] = worker[x]
    BY <1>1, <1>4 DEF ReportFailure, Gone
  <2>2. \A x \in Runs \ {r} : run'[x] = run[x]
    BY <1>1, <1>4 DEF ReportFailure
  <2>3. run'[r].status # "none"
    BY <1>1, <1>4, <2>1, EndedBound DEF ReportFailure, Terminal
  <2>4. QED
    BY <2>1, <2>2, <2>3 DEF Busy
<1>5. CASE WorkerDies(r)
  BY <1>1, <1>5 DEF WorkerDies, Gone, Busy
<1>6. QED
  BY <1>2, <1>3, <1>4, <1>5 DEF Failure

LEMMA OwnerRunner ==
  ASSUME TypeOK, NEW r \in Runs, RunnerOf(r), Owner(r)
  PROVE  RunnerOf(r)' /\ \A x \in Runs \ {r} : Untouched(x)
<1> USE DEF Untouched, RunnerOf
<1>1. run \in [Runs -> RunRow] /\ run[r] \in RunRow
  BY DEF TypeOK
<1>2. CASE Cancel(r)
  BY <1>1, <1>2 DEF Cancel, RunRow
<1>3. CASE RevokeGrant(r)
  BY <1>3 DEF RevokeGrant
<1>4. CASE RetainState(r)
  BY <1>1, <1>4 DEF RetainState, Reconcilable, RunRow, Busy
<1>5. CASE ConfirmMigration(r)
  BY <1>1, <1>5 DEF ConfirmMigration, Reconcilable, RunRow, Busy
<1>6. QED
  BY <1>2, <1>3, <1>4, <1>5 DEF Owner

LEMMA TimeRunner ==
  ASSUME TypeOK, NEW r \in Runs, RunnerOf(r), Time(r) \/ Clean(r)
  PROVE  RunnerOf(r)' /\ \A x \in Runs \ {r} : Untouched(x)
<1> USE DEF Untouched, RunnerOf
<1>1. run \in [Runs -> RunRow] /\ run[r] \in RunRow
      /\ worker \in [Runs -> WorkerRow] /\ worker[r] \in WorkerRow
  BY DEF TypeOK
<1>2. CASE Time(r)
  BY <1>1, <1>2 DEF Time, RunTimesOut, SessionEnds, ArtifactExpires, RunRow
<1>3. CASE Clean(r)
  <2>1. run'[r].op = run[r].op /\ run'[r].error = run[r].error
        /\ run'[r].status = run[r].status /\ run'[r].droplet = run[r].droplet
        /\ \A x \in Runs \ {r} : run'[x] = run[x]
    BY <1>1, <1>3 DEF Clean, RunRow
  <2>2. \/ worker'[r] = worker[r]
        \/ worker'[r].pc = "done" /\ run[r].status # "none"
    BY <1>1, <1>3 DEF Clean, Gone, Cleanable, Finished, Terminal
  <2>3. \A x \in Runs \ {r} : worker'[x] = worker[x]
    BY <1>1, <1>3 DEF Clean
  <2>4. QED
    BY <2>1, <2>2, <2>3 DEF Busy
<1>4. QED
  BY <1>2, <1>3

LEMMA RunnersStep == TypeOK /\ Linked /\ Runners /\ [Next]_vars => Runners'
<1> SUFFICES ASSUME TypeOK, Linked, Runners, [Next]_vars PROVE Runners'
  OBVIOUS
<1>1. CASE UNCHANGED vars
  BY <1>1 DEF vars, Runners, RunnerOf
<1>2. ASSUME NEW r \in Runs, Admission(r) PROVE Runners'
  <2>1. run[r].status = "none" /\ worker' = worker /\ RunnerOf(r)
    BY <1>2 DEF Admission, Start, Apply, Admit, Runners
  <2>2. \A x \in Runs \ {r} : Untouched(x)
    BY <1>2, <2>1, AdmitStep DEF Untouched
  <2>3. run'[r].status = "starting" /\ run'[r].error = "none"
    <3>1. ASSUME NEW u \in Owners, NEW k \in Keys, Start(r, u, k)
          PROVE  run'[r].status = "starting" /\ run'[r].error = "none"
      BY <3>1 DEF Start, Admit, NoRun, TypeOK
    <3>2. ASSUME NEW p \in Runs, Apply(r, p)
          PROVE  run'[r].status = "starting" /\ run'[r].error = "none"
      BY <3>2 DEF Apply, Admit, NoRun, TypeOK
    <3>3. QED
      BY <1>2, <3>1, <3>2 DEF Admission
  <2>4. RunnerOf(r)'
    BY <2>1, <2>3 DEF RunnerOf, Busy
  <2>5. QED
    BY <2>2, <2>4, UntouchedRunner DEF Runners
<1>3. ASSUME NEW r \in Runs, \/ Dispatching(r) \/ Input(r) \/ Execution(r) \/ Failure(r)
                             \/ Owner(r) \/ Time(r) \/ Clean(r)
      PROVE  Runners'
  <2>1. RunnerOf(r)' /\ \A x \in Runs \ {r} : Untouched(x)
    BY <1>3, DispatchingRunner, InputRunner, ExecutionRunner, FailureRunner, OwnerRunner,
       TimeRunner DEF Runners
  <2>2. QED
    BY <2>1, UntouchedRunner DEF Runners
<1>4. CASE \E k \in Keys : CliWrite(k)
  BY <1>4, UntouchedRunner DEF CliWrite, Runners, Untouched
<1>5. CASE ExpireRuns
  <2>1. ASSUME NEW x \in Runs PROVE RunnerOf(x)'
    <3>1. CASE Overdue(x)
      <4>1. run'[x] = Ended(run[x], "timed_out") /\ worker' = worker
        BY <1>5, <3>1 DEF ExpireRuns, TypeOK
      <4>2. /\ run'[x].op = run[x].op /\ run'[x].error = "timed_out"
            /\ run'[x].status = IF run[x].op = "apply" THEN "recovery_required" ELSE "failed"
        BY <4>1 DEF Ended, RunRow, TypeOK
      <4>3. QED
        BY <4>1, <4>2 DEF RunnerOf
    <3>2. CASE ~Overdue(x)
      BY <1>5, <3>2, UntouchedRunner DEF ExpireRuns, Runners, Untouched
    <3>3. QED
      BY <3>1, <3>2
  <2>2. QED
    BY <2>1 DEF Runners
<1>6. CASE ApiRestarts
  <2>1. ASSUME NEW x \in Runs PROVE RunnerOf(x)'
    <3>1. run' = run
      BY <1>6 DEF ApiRestarts
    <3>2. \/ worker'[x] = worker[x]
          \/ worker[x].pc = "waiting" /\ worker'[x].pc = "failing"
      BY <1>6 DEF ApiRestarts, Failing, TypeOK
    <3>3. QED
      BY <3>1, <3>2 DEF Runners, RunnerOf, Busy
  <2>2. QED
    BY <2>1 DEF Runners
<1>7. QED
  BY <1>1, <1>2, <1>3, <1>4, <1>5, <1>6 DEF Next

\* While the runner of an Apply may still change a landing zone or its State, no
\* other run of that landing zone is admitted or executes, even after the broker
\* gave up on the Apply (apply() and start() with the unique indexes of 017, and
\* the runner that no handler can stop before its deadline).
THEOREM OneWriter == Spec => []SingleWriter
<1> DEFINE Inv == TypeOK /\ Linked /\ OneActive /\ Runners
<1>1. Init => Inv
  <2>1. Init => OneActive
    BY DEF Init, NoRun, OneActive, Active, Live
  <2>2. Init => Runners
    BY DEF Init, NoRun, Runners, RunnerOf, Busy
  <2>3. QED
    BY <2>1, <2>2, InitType, LinkedInit
<1>2. Inv /\ [Next]_vars => Inv'
  BY TypeStep, LinkedStep, OneActiveStep, RunnersStep
<1>3. Inv => SingleWriter
  <2> SUFFICES ASSUME Inv, NEW r \in Runs, NEW o \in Runs, r # o, Executing(r),
                      run[o].key = K(r), run[o].status \in Live \/ Executing(o)
               PROVE  FALSE
    BY DEF SingleWriter
  <2>1. run[r].status \in Active
    BY DEF Runners, RunnerOf, Executing, Busy, Active, Live
  <2>2. run[o].status \in Active
    BY DEF Runners, RunnerOf, Executing, Busy, Active, Live
  <2>3. QED
    BY <2>1, <2>2 DEF OneActive, K
<1>4. QED
  BY <1>1, <1>2, <1>3, PTL DEF Spec

---------------------------------------------------------------------------
(* The State version a run is bound to *)

\* Only a run that applies, or is settled, moves the version of its State.
VersionMoves(k) ==
  state'[k].version # state[k].version =>
    \E r \in Runs : /\ K(r) = k
                    /\ run[r].status \in {"applying", "recovery_required"}
                    /\ run'[r].status \in Terminal \cup {"applying"}

LEMMA VersionStep ==
  ASSUME TypeOK, NEW r \in Runs,
         \/ Dispatching(r) \/ Input(r) \/ Execution(r) \/ Failure(r)
         \/ Owner(r) \/ Time(r) \/ Clean(r)
  PROVE  \A k \in Keys : VersionMoves(k)
<1> SUFFICES ASSUME NEW k \in Keys PROVE VersionMoves(k)
  OBVIOUS
<1>1. run \in [Runs -> RunRow] /\ run[r] \in RunRow
      /\ state \in [Keys -> StateRow] /\ state[k] \in StateRow
  BY DEF TypeOK
<1>2. CASE UNCHANGED state
  BY <1>2 DEF VersionMoves
<1>3. CASE Execution(r)
  <2>1. ASSUME NEW ack \in BOOLEAN,
               LockState(r, ack) \/ UnlockState(r, ack) \/ PrepareMigration(r, ack)
        PROVE  state'[k].version = state[k].version
    <3>1. CASE LockState(r, ack)
      BY <1>1, <3>1 DEF LockState, StateRow
    <3>2. CASE UnlockState(r, ack)
      BY <1>1, <3>2 DEF UnlockState, StateRow
    <3>3. CASE PrepareMigration(r, ack)
      BY <1>1, <3>3 DEF PrepareMigration, StateRow
    <3>4. QED
      BY <2>1, <3>1, <3>2, <3>3
  <2>2. ASSUME NEW ack \in BOOLEAN,
               \/ \E d \in Docs : WriteState(r, ack, d)
               \/ CompleteMigration(r, ack)
        PROVE  /\ run[r].status = "applying" /\ run' = run
               /\ k # K(r) => state'[k] = state[k]
    BY <1>1, <2>2 DEF WriteState, Writable, CompleteMigration
  <2>3. ASSUME NEW ack \in BOOLEAN, ApplySucceeds(r, ack)
        PROVE  /\ run[r].status = "applying" /\ run'[r].status = "succeeded"
               /\ k # K(r) => state'[k] = state[k]
    BY <1>1, <2>3 DEF ApplySucceeds, RunRow
  <2>4. QED
    BY <1>2, <1>3, <2>1, <2>2, <2>3
    DEF Execution, Validate, Execute, Stage, SaveArtifact, PlanSucceeds, LockRemote,
        WriteRemote, UnlockRemote, CopyState, VersionMoves, Terminal
<1>4. CASE Owner(r)
  <2>1. ASSUME ConfirmMigration(r)
        PROVE  /\ run[r].status = "recovery_required" /\ run'[r].status = "succeeded"
               /\ k # K(r) => state'[k] = state[k]
    BY <1>1, <2>1 DEF ConfirmMigration, Reconcilable, RunRow
  <2>2. QED
    BY <1>2, <1>4, <2>1 DEF Owner, Cancel, RevokeGrant, RetainState, VersionMoves, Terminal
<1>5. QED
  BY <1>2, <1>3, <1>4
  DEF Dispatching, Record, Launch, DispatchReturns, DispatchFails, Input, ClaimInput,
      ConsumeGrant, CheckInput, SelectBackend, ReleaseInput, AbandonInput, Failure,
      WorkerFails, SaveRecovery, RecoveryLost, ReportFailure, WorkerDies, Time, RunTimesOut,
      SessionEnds, ArtifactExpires, Clean

LEMMA SnapshotStep ==
  TypeOK /\ Linked /\ OneActive /\ SnapshotHeld /\ [Next]_vars => SnapshotHeld'
<1> SUFFICES ASSUME TypeOK, Linked, OneActive, SnapshotHeld, [Next]_vars,
                    NEW x \in Runs, run'[x].status \in Live \ {"applying"}
             PROVE  state'[run'[x].key].version = run'[x].base
  BY DEF SnapshotHeld, K
<1>1. ASSUME NEW r \in Runs, Admission(r) PROVE state'[run'[x].key].version = run'[x].base
  <2>1. Admitted(r) /\ \A o \in Runs \ {r} : run'[o] = run[o]
    BY <1>1, AdmitStep
  <2>2. CASE x = r
    BY <2>1, <2>2 DEF Admitted
  <2>3. CASE x # r
    <3>1. run'[x] = run[x] /\ state[K(x)].version = run[x].base /\ run[x].status \in Active
      BY <2>1, <2>3 DEF SnapshotHeld, Active
    <3>2. K(x) # run'[r].key
      BY <2>1, <3>1 DEF Admitted, NoneActive, K
    <3>3. K(x) \in Keys
      BY <3>1 DEF Linked, Active, Live
    <3>4. \A k \in Keys \ {run'[r].key} : state'[k] = state[k]
      <4>1. ASSUME NEW u \in Owners, NEW k \in Keys, Start(r, u, k)
            PROVE  run'[r].key = k /\ \A l \in Keys \ {k} : state'[l] = state[l]
        BY <4>1 DEF Start, Admit, NoRun, TypeOK
      <4>2. ASSUME NEW p \in Runs, Apply(r, p) PROVE state' = state
        BY <4>2 DEF Apply
      <4>3. QED
        BY <1>1, <4>1, <4>2 DEF Admission
    <3>5. QED
      BY <3>1, <3>2, <3>3, <3>4 DEF K
  <2>4. QED
    BY <2>2, <2>3
<1>2. ASSUME \A o \in Runs : Bound(o) /\ Forward(o), \A k \in Keys : VersionMoves(k)
      PROVE  state'[run'[x].key].version = run'[x].base
  <2>1. run'[x].key = K(x) /\ run'[x].base = run[x].base
    BY <1>2 DEF Bound, K
  <2>2. run[x].status \in Live
    BY <1>2 DEF Forward, Live, Terminal
  <2>3. K(x) \in Keys
    BY <2>2 DEF Linked, Live
  <2>4. \A r \in Runs : K(r) = K(x) /\ run[r].status \in Active => r = x
    BY <2>2 DEF OneActive, Active
  <2>5. run[x].status # "applying"
    BY <1>2 DEF Forward, Live, Terminal
  <2>6. \A r \in Runs : K(r) = K(x) => run[r].status \notin {"applying", "recovery_required"}
    BY <2>2, <2>4, <2>5 DEF Active, Live
  <2>7. state'[K(x)].version = state[K(x)].version
    BY <1>2, <2>3, <2>6 DEF VersionMoves
  <2>8. QED
    BY <2>1, <2>2, <2>5, <2>7 DEF SnapshotHeld
<1>3. CASE Next
  <2>1. ASSUME NEW r \in Runs, \/ Dispatching(r) \/ Input(r) \/ Execution(r) \/ Failure(r)
                               \/ Owner(r) \/ Time(r) \/ Clean(r)
        PROVE  state'[run'[x].key].version = run'[x].base
    BY <1>2, <2>1, RowStep, VersionStep
  <2>2. ASSUME ExpireRuns \/ ApiRestarts \/ \E k \in Keys : CliWrite(k)
        PROVE  state'[run'[x].key].version = run'[x].base
    BY <1>2, <2>2, OtherStep DEF VersionMoves, ExpireRuns, ApiRestarts, CliWrite
  <2>3. QED
    BY <1>1, <1>3, <2>1, <2>2 DEF Next
<1>4. CASE UNCHANGED vars
  BY <1>4 DEF vars, SnapshotHeld, K
<1>5. QED
  BY <1>3, <1>4

\* Until it applies, a live run finds the State row at the version start() captured
\* for it, or apply() took over from its plan: no other run, no migration and no
\* reconciliation moves the version under it.
THEOREM SnapshotStays == Spec => []SnapshotHeld
<1> DEFINE Inv == TypeOK /\ Linked /\ OneActive /\ SnapshotHeld
<1>1. Init => Inv
  <2>1. Init => OneActive
    BY DEF Init, NoRun, OneActive, Active, Live
  <2>2. Init => SnapshotHeld
    BY DEF Init, NoRun, SnapshotHeld, Live
  <2>3. QED
    BY <2>1, <2>2, InitType, LinkedInit
<1>2. Inv /\ [Next]_vars => Inv'
  BY TypeStep, LinkedStep, OneActiveStep, SnapshotStep
<1>3. QED
  BY <1>1, <1>2, PTL DEF Spec

---------------------------------------------------------------------------
(* An approved plan is applied once *)

\* The artifact of a plan that ended is only ever expired.
ArtifactKept(x) ==
  run[x].status = "succeeded" =>
    \/ artifact'[x] = artifact[x]
    \/ artifact[x] \in {"approvable", "blocked"} /\ artifact'[x] = "expired"

LEMMA ArtifactStep ==
  ASSUME TypeOK, [Next]_vars
  PROVE  \A x \in Runs : ArtifactKept(x)
<1> SUFFICES ASSUME NEW x \in Runs PROVE ArtifactKept(x)
  OBVIOUS
<1> USE DEF ArtifactKept
<1>1. CASE UNCHANGED artifact
  BY <1>1
<1>2. ASSUME NEW r \in Runs, NEW ack \in BOOLEAN, NEW verdict \in {"approvable", "blocked"},
             SaveArtifact(r, ack, verdict)
      PROVE  ArtifactKept(x)
  BY <1>2 DEF SaveArtifact, TypeOK
<1>3. ASSUME NEW r \in Runs, ArtifactExpires(r)
      PROVE  ArtifactKept(x)
  BY <1>3 DEF ArtifactExpires, Saved, TypeOK
<1>4. ASSUME NEW r \in Runs, Admission(r) \/ Dispatching(r) \/ Input(r) \/ Failure(r)
      PROVE  artifact' = artifact
  BY <1>4 DEF Admission, Start, Apply, Dispatching, Record, Launch, DispatchReturns,
              DispatchFails, Input, ClaimInput, ConsumeGrant, CheckInput, SelectBackend,
              ReleaseInput, AbandonInput, Failure, WorkerFails, SaveRecovery, RecoveryLost,
              ReportFailure, WorkerDies
<1>5. ASSUME NEW r \in Runs, Execution(r)
      PROVE  ArtifactKept(x)
  <2>1. ASSUME NEW ack \in BOOLEAN,
               \/ Validate(r, ack) \/ Execute(r, ack) \/ LockState(r, ack)
               \/ \E d \in Docs : WriteState(r, ack, d)
               \/ UnlockState(r, ack) \/ PrepareMigration(r, ack) \/ CompleteMigration(r, ack)
               \/ PlanSucceeds(r, ack) \/ ApplySucceeds(r, ack)
        PROVE  artifact' = artifact
    BY <2>1 DEF Validate, Execute, Stage, LockState, WriteState, UnlockState,
                PrepareMigration, CompleteMigration, PlanSucceeds, ApplySucceeds
  <2>2. ASSUME \/ LockRemote(r) \/ \E d \in Docs : WriteRemote(r, d)
               \/ UnlockRemote(r) \/ CopyState(r)
        PROVE  artifact' = artifact
    BY <2>2 DEF LockRemote, WriteRemote, UnlockRemote, CopyState
  <2>3. QED
    BY <1>1, <1>2, <1>5, <2>1, <2>2 DEF Execution
<1>6. ASSUME NEW r \in Runs, Owner(r) \/ Time(r) \/ Clean(r)
      PROVE  ArtifactKept(x)
  BY <1>3, <1>6 DEF Owner, Cancel, RevokeGrant, RetainState, ConfirmMigration, Time,
                    RunTimesOut, SessionEnds, Clean
<1>7. ASSUME ExpireRuns \/ ApiRestarts \/ \E k \in Keys : CliWrite(k)
      PROVE  artifact' = artifact
  BY <1>7 DEF ExpireRuns, ApiRestarts, CliWrite
<1>8. CASE Next
  BY <1>4, <1>5, <1>6, <1>7, <1>8 DEF Next
<1>9. QED
  BY <1>8 DEF vars

\* What PlanAppliedOnce says of the Apply r.
AppliesPlan(r) ==
  LET p == run[r].plan IN
  /\ run[p].op = "plan" /\ run[p].status = "succeeded"
  /\ artifact[p] \in {"approvable", "expired"}
  /\ run[r].key = K(p) /\ run[r].owner = run[p].owner /\ run[r].base = run[p].base
  /\ \A o \in Runs : run[o].plan = p => o = r

LEMMA AppliedOnceStep ==
  TypeOK /\ Linked /\ PlanAppliedOnce /\ [Next]_vars => PlanAppliedOnce'
<1> SUFFICES ASSUME TypeOK, Linked, PlanAppliedOnce, [Next]_vars,
                    NEW x \in Runs, run'[x].op = "apply"
             PROVE  AppliesPlan(x)'
  BY DEF PlanAppliedOnce, AppliesPlan
<1>1. \A r \in Runs : run[r].op = "apply" => AppliesPlan(r) /\ run[r].plan \in Runs
  BY DEF PlanAppliedOnce, AppliesPlan, Linked
<1>2. ASSUME NEW r \in Runs, Admission(r), Admitted(r), \A o \in Runs \ {r} : run'[o] = run[o]
      PROVE  AppliesPlan(x)'
  <2>1. artifact' = artifact
    BY <1>2 DEF Admission, Start, Apply
  <2>2. CASE x = r
    <3>1. PICK p \in Runs : Apply(r, p) /\ run'[r].plan = p
      BY <1>2, <2>2 DEF Admitted
    <3>2. /\ run[p].op = "plan" /\ run[p].status = "succeeded" /\ artifact[p] = "approvable"
          /\ \A o \in Runs : run[o].plan # p
      BY <3>1 DEF Apply, Approved
    <3>3. p # r
      BY <1>2, <3>2 DEF Admitted
    <3>4. run'[r].key = K(p) /\ run'[r].owner = run[p].owner /\ run'[r].base = run[p].base
      BY <3>1 DEF Apply, Admit, NoRun, TypeOK
    <3>5. QED
      BY <1>2, <2>1, <2>2, <3>1, <3>2, <3>3, <3>4 DEF AppliesPlan, K
  <2>3. CASE x # r
    <3>1. run'[x] = run[x] /\ AppliesPlan(x) /\ run[x].plan \in Runs
      BY <1>1, <1>2, <2>3
    <3>2. run[x].plan # r
      BY <1>2, <3>1 DEF AppliesPlan, Admitted
    <3>3. run'[r].plan # run[x].plan
      BY <1>2, <2>3, <3>1, SetsAssumption DEF Admitted, Apply, Approved
    <3>4. QED
      BY <1>2, <2>1, <3>1, <3>2, <3>3 DEF AppliesPlan, K
  <2>4. QED
    BY <2>2, <2>3
<1>3. ASSUME \A o \in Runs : Bound(o) /\ Forward(o) PROVE AppliesPlan(x)'
  <2>1. PICK p \in Runs : p = run[x].plan
    BY <1>1, <1>3 DEF Bound
  <2>2. AppliesPlan(x) /\ run[x].plan = p
    BY <1>1, <1>3, <2>1 DEF Bound
  <2>3. run'[p].op = "plan" /\ run'[p].status = "succeeded"
    BY <1>3, <2>2 DEF AppliesPlan, Bound, Forward, Live
  <2>4. artifact'[p] \in {"approvable", "expired"}
    BY <2>2, ArtifactStep DEF AppliesPlan, ArtifactKept
  <2>5. QED
    BY <1>3, <2>2, <2>3, <2>4 DEF AppliesPlan, Bound, K
<1>4. QED
  BY <1>2, <1>3, RunStep

\* A saved plan is applied at most once, as it was approved: complete, successful,
\* by its owner, for its landing zone and at the State version it was made for
\* (PlatformExecution.approved and the unique index on plan_run_id).
THEOREM AppliedOnce == Spec => []PlanAppliedOnce
<1> DEFINE Inv == TypeOK /\ Linked /\ PlanAppliedOnce
<1>1. Init => Inv
  <2>1. Init => PlanAppliedOnce
    BY DEF Init, NoRun, PlanAppliedOnce
  <2>2. QED
    BY <2>1, InitType, LinkedInit
<1>2. Inv /\ [Next]_vars => Inv'
  BY TypeStep, LinkedStep, AppliedOnceStep
<1>3. QED
  BY <1>1, <1>2, PTL DEF Spec
===========================================================================
