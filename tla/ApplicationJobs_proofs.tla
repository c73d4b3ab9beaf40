---------------------- MODULE ApplicationJobs_proofs ----------------------
(* Theorems about ApplicationJobs, for every value of its constants. *)
EXTENDS ApplicationJobs, TLAPS

---------------------------------------------------------------------------
(* Types. *)

LEMMA RowTypes ==
  ASSUME NEW row \in Row
  PROVE  /\ \A s \in Statuses : [row EXCEPT !.status = s] \in Row
         /\ \A t \in {"none", "issued", "consumed"} : [row EXCEPT !.ticket = t] \in Row
         /\ [row EXCEPT !.revoked = TRUE] \in Row
         /\ [row EXCEPT !.claimed = TRUE] \in Row
         /\ [row EXCEPT !.status = "starting", !.app = TRUE] \in Row
         /\ \A s \in Final, e \in Errors : [row EXCEPT !.status = s, !.error = e] \in Row
         /\ [row EXCEPT !.status = "failed", !.error = "runner_start_failed", !.revoked = TRUE] \in Row
         /\ \A x \in {"artifact", "output", "recovery"} :
               [row EXCEPT !.records = row.records \cup {x}] \in Row
         /\ AfterFail(row) \in Row
         /\ FailedStatus(row) \in Final
         /\ row # NoJob
<1>1. \A s \in Statuses : [row EXCEPT !.status = s] \in Row
  BY DEF Row
<1>2. \A t \in {"none", "issued", "consumed"} : [row EXCEPT !.ticket = t] \in Row
  BY DEF Row
<1>3. [row EXCEPT !.revoked = TRUE] \in Row /\ [row EXCEPT !.claimed = TRUE] \in Row
  BY DEF Row
<1>4. [row EXCEPT !.status = "starting", !.app = TRUE] \in Row
  BY DEF Row, Statuses, Working
<1>5. \A s \in Final, e \in Errors : [row EXCEPT !.status = s, !.error = e] \in Row
  BY DEF Row, Statuses
<1>6. [row EXCEPT !.status = "failed", !.error = "runner_start_failed", !.revoked = TRUE] \in Row
  BY DEF Row, Statuses, Final, Errors
<1>7. \A x \in {"artifact", "output", "recovery"} :
         [row EXCEPT !.records = row.records \cup {x}] \in Row
  BY DEF Row
<1>8. AfterFail(row) \in Row
  <2>1. PICK s \in Statuses : s = IF row.app THEN "reconciliation_required" ELSE "failed"
    BY DEF Statuses, Final
  <2>2. [row EXCEPT !.status = s] \in Row
    BY <1>1
  <2>3. QED
    BY <2>1, <2>2 DEF AfterFail
<1>9. FailedStatus(row) \in Final
  BY DEF FailedStatus, Final
<1>10. row # NoJob
  BY DEF Row, NoJob, Operations
<1>11. QED
  BY <1>1, <1>2, <1>3, <1>4, <1>5, <1>6, <1>7, <1>8, <1>9, <1>10

\* A step that replaces the row of a made job by another row keeps the types of jobs.
JobTypes ==
    /\ made \in 0 .. MaxJobs /\ aged \in 0 .. made
    /\ job \in [Jobs -> Row \cup {NoJob}]
    /\ \A j \in Jobs : j \in Made <=> job[j] \in Row

LEMMA Replaced ==
  ASSUME JobTypes, NEW j \in Made, NEW row \in Row, job' = [job EXCEPT ![j] = row],
         UNCHANGED <<made, aged>>
  PROVE  JobTypes'
BY DEF JobTypes, Made, Jobs

LEMMA NewJobType ==
  ASSUME TypeOK, NEW op \in Operations, NEW purpose \in Purposes,
         NEW plan \in 0 .. MaxJobs
  PROVE  NewJob(op, purpose, plan) \in Row
<1>1. source \in 0 .. MaxUpgrades /\ delegation.id \in 1 .. MaxDelegations
  BY DEF TypeOK
<1>2. "none" \in Statuses /\ "none" \in Errors /\ {} \in SUBSET {"artifact", "output", "recovery"}
  BY DEF Statuses, Errors
<1>3. QED
  BY <1>1, <1>2 DEF NewJob, Row

LEMMA MakeType ==
  ASSUME TypeOK, NEW op \in Operations, NEW purpose \in Purposes,
         NEW plan \in 0 .. MaxJobs, Make(op, purpose, plan)
  PROVE  TypeOK'
<1> USE BoundsAreNumbers
<1>1. PICK row \in Row : row = NewJob(op, purpose, plan)
  BY NewJobType
<1>2. made + 1 \in Jobs /\ made' = made + 1 /\ job' = [job EXCEPT ![made + 1] = row]
  BY <1>1 DEF Make, TypeOK, Jobs
<1>3. JobTypes'
  BY <1>1, <1>2 DEF Make, TypeOK, JobTypes, Made, Jobs
<1>4. QED
  BY <1>3 DEF Make, TypeOK, JobTypes, Made, Jobs
LEMMA DispatchType ==
  ASSUME TypeOK, NEW j \in Made, Dispatch(j)
  PROVE  TypeOK'
<1> USE BoundsAreNumbers
<1>1. JobTypes /\ job[j] \in Row /\ j \in Jobs
  BY DEF TypeOK, JobTypes, Made, Jobs
<1>2. CASE Reserve(j)
  <2>1. PICK row \in Row : row = [job[j] EXCEPT !.status = "reserved"]
    BY <1>1, <1>2, RowTypes DEF Reserve, Statuses, Working, Final, Errors
  <2>2. JobTypes'
    BY <1>1, <1>2, <2>1, Replaced DEF Reserve
  <2>3. QED
    BY <1>1, <1>2, <2>2 DEF TypeOK, JobTypes, Made, Reserve
<1>3. CASE IssueTicket(j)
  <2>1. PICK row \in Row : row = [job[j] EXCEPT !.ticket = "issued"]
    BY <1>1, <1>3, RowTypes DEF IssueTicket, Statuses, Working, Final, Errors
  <2>2. JobTypes'
    BY <1>1, <1>3, <2>1, Replaced DEF IssueTicket
  <2>3. QED
    BY <1>1, <1>3, <2>2 DEF TypeOK, JobTypes, Made, IssueTicket
<1>4. CASE Bind(j)
  <2>1. PICK row \in Row : row = [job[j] EXCEPT !.status = "starting", !.app = TRUE]
    BY <1>1, <1>4, RowTypes DEF Bind, Statuses, Working, Final, Errors
  <2>2. JobTypes'
    BY <1>1, <1>4, <2>1, Replaced DEF Bind
  <2>3. QED
    BY <1>1, <1>4, <2>2 DEF TypeOK, JobTypes, Made, Bind
<1>5. CASE Launch(j)
  BY <1>1, <1>5 DEF TypeOK, Made, Launch, Live
<1>6. CASE StartFails(j)
  BY <1>1, <1>6 DEF TypeOK, Made, StartFails
<1>7. CASE FailStart(j)
  <2>1. PICK row \in Row : row = AfterFail(job[j])
    BY <1>1, <1>7, RowTypes DEF FailStart, Statuses, Working, Final, Errors
  <2>2. JobTypes'
    BY <1>1, <1>7, <2>1, Replaced DEF FailStart
  <2>3. QED
    BY <1>1, <1>7, <2>2 DEF TypeOK, JobTypes, Made, FailStart
<1>8. CASE ApiCrash(j)
  BY <1>1, <1>8 DEF TypeOK, Made, ApiCrash
<1>9. QED
  BY <1>2, <1>3, <1>4, <1>5, <1>6, <1>7, <1>8 DEF Dispatch

LEMMA WorkType ==
  ASSUME TypeOK, NEW j \in Made, Work(j)
  PROVE  TypeOK'
<1> USE BoundsAreNumbers
<1>1. JobTypes /\ job[j] \in Row /\ j \in Jobs
  BY DEF TypeOK, JobTypes, Made, Jobs
<1>2. CASE Consume(j)
  <2>1. PICK row \in Row : row = [job[j] EXCEPT !.ticket = "consumed"]
    BY <1>1, <1>2, RowTypes DEF Consume, Statuses, Working, Final, Errors
  <2>2. JobTypes'
    BY <1>1, <1>2, <2>1, Replaced DEF Consume
  <2>3. QED
    BY <1>1, <1>2, <2>2 DEF TypeOK, JobTypes, Made, Consume, Live
<1>3. CASE Claim(j)
  <2>1. PICK row \in Row : row = [job[j] EXCEPT !.claimed = TRUE]
    BY <1>1, <1>3, RowTypes DEF Claim, Statuses, Working, Final, Errors
  <2>2. JobTypes'
    BY <1>1, <1>3, <2>1, Replaced DEF Claim
  <2>3. QED
    BY <1>1, <1>3, <2>2 DEF TypeOK, JobTypes, Made, Claim, Live
<1>4. CASE Release(j)
  BY <1>1, <1>4 DEF TypeOK, Made, Release, Live, WithInputs
<1>5. CASE Stage(j)
  <2>1. NextStage(j) \in Statuses
    BY <1>5 DEF Stage, NextStage, Statuses, Working
  <2>2. PICK row \in Row : row = [job[j] EXCEPT !.status = NextStage(j)]
    BY <1>1, <2>1, RowTypes
  <2>3. JobTypes'
    BY <1>1, <1>5, <2>2, Replaced DEF Stage
  <2>4. PICK pc \in {"ready", "released"} :
           runner' = [runner EXCEPT ![j] = pc]
    BY <1>5 DEF Stage
  <2>5. QED
    BY <1>1, <1>5, <2>3, <2>4 DEF TypeOK, JobTypes, Made, Stage, Live, WithInputs
<1>6. CASE GoesWrong(j)
  BY <1>1, <1>6 DEF TypeOK, Made, GoesWrong, Live, WithInputs
<1>7. CASE TakeLock(j)
  BY <1>1, <1>7 DEF TypeOK, Made, TakeLock, Live, WithInputs
<1>8. CASE Finish(j)
  BY <1>1, <1>8 DEF TypeOK, Made, Finish, Live, WithInputs
<1>9. CASE Dies(j)
  BY <1>1, <1>9 DEF TypeOK, Made, Dies
<1>10. CASE RecordOutput(j)
  <2>1. PICK row \in Row : row = [job[j] EXCEPT !.records = job[j].records \cup {"output"}]
    BY <1>1, <1>10, RowTypes DEF RecordOutput, Statuses, Working, Final, Errors
  <2>2. JobTypes'
    BY <1>1, <1>10, <2>1, Replaced DEF RecordOutput
  <2>3. QED
    BY <1>1, <1>10, <2>2 DEF TypeOK, JobTypes, Made, RecordOutput
<1>11. CASE RecordArtifact(j)
  <2>1. PICK row \in Row : row = [job[j] EXCEPT !.records = job[j].records \cup {"artifact"}]
    BY <1>1, <1>11, RowTypes DEF RecordArtifact, Statuses, Working, Final, Errors
  <2>2. JobTypes'
    BY <1>1, <1>11, <2>1, Replaced DEF RecordArtifact
  <2>3. QED
    BY <1>1, <1>11, <2>2 DEF TypeOK, JobTypes, Made, RecordArtifact
<1>12. CASE RecordRecovery(j)
  <2>1. PICK row \in Row : row = [job[j] EXCEPT !.records = job[j].records \cup {"recovery"}]
    BY <1>1, <1>12, RowTypes DEF RecordRecovery, Statuses, Working, Final, Errors
  <2>2. JobTypes'
    BY <1>1, <1>12, <2>1, Replaced DEF RecordRecovery
  <2>3. QED
    BY <1>1, <1>12, <2>2 DEF TypeOK, JobTypes, Made, RecordRecovery
<1>13. CASE Succeed(j)
  <2>1. PICK row \in Row : row = [job[j] EXCEPT !.status = "succeeded"]
    BY <1>1, <1>13, RowTypes DEF Succeed, Statuses, Working, Final, Errors
  <2>2. JobTypes'
    BY <1>1, <1>13, <2>1, Replaced DEF Succeed
  <2>3. QED
    BY <1>1, <1>13, <2>2 DEF TypeOK, JobTypes, Made, Succeed
<1>14. CASE Report(j)
  <2>1. PICK code \in Errors :
           job' = [job EXCEPT ![j].status = FailedStatus(job[j]), ![j].error = code]
    BY <1>14 DEF Report, Errors
  <2>2. PICK row \in Row : row = [job[j] EXCEPT !.status = FailedStatus(job[j]), !.error = code]
    BY <1>1, RowTypes
  <2>3. job' = [job EXCEPT ![j] = row]
    BY <1>1, <2>1, <2>2 DEF JobTypes
  <2>4. JobTypes'
    BY <1>1, <1>14, <2>3, Replaced DEF Report
  <2>5. QED
    BY <1>1, <1>14, <2>4 DEF TypeOK, JobTypes, Made, Report
<1>15. QED
  BY <1>2, <1>3, <1>4, <1>5, <1>6, <1>7, <1>8, <1>9, <1>10, <1>11, <1>12, <1>13, <1>14 DEF Work

LEMMA InspectType ==
  ASSUME TypeOK, NEW j \in Made, Inspect(j)
  PROVE  TypeOK'
<1> USE BoundsAreNumbers
<1>1. JobTypes /\ job[j] \in Row /\ j \in Jobs
  BY DEF TypeOK, JobTypes, Made, Jobs
<1>2. CASE RecordStartFailure(j)
  <2>1. PICK row \in Row : row = [job[j] EXCEPT !.status = "failed", !.error = "runner_start_failed", !.revoked = TRUE]
    BY <1>1, <1>2, RowTypes DEF RecordStartFailure, Statuses, Working, Final, Errors
  <2>2. job' = [job EXCEPT ![j] = row]
    BY <1>1, <1>2, <2>1 DEF RecordStartFailure, JobTypes
  <2>3. JobTypes'
    BY <1>1, <1>2, <2>2, Replaced DEF RecordStartFailure
  <2>4. QED
    BY <1>1, <1>2, <2>3 DEF TypeOK, JobTypes, Made, RecordStartFailure
<1>3. CASE CompletePlan(j)
  <2>1. PICK row \in Row : row = [job[j] EXCEPT !.status = "failed", !.error = "cancelled"]
    BY <1>1, <1>3, RowTypes DEF CompletePlan, Statuses, Working, Final, Errors
  <2>2. JobTypes'
    BY <1>1, <1>3, <2>1, Replaced DEF CompletePlan
  <2>3. QED
    BY <1>1, <1>3, <2>2 DEF TypeOK, JobTypes, Made, CompletePlan
<1>4. CASE RecordInterruption(j)
  <2>1. PICK row \in Row : row = [job[j] EXCEPT !.status = "reconciliation_required", !.error = "cancelled"]
    BY <1>1, <1>4, RowTypes DEF RecordInterruption, Statuses, Working, Final, Errors
  <2>2. JobTypes'
    BY <1>1, <1>4, <2>1, Replaced DEF RecordInterruption
  <2>3. QED
    BY <1>1, <1>4, <2>2 DEF TypeOK, JobTypes, Made, RecordInterruption
<1>5. CASE CheckReplan(j)
  BY <1>1, <1>5 DEF TypeOK, Made, CheckReplan, Inspection
<1>6. CASE ObserveState(j)
  BY <1>1, <1>6 DEF TypeOK, Made, ObserveState, Inspection, NoInspection, Concluded
<1>7. CASE ApproveReplan(j)
  BY <1>1, <1>7 DEF TypeOK, Made, ApproveReplan, Inspection, NoInspection, Concluded, Clearance, Mode
<1>8. ASSUME NEW kind \in {"start", "plan", "apply"}, LookAtRunner(kind, j) PROVE TypeOK'
  BY <1>1, <1>8 DEF TypeOK, Made, LookAtRunner, Inspection
<1>9. QED
  BY <1>2, <1>3, <1>4, <1>5, <1>6, <1>7, <1>8 DEF Inspect
LEMMA TypeStep ==
  ASSUME TypeOK, [Next]_vars
  PROVE  TypeOK'
<1> USE BoundsAreNumbers
<1>1. JobTypes /\ Made \subseteq Jobs /\ \A j \in Made : job[j] \in Row
  BY DEF TypeOK, JobTypes, Made, Jobs
<1>2. ASSUME NEW purpose \in Purposes, PreparePlan(purpose) PROVE TypeOK'
  BY <1>2, MakeType DEF PreparePlan, Operations
<1>3. ASSUME NEW p \in Made, PrepareApply(p) PROVE TypeOK'
  <2>1. job[p].purpose \in Purposes /\ p \in 0 .. MaxJobs /\ "apply" \in Operations
    BY <1>1 DEF Row, Operations, Jobs
  <2>2. QED
    BY <1>3, <2>1, MakeType DEF PrepareApply
<1>4. ASSUME NEW j \in Made, RevokeGrant(j) PROVE TypeOK'
  <2>1. PICK row \in Row : row = [job[j] EXCEPT !.revoked = TRUE]
    BY <1>1, RowTypes
  <2>2. JobTypes'
    BY <1>1, <1>4, <2>1, Replaced DEF RevokeGrant
  <2>3. QED
    BY <1>1, <1>4, <2>2 DEF TypeOK, JobTypes, Made, RevokeGrant
<1>5. CASE RevokeDelegation
  BY <1>5 DEF TypeOK, Made, RevokeDelegation
<1>6. CASE Delegate
  BY <1>6 DEF TypeOK, Made, Delegate
<1>7. CASE UpgradeSource
  <2>1. \A j \in Made : [job[j] EXCEPT !.revoked = TRUE] \in Row
    BY <1>1, RowTypes
  <2>2. \A j \in Jobs : job'[j] = job[j] \/ (j \in Made /\ job'[j] = [job[j] EXCEPT !.revoked = TRUE])
    BY <1>7 DEF UpgradeSource
  <2>3. job' \in [Jobs -> Row \cup {NoJob}]
    BY <1>1, <1>7, <2>1 DEF JobTypes, UpgradeSource
  <2>4. JobTypes'
    BY <1>1, <1>7, <2>1, <2>2, <2>3 DEF JobTypes, UpgradeSource, Made
  <2>5. QED
    BY <1>7, <2>4 DEF TypeOK, JobTypes, Made, UpgradeSource
<1>8. CASE Expire
  BY <1>8 DEF TypeOK, Made, Expire
<1>9. CASE Forget
  BY <1>9 DEF TypeOK, Made, Forget
<1>10. CASE Unlock
  BY <1>10 DEF TypeOK, Made, Unlock
<1>11. CASE UNCHANGED vars
  BY <1>11 DEF TypeOK, Made, vars
<1>12. QED
  BY <1>2, <1>3, <1>4, <1>5, <1>6, <1>7, <1>8, <1>9, <1>10, <1>11, DispatchType, WorkType, InspectType
  DEF Next

LEMMA TypeInit == Init => TypeOK
BY BoundsAreNumbers
DEF Init, TypeOK, Jobs, Made, Row, NoJob, Operations, NotCleared, NoInspection

\* Every variable has its type, whatever the number of jobs, delegations and upgrades.
THEOREM TypeCorrect == Spec => []TypeOK
<1>1. TypeOK /\ [Next]_vars => TypeOK'
  BY TypeStep
<1>2. QED
  BY <1>1, TypeInit, PTL DEF Spec
---------------------------------------------------------------------------
(* What a step does to the row of a job. *)

\* What a job is never changes, what it was granted is not taken back, an ended job
\* stays as it ended, and only a reservation makes a job active.
RowKept(j) ==
    /\ job'[j].op = job[j].op /\ job'[j].purpose = job[j].purpose
    /\ job'[j].plan = job[j].plan /\ job'[j].source = job[j].source
    /\ job[j].app => job'[j].app
    /\ job[j].claimed => job'[j].claimed
    /\ Status(j) \in Final => job'[j].status = Status(j)
    /\ job'[j].status \in Final \cup {"none"} \/ Active(j) \/ Reserve(j)

LEMMA RowStep ==
  ASSUME TypeOK, [Next]_vars, NEW k \in Made
  PROVE  RowKept(k) /\ k \in Made'
<1>1. \A j \in Made : job[j] \in Row /\ j \in Jobs
  BY BoundsAreNumbers DEF TypeOK, Made, Jobs
<1>2. job \in [Jobs -> Row \cup {NoJob}] /\ made \in Nat
  BY BoundsAreNumbers DEF TypeOK
<1>3. CASE UNCHANGED <<job, made>>
  BY <1>3 DEF RowKept, Status, Active, Made
<1>4. ASSUME NEW op, NEW purpose, NEW plan, Make(op, purpose, plan) PROVE RowKept(k) /\ k \in Made'
  BY <1>1, <1>2, <1>4 DEF RowKept, Status, Active, Made, Make
<1>5. ASSUME NEW j \in Made, RevokeGrant(j) PROVE RowKept(k) /\ k \in Made'
  BY <1>1, <1>2, <1>5 DEF RowKept, Status, Active, Made, RevokeGrant, Row
<1>6. CASE UpgradeSource
  BY <1>1, <1>2, <1>6 DEF RowKept, Status, Active, Made, UpgradeSource, Row
<1>7. ASSUME NEW j \in Made, Dispatch(j) PROVE RowKept(k) /\ k \in Made'
  <2>1. CASE Launch(j) \/ StartFails(j) \/ ApiCrash(j)
    BY <1>3, <2>1 DEF Launch, StartFails, ApiCrash
  <2>2. CASE Reserve(j)
    BY <1>1, <1>2, <2>2 DEF RowKept, Status, Active, Made, Row, Reserve, Final
  <2>3. CASE IssueTicket(j) \/ Bind(j)
    BY <1>1, <1>2, <2>3 DEF RowKept, Status, Active, Made, Row, IssueTicket, Bind, Final
  <2>4. CASE FailStart(j)
    <3>1. job' = [job EXCEPT ![j] = AfterFail(job[j])] /\ made' = made
      BY <2>4 DEF FailStart
    <3>2. AfterFail(job[j]) = job[j]
          \/ /\ Status(j) \in {"reserved"} \cup Working
             /\ \E s \in Final : AfterFail(job[j]) = [job[j] EXCEPT !.status = s]
      BY DEF AfterFail, Status, Final
    <3>3. QED
      BY <1>1, <1>2, <3>1, <3>2 DEF RowKept, Status, Active, Made, Row, Final, Working
  <2>5. QED
    BY <1>7, <2>1, <2>2, <2>3, <2>4 DEF Dispatch
<1>8. ASSUME NEW j \in Made, Work(j) PROVE RowKept(k) /\ k \in Made'
  <2>1. CASE Consume(j) \/ Claim(j) \/ RecordOutput(j) \/ RecordArtifact(j) \/ RecordRecovery(j)
    BY <1>1, <1>2, <2>1
    DEF RowKept, Status, Active, Made, Row, Consume, Claim, RecordOutput, RecordArtifact, RecordRecovery
  <2>2. CASE Release(j) \/ GoesWrong(j) \/ TakeLock(j) \/ Finish(j) \/ Dies(j)
    BY <1>3, <2>2 DEF Release, GoesWrong, TakeLock, Finish, Dies
  <2>3. CASE Stage(j)
    BY <1>1, <1>2, <2>3
    DEF RowKept, Status, Active, Made, Row, Stage, ReportOK, Final, Working
  <2>4. CASE Succeed(j)
    BY <1>1, <1>2, <2>4 DEF RowKept, Status, Active, Made, Row, Succeed, ReportOK, Final, Working
  <2>5. CASE Report(j)
    <3>1. PICK code : job' = [job EXCEPT ![j].status = FailedStatus(job[j]), ![j].error = code]
      BY <2>5 DEF Report
    <3>2. FailedStatus(job[j]) \in Final /\ made' = made /\ Status(j) \in Working
      BY <2>5 DEF Report, ReportOK, FailedStatus, Final
    <3>3. QED
      BY <1>1, <1>2, <3>1, <3>2 DEF RowKept, Status, Active, Made, Row, Final, Working
  <2>6. QED
    BY <1>8, <2>1, <2>2, <2>3, <2>4, <2>5 DEF Work
<1>9. ASSUME NEW j \in Made, Inspect(j) PROVE RowKept(k) /\ k \in Made'
  BY <1>1, <1>2, <1>9
  DEF RowKept, Status, Active, Made, Inspect, Row, Final, Working,
      LookAtRunner, RecordStartFailure, StartFailed, CompletePlan, PlanInterrupted,
      RecordInterruption, ApplyInterrupted, CheckReplan, ObserveState, ApproveReplan
<1>10. QED
  BY <1>3, <1>4, <1>5, <1>6, <1>7, <1>8, <1>9
  DEF Next, vars, PreparePlan, PrepareApply, RevokeDelegation, Delegate, Expire, Forget, Unlock
LEMMA MadeStep ==
  ASSUME [Next]_vars
  PROVE  \/ made' = made
         \/ \E purpose \in Purposes : PreparePlan(purpose)
         \/ \E p \in Made : PrepareApply(p)
<1>1. ASSUME NEW j \in Made, RevokeGrant(j) \/ Dispatch(j) PROVE made' = made
  BY <1>1
  DEF RevokeGrant, Dispatch, Reserve, IssueTicket, Bind, Launch, StartFails, FailStart, ApiCrash
<1>2. ASSUME NEW j \in Made, Work(j) PROVE made' = made
  BY <1>2
  DEF Work, Consume, Claim, Release, Stage, GoesWrong, TakeLock, Finish, Dies,
      RecordOutput, RecordArtifact, RecordRecovery, Succeed, Report
<1>3. ASSUME NEW j \in Made, Inspect(j) PROVE made' = made
  BY <1>3
  DEF Inspect, LookAtRunner, RecordStartFailure, CompletePlan, RecordInterruption,
      CheckReplan, ObserveState, ApproveReplan
<1>4. QED
  BY <1>1, <1>2, <1>3
  DEF Next, vars, RevokeDelegation, Delegate, UpgradeSource, Expire, Forget, Unlock

\* A job that a step makes is the next one, and is not dispatched yet.
LEMMA NewRow ==
  ASSUME TypeOK, [Next]_vars, NEW k \in Made', k \notin Made
  PROVE  /\ k = made + 1 /\ k \in Jobs
         /\ job'[k].status = "none" /\ job'[k].error = "none"
         /\ ~job'[k].claimed /\ ~job'[k].revoked /\ ~job'[k].app
         /\ UNCHANGED <<start, runner, cleared, source, lock, wrote, check>>
         /\ \/ job'[k].op = "plan" /\ ~Blocked(k, job'[k].purpose, TRUE)
            \/ job'[k].op = "apply"
<1> USE BoundsAreNumbers
<1>1. ASSUME NEW op, NEW purpose, NEW plan, Make(op, purpose, plan)
      PROVE  /\ k = made + 1 /\ k \in Jobs
             /\ job'[k] = NewJob(op, purpose, plan)
             /\ UNCHANGED <<start, runner, cleared, source, lock, wrote, check>>
  BY <1>1 DEF TypeOK, Make, Made, Jobs
<1>2. ASSUME NEW purpose \in Purposes, PreparePlan(purpose)
      PROVE  /\ job'[k].op = "plan" /\ ~Blocked(k, job'[k].purpose, TRUE)
             /\ k = made + 1 /\ k \in Jobs
             /\ job'[k].status = "none" /\ job'[k].error = "none"
             /\ ~job'[k].claimed /\ ~job'[k].revoked /\ ~job'[k].app
             /\ UNCHANGED <<start, runner, cleared, source, lock, wrote, check>>
  <2>1. /\ k = made + 1 /\ k \in Jobs
        /\ job'[k] = NewJob("plan", purpose, 0)
        /\ UNCHANGED <<start, runner, cleared, source, lock, wrote, check>>
    BY <1>1, <1>2 DEF PreparePlan
  <2>2. /\ job'[k].op = "plan" /\ job'[k].purpose = purpose
        /\ job'[k].status = "none" /\ job'[k].error = "none"
        /\ ~job'[k].claimed /\ ~job'[k].revoked /\ ~job'[k].app
    BY <2>1 DEF NewJob
  <2>3. QED
    BY <1>2, <2>1, <2>2 DEF PreparePlan
<1>3. ASSUME NEW p \in Made, PrepareApply(p)
      PROVE  /\ job'[k].op = "apply"
             /\ k = made + 1 /\ k \in Jobs
             /\ job'[k].status = "none" /\ job'[k].error = "none"
             /\ ~job'[k].claimed /\ ~job'[k].revoked /\ ~job'[k].app
             /\ UNCHANGED <<start, runner, cleared, source, lock, wrote, check>>
  <2>1. /\ k = made + 1 /\ k \in Jobs
        /\ job'[k] = NewJob("apply", job[p].purpose, p)
        /\ UNCHANGED <<start, runner, cleared, source, lock, wrote, check>>
    BY <1>1, <1>3 DEF PrepareApply
  <2>2. /\ job'[k].op = "apply" /\ job'[k].purpose = job[p].purpose
        /\ job'[k].status = "none" /\ job'[k].error = "none"
        /\ ~job'[k].claimed /\ ~job'[k].revoked /\ ~job'[k].app
    BY <2>1 DEF NewJob
  <2>3. QED
    BY <1>3, <2>1, <2>2 DEF PrepareApply
<1>4. QED
  BY <1>2, <1>3, MadeStep DEF Made

LEMMA ReserveKeepsOthers ==
  ASSUME TypeOK, NEW j \in Made, Reserve(j), NEW k \in Made, k # j
  PROVE  job'[k] = job[k] /\ ~Active(k)
BY DEF TypeOK, Reserve, Blocked, Bars

---------------------------------------------------------------------------
(* What the reservation of a dispatch compares. *)

LEMMA OneActiveStep ==
  ASSUME TypeOK, OneActive, [Next]_vars
  PROVE  OneActive'
<1> SUFFICES ASSUME NEW j \in Made', NEW k \in Made', Active(j)', Active(k)', j # k
             PROVE  FALSE
  BY DEF OneActive
<1>1. j \in Made /\ k \in Made
  BY NewRow DEF Active, Status
<1>2. (Active(j) \/ Reserve(j)) /\ (Active(k) \/ Reserve(k))
  BY <1>1, RowStep DEF RowKept, Active, Status
<1>3. CASE Reserve(j)
  BY <1>1, <1>3, ReserveKeepsOthers DEF Active, Status
<1>4. CASE Reserve(k)
  BY <1>1, <1>4, ReserveKeepsOthers DEF Active, Status
<1>5. QED
  BY <1>1, <1>2, <1>3, <1>4 DEF OneActive

LEMMA NewestPlanStep ==
  ASSUME TypeOK, AppliesNewestPlan, [Next]_vars
  PROVE  AppliesNewestPlan'
<1> SUFFICES ASSUME NEW a \in Made', job'[a].op = "apply", Active(a)',
                    NEW n \in Made', job'[n].op = "plan"
             PROVE  n <= job'[a].plan
  BY DEF AppliesNewestPlan
<1>1. a \in Made
  BY NewRow DEF Active, Status
<1>2. /\ job[a].op = "apply" /\ job'[a].plan = job[a].plan
      /\ Active(a) \/ Reserve(a)
  BY <1>1, RowStep DEF RowKept, Active, Status
<1>3. CASE n \in Made
  <2>1. job[n].op = "plan"
    BY <1>3, RowStep DEF RowKept
  <2>2. CASE Active(a)
    BY <1>1, <1>2, <1>3, <2>1, <2>2 DEF AppliesNewestPlan
  <2>3. CASE Reserve(a)
    <3>1. ~(n > job[a].plan)
      BY <1>2, <1>3, <2>1, <2>3 DEF Reserve, ContextOK, PlanUsable
    <3>2. n \in Nat /\ job[a].plan \in Nat
      BY <1>1, <1>3, BoundsAreNumbers DEF TypeOK, Made, Row, Jobs
    <3>3. QED
      BY <1>2, <3>1, <3>2
  <2>4. QED
    BY <1>2, <2>2, <2>3
<1>4. CASE n \notin Made
  <2>1. ~Blocked(n, job'[n].purpose, TRUE) /\ n = made + 1
    BY <1>4, NewRow
  <2>2. ~Active(a)
    BY <1>1, <1>2, <1>4, <2>1 DEF Blocked, Bars
  <2>3. ~Reserve(a)
    BY <1>1, <1>4 DEF Reserve, Made
  <2>4. QED
    BY <1>2, <2>2, <2>3
<1>5. QED
  BY <1>3, <1>4
---------------------------------------------------------------------------
(* The inductive invariant. *)

AtState == {"ready", "working", "good", "unsaved"}   \* a worker that may write State, or has

\* Start, worker and row of one job: nothing runs that was not bound before, the
\* grant of a worker with credentials can not have been revoked, and an Apply that
\* may have written is past its last stage.
JobInv(j) ==
    /\ start[j] = "bound" => Status(j) = "starting" /\ job[j].app /\ runner[j] = "none"
    /\ Status(j) \in {"none", "reserved"} => ~job[j].app
    /\ runner[j] # "none" => job[j].app
    /\ runner[j] \in {"claimed"} \cup WithInputs => job[j].claimed
    /\ job[j].claimed => ~job[j].revoked /\ job[j].app
    /\ j \in wrote => job[j].claimed
    /\ job[j].op = "apply" /\ (runner[j] \in AtState \/ j \in wrote)
          => Status(j) \in {"applying", "reconciliation_required", "succeeded"}
    /\ runner[j] \in WithInputs => Active(j) \/ Status(j) = "reconciliation_required"
    /\ job[j].error = "apply_failed" => runner[j] = "ended"

SourceInv(j) ==
    runner[j] \in WithInputs \/ (runner[j] = "claimed" /\ Active(j)) => job[j].source = source

\* A cleared job stays so, its worker is gone, and what it wrote was seen.
ClearInv(j) ==
    cleared[j] # NotCleared =>
        /\ Status(j) = "reconciliation_required" /\ runner[j] \notin Live
        /\ j \in wrote => j \in cleared[j].state

Unmade == \A j \in Jobs \ Made :
    start[j] = "idle" /\ runner[j] = "none" /\ cleared[j] = NotCleared /\ j \notin wrote

\* What was looked at outside a transaction still holds when it is used.
CheckInv ==
    check # NoInspection =>
        /\ check.job \in Made
        /\ check.kind \in {"start", "plan", "apply"} => runner[check.job] = "ended"
        /\ check.kind = "observed" =>
              /\ Status(check.job) = "reconciliation_required"
              /\ runner[check.job] \notin Live /\ lock # check.job
              /\ check.job \in wrote => check.job \in check.state

IInv ==
    /\ TypeOK /\ OneActive /\ OneWorker /\ AppliesNewestPlan /\ PlannedAfterClearance
    /\ Unmade /\ CheckInv
    /\ \A j \in Made : JobInv(j) /\ SourceInv(j) /\ ClearInv(j)

\* What a step that concerns another job leaves of a job.
Untouched(k) ==
    /\ job'[k] = job[k] /\ start'[k] = start[k] /\ runner'[k] = runner[k]
    /\ cleared'[k] = cleared[k] /\ (k \in wrote' <=> k \in wrote)
    /\ lock' = k => lock = k
    /\ source' = source

LEMMA OthersUntouched ==
  ASSUME TypeOK, NEW j \in Made, RevokeGrant(j) \/ Dispatch(j) \/ Work(j) \/ Inspect(j),
         NEW k \in Jobs, k # j
  PROVE  Untouched(k)
<1> USE DEF Untouched
<1>1. /\ job \in [Jobs -> Row \cup {NoJob}] /\ j \in Jobs
      /\ start \in [Jobs -> {"idle", "reserved", "ticket", "bound", "failing"}]
      /\ runner \in [Jobs -> {"none", "ended"} \cup Live]
      /\ cleared \in [Jobs -> Clearance \cup {NotCleared}]
      /\ 0 # k
  BY BoundsAreNumbers DEF TypeOK, Made, Jobs
<1>2. CASE RevokeGrant(j)
  BY <1>1, <1>2 DEF RevokeGrant
<1>3. CASE Dispatch(j)
  <2>1. CASE Reserve(j) \/ IssueTicket(j) \/ Bind(j)
    BY <1>1, <2>1 DEF Reserve, IssueTicket, Bind
  <2>2. CASE Launch(j) \/ StartFails(j) \/ FailStart(j) \/ ApiCrash(j)
    BY <1>1, <2>2 DEF Launch, StartFails, FailStart, ApiCrash
  <2>3. QED
    BY <1>3, <2>1, <2>2 DEF Dispatch
<1>4. CASE Work(j)
  <2>1. CASE Consume(j) \/ Claim(j) \/ Release(j) \/ Stage(j)
    BY <1>1, <2>1 DEF Consume, Claim, Release, Stage
  <2>2. CASE GoesWrong(j) \/ TakeLock(j) \/ Finish(j) \/ Dies(j)
    BY <1>1, <2>2 DEF GoesWrong, TakeLock, Finish, Dies
  <2>3. CASE RecordOutput(j) \/ RecordArtifact(j) \/ RecordRecovery(j)
    BY <1>1, <2>3 DEF RecordOutput, RecordArtifact, RecordRecovery
  <2>4. CASE Succeed(j) \/ Report(j)
    BY <1>1, <2>4 DEF Succeed, Report
  <2>5. QED
    BY <1>4, <2>1, <2>2, <2>3, <2>4 DEF Work
<1>5. CASE Inspect(j)
  BY <1>1, <1>5 DEF Inspect, LookAtRunner, RecordStartFailure, CompletePlan, RecordInterruption,
     CheckReplan, ObserveState, ApproveReplan
<1>6. QED
  BY <1>2, <1>3, <1>4, <1>5

\* One job's part of the invariant survives what the others do.
Parts(k) == JobInv(k) /\ SourceInv(k) /\ ClearInv(k)

LEMMA PartsUntouched ==
  ASSUME NEW k, Parts(k), Untouched(k)
  PROVE  Parts(k)'
BY DEF Parts, Untouched, JobInv, SourceInv, ClearInv, Active, Status

LEMMA DispatchParts ==
  ASSUME TypeOK, NEW j \in Made, Parts(j), Dispatch(j)
  PROVE  Parts(j)'
<1> USE DEF Parts, JobInv, SourceInv, ClearInv, Active, Status
<1>1. job \in [Jobs -> Row \cup {NoJob}] /\ j \in Jobs /\ job[j] \in Row
  BY BoundsAreNumbers DEF TypeOK, Made, Jobs
<1>2. /\ start \in [Jobs -> {"idle", "reserved", "ticket", "bound", "failing"}]
      /\ runner \in [Jobs -> {"none", "ended"} \cup Live]
  BY DEF TypeOK
<1>3. CASE Reserve(j)
  BY <1>1, <1>2, <1>3 DEF Reserve, Row, Final, WithInputs, AtState
<1>4. CASE IssueTicket(j)
  BY <1>1, <1>2, <1>4 DEF IssueTicket, Row, Final, WithInputs, AtState
<1>5. CASE Bind(j)
  BY <1>1, <1>2, <1>5 DEF Bind, Row, Final, WithInputs, AtState
<1>6. CASE Launch(j)
  BY <1>1, <1>2, <1>6 DEF Launch, Row, Final, WithInputs, AtState
<1>7. CASE StartFails(j) \/ ApiCrash(j)
  BY <1>1, <1>2, <1>7 DEF StartFails, ApiCrash, Row, Final, WithInputs, AtState
<1>8. CASE FailStart(j)
  <2>1. /\ job'[j] = AfterFail(job[j]) /\ start'[j] = "idle"
        /\ UNCHANGED <<runner, cleared, source, wrote>>
    BY <1>1, <1>2, <1>8 DEF FailStart
  <2>2. \/ AfterFail(job[j]) = job[j]
        \/ /\ Status(j) \in {"reserved"} \cup Working
           /\ job[j].app
           /\ AfterFail(job[j]) = [job[j] EXCEPT !.status = "reconciliation_required"]
        \/ /\ Status(j) \in {"reserved"} \cup Working
           /\ ~job[j].app
           /\ AfterFail(job[j]) = [job[j] EXCEPT !.status = "failed"]
    BY DEF AfterFail
  <2>3. QED
    BY <1>1, <2>1, <2>2 DEF Row, Final, Working, WithInputs, AtState
<1>9. QED
  BY <1>3, <1>4, <1>5, <1>6, <1>7, <1>8 DEF Dispatch

LEMMA WorkParts ==
  ASSUME TypeOK, NEW j \in Made, Parts(j), Work(j)
  PROVE  Parts(j)'
<1> USE DEF Parts, JobInv, SourceInv, ClearInv, Active, Status
<1>1. job \in [Jobs -> Row \cup {NoJob}] /\ j \in Jobs /\ job[j] \in Row
  BY BoundsAreNumbers DEF TypeOK, Made, Jobs
<1>2. /\ start \in [Jobs -> {"idle", "reserved", "ticket", "bound", "failing"}]
      /\ runner \in [Jobs -> {"none", "ended"} \cup Live]
  BY DEF TypeOK
<1>3. CASE Consume(j)
  BY <1>1, <1>2, <1>3 DEF Consume, Row, Final, WithInputs, Live, AtState
<1>4. CASE Claim(j)
  BY <1>1, <1>2, <1>4 DEF Claim, ContextOK, SourceOK, Row, Final, Working, WithInputs, Live, AtState
<1>5. CASE Release(j)
  BY <1>1, <1>2, <1>5 DEF Release, ReportOK, Row, Final, Working, WithInputs, Live, AtState
<1>6. CASE Stage(j)
  <2>1. /\ job'[j] = [job[j] EXCEPT !.status = NextStage(j)]
        /\ runner[j] = "released"
        /\ runner'[j] = IF Status(j) = "validating" THEN "ready" ELSE "released"
        /\ UNCHANGED <<start, cleared, source, wrote>>
    BY <1>1, <1>2, <1>6 DEF Stage
  <2>2. \/ Status(j) = "starting" /\ NextStage(j) = "initializing"
        \/ Status(j) = "initializing" /\ NextStage(j) = "validating"
        \/ Status(j) = "validating" /\ job[j].op = "apply" /\ NextStage(j) = "applying"
        \/ Status(j) = "validating" /\ job[j].op # "apply" /\ NextStage(j) = "planning"
    BY <1>6 DEF Stage, NextStage
  <2>3. QED
    BY <1>1, <2>1, <2>2 DEF Row, Final, Working, WithInputs, Live, AtState
<1>7. CASE GoesWrong(j)
  BY <1>1, <1>2, <1>7 DEF GoesWrong, Row, Final, WithInputs, Live, AtState
<1>8. CASE TakeLock(j)
  BY <1>1, <1>2, <1>8 DEF TakeLock, Row, Final, WithInputs, Live, AtState
<1>9. CASE Finish(j)
  BY <1>1, <1>2, <1>9 DEF Finish, Row, Final, WithInputs, Live, AtState
<1>10. CASE Dies(j)
  BY <1>1, <1>2, <1>10 DEF Dies, Row, Final, WithInputs, Live, AtState
<1>11. CASE RecordOutput(j) \/ RecordArtifact(j) \/ RecordRecovery(j)
  BY <1>1, <1>2, <1>11
  DEF RecordOutput, RecordArtifact, RecordRecovery, Row, Final, WithInputs, Live, AtState
<1>12. CASE Succeed(j)
  BY <1>1, <1>2, <1>12 DEF Succeed, ReportOK, Row, Final, Working, WithInputs, Live, AtState
<1>13. CASE Report(j)
  <2>1. PICK code : job' = [job EXCEPT ![j].status = FailedStatus(job[j]), ![j].error = code]
    BY <1>13 DEF Report
  <2>2. job'[j] = [job[j] EXCEPT !.status = FailedStatus(job[j]), !.error = code]
    BY <1>1, <2>1
  <2>3. /\ runner'[j] = "ended" /\ runner[j] \in {"bad", "unsaved"}
        /\ UNCHANGED <<start, cleared, source, wrote>> /\ Status(j) \in Working
    BY <1>1, <1>2, <1>13 DEF Report, ReportOK
  <2>4. /\ FailedStatus(job[j]) \in {"reconciliation_required", "failed"}
        /\ job[j].op = "apply" /\ Status(j) = "applying"
              => FailedStatus(job[j]) = "reconciliation_required"
    BY DEF FailedStatus
  <2>5. QED
    BY <1>1, <2>2, <2>3, <2>4 DEF Row, Final, Working, WithInputs, Live, AtState
<1>14. QED
  BY <1>3, <1>4, <1>5, <1>6, <1>7, <1>8, <1>9, <1>10, <1>11, <1>12, <1>13 DEF Work

LEMMA InspectParts ==
  ASSUME TypeOK, CheckInv, NEW j \in Made, Parts(j), Inspect(j)
  PROVE  Parts(j)'
<1> USE DEF Parts, JobInv, SourceInv, ClearInv, Active, Status
<1>1. job \in [Jobs -> Row \cup {NoJob}] /\ j \in Jobs /\ job[j] \in Row
  BY BoundsAreNumbers DEF TypeOK, Made, Jobs
<1>2. cleared \in [Jobs -> Clearance \cup {NotCleared}]
  BY DEF TypeOK
<1>3. CASE RecordStartFailure(j)
  <2>1. job'[j] = [job[j] EXCEPT !.status = "failed", !.error = "runner_start_failed", !.revoked = TRUE]
    BY <1>1, <1>3 DEF RecordStartFailure
  <2>2. runner[j] = "ended" /\ Status(j) = "starting" /\ ~job[j].claimed
        /\ UNCHANGED <<start, runner, cleared, source, wrote>>
    BY <1>3 DEF RecordStartFailure, Concluded, CheckInv, StartFailed
  <2>3. QED
    BY <1>1, <2>1, <2>2 DEF Row, Final, WithInputs, Live, AtState
<1>4. CASE CompletePlan(j)
  <2>1. job'[j] = [job[j] EXCEPT !.status = "failed", !.error = "cancelled"]
    BY <1>1, <1>4 DEF CompletePlan
  <2>2. runner[j] = "ended" /\ job[j].op = "plan"
        /\ Status(j) \in {"initializing", "validating", "planning"}
        /\ UNCHANGED <<start, runner, cleared, source, wrote>>
    BY <1>4 DEF CompletePlan, Concluded, CheckInv, PlanInterrupted
  <2>3. QED
    BY <1>1, <2>1, <2>2 DEF Row, Final, WithInputs, Live, AtState
<1>5. CASE RecordInterruption(j)
  <2>1. job'[j] = [job[j] EXCEPT !.status = "reconciliation_required", !.error = "cancelled"]
    BY <1>1, <1>5 DEF RecordInterruption
  <2>2. runner[j] = "ended"
        /\ Status(j) \in {"initializing", "validating", "applying"}
        /\ UNCHANGED <<start, runner, cleared, source, wrote>>
    BY <1>5 DEF RecordInterruption, Concluded, CheckInv, ApplyInterrupted
  <2>3. QED
    BY <1>1, <2>1, <2>2 DEF Row, Final, WithInputs, Live, AtState
<1>6. CASE CheckReplan(j) \/ ObserveState(j)
  BY <1>6 DEF CheckReplan, ObserveState
<1>7. CASE ApproveReplan(j)
  <2>1. /\ Status(j) = "reconciliation_required" /\ runner[j] \notin Live
        /\ j \in wrote => j \in check.state
    BY <1>7 DEF ApproveReplan, Concluded, CheckInv
  <2>2. /\ cleared'[j].state = check.state
        /\ UNCHANGED <<job, start, runner, source, wrote>>
    BY <1>1, <1>2, <1>7 DEF ApproveReplan
  <2>3. QED
    BY <2>1, <2>2
<1>8. ASSUME NEW kind \in {"start", "plan", "apply"}, LookAtRunner(kind, j) PROVE Parts(j)'
  BY <1>8 DEF LookAtRunner
<1>9. QED
  BY <1>3, <1>4, <1>5, <1>6, <1>7, <1>8 DEF Inspect

\* A grant of a claimed job is not revoked, and the source does not move while a
\* worker can still use it.
LEMMA OwnerParts ==
  ASSUME TypeOK, NEW j \in Made, \A k \in Made : Parts(k), RevokeGrant(j) \/ UpgradeSource
  PROVE  \A k \in Made : Parts(k)'
<1> USE DEF Parts, JobInv, SourceInv, ClearInv, Active, Status
<1> TAKE k \in Made
<1>1. job \in [Jobs -> Row \cup {NoJob}] /\ k \in Jobs /\ job[k] \in Row
  BY BoundsAreNumbers DEF TypeOK, Made, Jobs
<1>2. CASE RevokeGrant(j)
  BY <1>1, <1>2 DEF RevokeGrant, Row, WithInputs
<1>3. CASE UpgradeSource
  <2>1. /\ job'[k] = job[k] \/ (job'[k] = [job[k] EXCEPT !.revoked = TRUE] /\ ~job[k].claimed)
        /\ UNCHANGED <<start, runner, cleared, wrote>>
    BY <1>1, <1>3 DEF UpgradeSource
  <2>2. ~UpgradeBlocked(k)
    BY <1>3 DEF UpgradeSource
  <2>3. ~Active(k) /\ (Status(k) = "reconciliation_required" => cleared[k] # NotCleared)
    BY <2>2 DEF UpgradeBlocked, ClearanceValid
  <2>4. runner[k] \notin WithInputs
    BY <2>3 DEF Live
  <2>5. QED
    BY <1>1, <2>1, <2>3, <2>4 DEF Row
<1>4. QED
  BY <1>2, <1>3

LEMMA PartsStep ==
  ASSUME IInv, [Next]_vars
  PROVE  \A k \in Made' : Parts(k)'
<1> TAKE k \in Made'
<1>1. TypeOK /\ CheckInv /\ Unmade /\ \A j \in Made : Parts(j)
  BY DEF IInv, Parts
<1>2. CASE k \notin Made
  <2>1. /\ k \in Jobs \ Made
        /\ job'[k].status = "none" /\ job'[k].error = "none"
        /\ ~job'[k].claimed /\ ~job'[k].revoked /\ ~job'[k].app
        /\ UNCHANGED <<start, runner, cleared, source, lock, wrote, check>>
    BY <1>1, <1>2, NewRow
  <2>2. start[k] = "idle" /\ runner[k] = "none" /\ cleared[k] = NotCleared /\ k \notin wrote
    BY <1>1, <2>1 DEF Unmade
  <2>3. QED
    BY <2>1, <2>2 DEF Parts, JobInv, SourceInv, ClearInv, Active, Status, WithInputs, AtState
<1>3. CASE k \in Made
  <2>1. k \in Jobs /\ Parts(k)
    BY <1>1, <1>3, BoundsAreNumbers DEF TypeOK, Made, Jobs
  <2>2. ASSUME NEW j \in Made, RevokeGrant(j) \/ UpgradeSource PROVE Parts(k)'
    BY <1>1, <1>3, <2>2, OwnerParts
  <2>3. ASSUME NEW j \in Made, Dispatch(j) \/ Work(j) \/ Inspect(j) PROVE Parts(k)'
    <3>1. CASE k = j
      BY <1>1, <2>3, <3>1, DispatchParts, WorkParts, InspectParts
    <3>2. CASE k # j
      <4>1. Untouched(k)
        BY <1>1, <2>1, <2>3, <3>2, OthersUntouched
      <4>2. QED
        BY <2>1, <4>1, PartsUntouched
    <3>3. QED
      BY <3>1, <3>2
  <2>4. ASSUME NEW op, NEW purpose, NEW plan, Make(op, purpose, plan) PROVE Parts(k)'
    <3>1. job'[k] = job[k] /\ UNCHANGED <<start, runner, cleared, source, wrote>>
      BY <1>1, <1>3, <2>1, <2>4 DEF Make, TypeOK, Made
    <3>2. QED
      BY <2>1, <3>1 DEF Parts, JobInv, SourceInv, ClearInv, Active, Status
  <2>5. CASE UNCHANGED <<job, start, runner, cleared, source, wrote>>
    BY <2>1, <2>5 DEF Parts, JobInv, SourceInv, ClearInv, Active, Status
  <2>6. QED
    BY <1>3, <2>2, <2>3, <2>4, <2>5
    DEF Next, vars, PreparePlan, PrepareApply, RevokeDelegation, Delegate, Expire, Forget, Unlock
<1>4. QED
  BY <1>2, <1>3

LEMMA UnmadeStep ==
  ASSUME TypeOK, Unmade, [Next]_vars
  PROVE  Unmade'
<1> SUFFICES ASSUME NEW k \in Jobs, k \notin Made'
             PROVE  start'[k] = "idle" /\ runner'[k] = "none" /\ cleared'[k] = NotCleared /\ k \notin wrote'
  BY DEF Unmade
<1>1. k \notin Made /\ (\A j \in Made : j # k)
  BY RowStep
<1>2. start[k] = "idle" /\ runner[k] = "none" /\ cleared[k] = NotCleared /\ k \notin wrote
  BY <1>1 DEF Unmade
<1>3. ASSUME NEW j \in Made, RevokeGrant(j) \/ Dispatch(j) \/ Work(j) \/ Inspect(j)
      PROVE  Untouched(k)
  BY <1>1, <1>3, OthersUntouched
<1>4. CASE UNCHANGED <<start, runner, cleared, wrote>>
  BY <1>2, <1>4
<1>5. QED
  BY <1>2, <1>3, <1>4
  DEF Next, vars, Untouched, Make, PreparePlan, PrepareApply, RevokeDelegation, Delegate,
      UpgradeSource, Expire, Forget, Unlock

\* A worker that is gone does not come back, and takes or writes nothing more.
Gone(k) ==
    /\ runner[k] = "ended" => runner'[k] = "ended"
    /\ Status(k) \in Final => runner'[k] \notin Live
    /\ k \in wrote' => k \in wrote
    /\ lock' = k => lock = k

LEMMA GoneStep ==
  ASSUME TypeOK, NEW k \in Made, JobInv(k), runner[k] \notin Live, [Next]_vars
  PROVE  Gone(k)
<1> USE DEF Gone
<1>1. /\ k \in Jobs /\ 0 # k
      /\ runner \in [Jobs -> {"none", "ended"} \cup Live]
  BY BoundsAreNumbers DEF TypeOK, Made, Jobs
<1>2. CASE UNCHANGED <<runner, wrote>> /\ (lock' = lock \/ lock' = 0)
  BY <1>1, <1>2
<1>3. ASSUME NEW j \in Made, j # k, RevokeGrant(j) \/ Dispatch(j) \/ Work(j) \/ Inspect(j)
      PROVE  Gone(k)
  BY <1>1, <1>3, OthersUntouched DEF Untouched
<1>4. CASE Dispatch(k)
  <2>1. CASE Launch(k)
    BY <1>1, <2>1 DEF Launch, JobInv, Final
  <2>2. CASE ~Launch(k)
    BY <1>2, <1>4, <2>2 DEF Dispatch, Reserve, IssueTicket, Bind, StartFails, FailStart, ApiCrash
  <2>3. QED
    BY <2>1, <2>2
<1>5. CASE Work(k)
  BY <1>1, <1>5
  DEF Live, WithInputs, Work, Consume, Claim, Release, Stage, GoesWrong, TakeLock, Finish, Dies,
      RecordOutput, RecordArtifact, RecordRecovery, Succeed, Report
<1>6. CASE RevokeGrant(k) \/ Inspect(k)
  BY <1>2, <1>6
  DEF RevokeGrant, Inspect, LookAtRunner, RecordStartFailure, CompletePlan, RecordInterruption,
      CheckReplan, ObserveState, ApproveReplan
<1>7. QED
  BY <1>2, <1>3, <1>4, <1>5, <1>6
  DEF Next, vars, Make, PreparePlan, PrepareApply, RevokeDelegation, Delegate, UpgradeSource,
      Expire, Forget, Unlock

\* Who looks, and what is seen.
LEMMA LookStep ==
  ASSUME [Next]_vars
  PROVE  \/ check' = check \/ check' = NoInspection
         \/ \E j \in Made : \/ \E kind \in {"start", "plan", "apply"} : LookAtRunner(kind, j)
                            \/ CheckReplan(j) \/ ObserveState(j)
<1>1. ASSUME NEW j \in Made, RevokeGrant(j) \/ Dispatch(j) PROVE check' = check
  BY <1>1
  DEF RevokeGrant, Dispatch, Reserve, IssueTicket, Bind, Launch, StartFails, FailStart, ApiCrash
<1>2. ASSUME NEW j \in Made, Work(j) PROVE check' = check
  BY <1>2
  DEF Work, Consume, Claim, Release, Stage, GoesWrong, TakeLock, Finish, Dies,
      RecordOutput, RecordArtifact, RecordRecovery, Succeed, Report
<1>3. QED
  BY <1>1, <1>2
  DEF Next, vars, Inspect, RecordStartFailure, CompletePlan, RecordInterruption, ApproveReplan,
      Make, PreparePlan, PrepareApply, RevokeDelegation, Delegate, UpgradeSource,
      Expire, Forget, Unlock

LEMMA CheckStep ==
  ASSUME IInv, [Next]_vars
  PROVE  CheckInv'
<1>1. TypeOK /\ CheckInv /\ \A j \in Made : JobInv(j) /\ 0 # j
  BY BoundsAreNumbers DEF IInv, TypeOK, Made
<1>2. "ended" \notin Live /\ "reconciliation_required" \in Final
  BY DEF Live, WithInputs, Final
<1>3. CASE check' = check
  <2>1. CASE check = NoInspection
    BY <1>3, <2>1 DEF CheckInv
  <2>2. CASE check # NoInspection
    <3>1. check.job \in Made /\ check.job \in Made' /\ RowKept(check.job)
      BY <1>1, <2>2, RowStep DEF CheckInv
    <3>2. ASSUME check.kind \in {"start", "plan", "apply"} PROVE runner'[check.job] = "ended"
      <4>1. runner[check.job] = "ended"
        BY <1>1, <2>2, <3>2 DEF CheckInv
      <4>2. QED
        BY <1>1, <1>2, <3>1, <4>1, GoneStep DEF Gone
    <3>3. ASSUME check.kind = "observed"
          PROVE  /\ job'[check.job].status = "reconciliation_required"
                 /\ runner'[check.job] \notin Live /\ lock' # check.job
                 /\ check.job \in wrote' => check.job \in check.state
      <4>1. /\ Status(check.job) = "reconciliation_required"
            /\ runner[check.job] \notin Live /\ lock # check.job
            /\ check.job \in wrote => check.job \in check.state
        BY <1>1, <2>2, <3>3 DEF CheckInv
      <4>2. Gone(check.job)
        BY <1>1, <3>1, <4>1, GoneStep
      <4>3. QED
        BY <1>2, <3>1, <4>1, <4>2 DEF Gone, RowKept
    <3>4. QED
      BY <1>3, <3>1, <3>2, <3>3 DEF CheckInv, Status
  <2>3. QED
    BY <2>1, <2>2
<1>4. CASE check' = NoInspection
  BY <1>4 DEF CheckInv
<1>5. ASSUME NEW j \in Made, NEW kind \in {"start", "plan", "apply"}, LookAtRunner(kind, j)
      PROVE  CheckInv'
  BY <1>5 DEF CheckInv, LookAtRunner, Stopped, Made
<1>6. ASSUME NEW j \in Made, CheckReplan(j) PROVE CheckInv'
  BY <1>6 DEF CheckInv, CheckReplan, Made
<1>7. ASSUME NEW j \in Made, ObserveState(j) PROVE CheckInv'
  <2>1. check # NoInspection /\ check.kind = "token" /\ check.job = j
    BY <1>7 DEF ObserveState, Concluded
  <2>2. check'.kind = "observed" /\ check'.job = j /\ check'.state = check.state
    BY <1>1, <1>7, <2>1 DEF ObserveState, TypeOK, Inspection
  <2>3. runner[j] \notin Live
    <3>1. CASE Mode(j) = "attested"
      BY <1>7, <3>1 DEF ObserveState
    <3>2. CASE Mode(j) # "attested"
      BY <1>1, <1>2, <3>2 DEF Mode, JobInv
    <3>3. QED
      BY <3>1, <3>2
  <2>4. Status(j) = "reconciliation_required" /\ lock = 0 /\ wrote = check.state
    BY <1>7 DEF ObserveState, Clearable, SameState
  <2>5. UNCHANGED <<made, job, runner, lock, wrote>>
    BY <1>7 DEF ObserveState
  <2>6. QED
    BY <1>1, <2>2, <2>3, <2>4, <2>5 DEF CheckInv, Made, Status
<1>8. QED
  BY <1>3, <1>4, <1>5, <1>6, <1>7, LookStep

\* Only a worker whose job is dispatched gets credentials and inputs.
LEMMA InputsStep ==
  ASSUME TypeOK, [Next]_vars, NEW k \in Made, runner'[k] \in WithInputs, runner[k] \notin WithInputs
  PROVE  Active(k) /\ UNCHANGED job
<1>1. /\ k \in Jobs /\ runner \in [Jobs -> {"none", "ended"} \cup Live]
  BY BoundsAreNumbers DEF TypeOK, Made, Jobs
<1>2. ASSUME NEW j \in Made, j # k, RevokeGrant(j) \/ Dispatch(j) \/ Work(j) \/ Inspect(j)
      PROVE  FALSE
  BY <1>1, <1>2, OthersUntouched DEF Untouched
<1>3. CASE Dispatch(k)
  BY <1>1, <1>3
  DEF WithInputs, Dispatch, Reserve, IssueTicket, Bind, Launch, StartFails, FailStart, ApiCrash
<1>4. CASE Work(k)
  <2>1. CASE Release(k)
    BY <2>1 DEF Release, ReportOK, Active, Working, Final
  <2>2. CASE ~Release(k)
    BY <1>1, <1>4, <2>2
    DEF WithInputs, Work, Consume, Claim, Stage, GoesWrong, TakeLock, Finish, Dies,
        RecordOutput, RecordArtifact, RecordRecovery, Succeed, Report
  <2>3. QED
    BY <2>1, <2>2
<1>5. CASE RevokeGrant(k) \/ Inspect(k)
  BY <1>5
  DEF RevokeGrant, Inspect, LookAtRunner, RecordStartFailure, CompletePlan, RecordInterruption,
      CheckReplan, ObserveState, ApproveReplan
<1>6. CASE UNCHANGED runner
  BY <1>6
<1>7. QED
  BY <1>2, <1>3, <1>4, <1>5, <1>6
  DEF Next, vars, Make, PreparePlan, PrepareApply, RevokeDelegation, Delegate, UpgradeSource,
      Expire, Forget, Unlock

LEMMA OneWorkerStep ==
  ASSUME IInv, [Next]_vars
  PROVE  OneWorker'
<1> SUFFICES ASSUME NEW j \in Made', NEW k \in Made', Active(j)', job'[j].purpose = "standard", k # j,
                    runner'[k] \in WithInputs
             PROVE  FALSE
  BY DEF OneWorker
<1>1. TypeOK /\ OneActive /\ OneWorker /\ Unmade /\ \A i \in Made : JobInv(i) /\ ClearInv(i)
  BY DEF IInv
<1>2. j \in Made
  BY <1>1, NewRow DEF Active, Status
<1>3. k \in Made
  <2>1. CASE k \notin Made
    BY <1>1, <2>1, NewRow DEF Unmade, WithInputs
  <2>2. QED
    BY <2>1
<1>4. job[j].purpose = "standard" /\ (Active(j) \/ Reserve(j))
  BY <1>1, <1>2, RowStep DEF RowKept, Active, Status
<1>5. CASE runner[k] \notin WithInputs
  <2>1. Active(k) /\ UNCHANGED job
    BY <1>1, <1>3, <1>5, InputsStep
  <2>2. Active(j)
    BY <2>1 DEF Active, Status
  <2>3. QED
    BY <1>1, <1>2, <1>3, <2>1, <2>2 DEF OneActive
<1>6. CASE runner[k] \in WithInputs
  <2>1. ~Active(j)
    BY <1>1, <1>2, <1>3, <1>4, <1>6 DEF OneWorker
  <2>2. ~Bars(k, "standard")
    BY <1>3, <1>4, <2>1 DEF Reserve, Blocked
  <2>3. Status(k) = "reconciliation_required"
    BY <1>1, <1>3, <1>6, <2>2 DEF JobInv, Bars
  <2>4. cleared[k] # NotCleared
    BY <2>2, <2>3 DEF Bars, ClearanceValid
  <2>5. QED
    BY <1>1, <1>3, <1>6, <2>4 DEF ClearInv, Live
<1>7. QED
  BY <1>5, <1>6

\* Only an approval changes a clearance.
LEMMA ClearedStep ==
  ASSUME TypeOK, [Next]_vars, NEW r \in Jobs, cleared'[r] # cleared[r]
  PROVE  r \in Made /\ ApproveReplan(r)
<1>1. cleared \in [Jobs -> Clearance \cup {NotCleared}]
  BY DEF TypeOK
<1>2. ASSUME NEW j \in Made, RevokeGrant(j) \/ Dispatch(j) PROVE FALSE
  BY <1>2
  DEF RevokeGrant, Dispatch, Reserve, IssueTicket, Bind, Launch, StartFails, FailStart, ApiCrash
<1>3. ASSUME NEW j \in Made, Work(j) PROVE FALSE
  BY <1>3
  DEF Work, Consume, Claim, Release, Stage, GoesWrong, TakeLock, Finish, Dies,
      RecordOutput, RecordArtifact, RecordRecovery, Succeed, Report
<1>4. ASSUME NEW j \in Made, Inspect(j) PROVE j = r /\ ApproveReplan(j)
  BY <1>1, <1>4
  DEF Inspect, LookAtRunner, RecordStartFailure, CompletePlan, RecordInterruption,
      CheckReplan, ObserveState, ApproveReplan
<1>5. QED
  BY <1>2, <1>3, <1>4
  DEF Next, vars, Make, PreparePlan, PrepareApply, RevokeDelegation, Delegate, UpgradeSource,
      Expire, Forget, Unlock

LEMMA ClearanceStep ==
  ASSUME IInv, [Next]_vars
  PROVE  PlannedAfterClearance'
<1> SUFFICES ASSUME NEW a \in Made', NEW r \in Made', job'[a].op = "apply", Active(a)',
                    cleared'[r] # NotCleared
             PROVE  job'[a].plan > cleared'[r].at
  BY DEF PlannedAfterClearance
<1>1. TypeOK /\ PlannedAfterClearance /\ Unmade
  BY DEF IInv
<1>2. a \in Made
  BY <1>1, NewRow DEF Active, Status
<1>3. /\ job[a].op = "apply" /\ job'[a].plan = job[a].plan
      /\ Active(a) \/ Reserve(a)
  BY <1>1, <1>2, RowStep DEF RowKept, Active, Status
<1>4. r \in Jobs
  <2>1. TypeOK'
    BY <1>1, TypeStep
  <2>2. QED
    BY <2>1, BoundsAreNumbers DEF TypeOK, Made, Jobs
<1>5. cleared'[r] = cleared[r]
  <2>1. SUFFICES ASSUME cleared'[r] # cleared[r] PROVE FALSE
    OBVIOUS
  <2>2. r \in Made /\ ApproveReplan(r)
    BY <1>1, <1>4, <2>1, ClearedStep
  <2>3. UNCHANGED job /\ Status(r) = "reconciliation_required" /\ ~\E k \in Made \ {r} : Active(k)
    BY <2>2 DEF ApproveReplan, Clearable
  <2>4. Active(a)
    BY <2>3 DEF Active, Status
  <2>5. QED
    BY <1>2, <2>3, <2>4 DEF Active, Final
<1>6. r \in Made
  BY <1>1, <1>4, <1>5 DEF Unmade
<1>7. CASE Active(a)
  BY <1>1, <1>2, <1>3, <1>5, <1>6, <1>7 DEF PlannedAfterClearance
<1>8. CASE Reserve(a)
  BY <1>3, <1>5, <1>6, <1>8 DEF Reserve, ContextOK, PlanUsable, Fresh
<1>9. QED
  BY <1>3, <1>7, <1>8

---------------------------------------------------------------------------
(* The theorems. *)

LEMMA IInvInit == Init => IInv
<1> SUFFICES ASSUME Init PROVE IInv
  OBVIOUS
<1>1. Made = {} /\ 0 \notin Jobs
  BY DEF Init, Made, Jobs
<1>2. TypeOK
  BY TypeInit
<1>3. Unmade /\ CheckInv
  BY DEF Init, Unmade, CheckInv
<1>4. QED
  BY <1>1, <1>2, <1>3 DEF IInv, OneActive, OneWorker, AppliesNewestPlan, PlannedAfterClearance

LEMMA IInvStep == IInv /\ [Next]_vars => IInv'
<1> SUFFICES ASSUME IInv, [Next]_vars PROVE IInv'
  OBVIOUS
<1>1. TypeOK' /\ OneActive' /\ AppliesNewestPlan' /\ Unmade'
  BY TypeStep, OneActiveStep, NewestPlanStep, UnmadeStep DEF IInv
<1>2. OneWorker' /\ PlannedAfterClearance' /\ CheckInv'
  BY OneWorkerStep, ClearanceStep, CheckStep
<1>3. \A j \in Made' : JobInv(j)' /\ SourceInv(j)' /\ ClearInv(j)'
  BY PartsStep DEF Parts
<1>4. QED
  BY <1>1, <1>2, <1>3 DEF IInv

LEMMA Inductive == Spec => []IInv
BY IInvInit, IInvStep, PTL DEF Spec

\* At most one job of an order is dispatched at a time: every reservation looks for
\* another dispatch in the transaction that makes its own.
THEOREM OneActiveCorrect == Spec => []OneActive
<1>1. IInv => OneActive
  BY DEF IInv
<1>2. QED
  BY <1>1, Inductive, PTL

\* A worker that may still hold credentials and inputs keeps standard jobs from being
\* dispatched: its own is active, or is left to reconcile and not cleared.
THEOREM OneWorkerCorrect == Spec => []OneWorker
<1>1. IInv => OneWorker
  BY DEF IInv
<1>2. QED
  BY <1>1, Inductive, PTL

\* An Apply that is dispatched is of the newest Plan: it was when it was reserved, and
\* no Plan is prepared beside an active Apply.
THEOREM NewestPlanCorrect == Spec => []AppliesNewestPlan
<1>1. IInv => AppliesNewestPlan
  BY DEF IInv
<1>2. QED
  BY <1>1, Inductive, PTL

\* An Apply that is dispatched rests on a Plan made after every clearance of the order:
\* a clearance is not recorded while an Apply is dispatched.
THEOREM PlannedAfterClearanceCorrect == Spec => []PlannedAfterClearance
<1>1. IInv => PlannedAfterClearance
  BY DEF IInv
<1>2. QED
  BY <1>1, Inductive, PTL

\* A revoked grant never released anything: a worker gets its inputs only with a claimed
\* grant, and a claimed grant is not revoked.
THEOREM RevokedNeverReleasedCorrect == Spec => []RevokedNeverReleased
<1>1. IInv => RevokedNeverReleased
  BY DEF IInv, RevokedNeverReleased, JobInv
<1>2. QED
  BY <1>1, Inductive, PTL

\* No upgrade moves the source under a worker that can still work: such a worker's job is
\* active or is left to reconcile, and only a worker that is gone is cleared.
THEOREM SourceHeldCorrect == Spec => []SourceHeld
<1>1. IInv => SourceHeld
  BY DEF IInv, SourceHeld, SourceInv
<1>2. QED
  BY <1>1, Inductive, PTL

\* An Apply that wrote State is never plainly failed, whoever closed it.
THEOREM FailedWroteNothingCorrect == Spec => []FailedWroteNothing
<1>1. IInv => FailedWroteNothing
  BY DEF IInv, FailedWroteNothing, JobInv
<1>2. QED
  BY <1>1, Inductive, PTL

\* A clearance was given for a State that holds what the cleared Apply wrote.
THEOREM ClearedStateIsCompleteCorrect == Spec => []ClearedStateIsComplete
<1>1. IInv => ClearedStateIsComplete
  BY DEF IInv, ClearedStateIsComplete, ClearInv
<1>2. QED
  BY <1>1, Inductive, PTL

\* When a clearance is recorded, what was seen before the transaction still holds: the
\* worker of the cleared job is gone and does not hold the State lock.
THEOREM ClearedIsStoppedCorrect == Spec => ClearedIsStopped
<1>1. ASSUME IInv, [Next]_vars
      PROVE  [\A j \in Jobs : cleared'[j] # cleared[j] => lock # j /\ runner[j] \notin Live]_vars
  <2>1. ASSUME NEW j \in Jobs, cleared'[j] # cleared[j] PROVE lock # j /\ runner[j] \notin Live
    <3>1. ApproveReplan(j)
      BY <1>1, <2>1, ClearedStep DEF IInv
    <3>2. QED
      BY <1>1, <3>1 DEF IInv, CheckInv, ApproveReplan, Concluded
  <2>2. QED
    BY <2>1
<1>2. QED
  BY <1>1, Inductive, PTL DEF Spec, ClearedIsStopped
===========================================================================
