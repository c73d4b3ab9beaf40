-------------------------- MODULE ApplicationJobs --------------------------
(***************************************************************************)
(* The jobs of one application order: a Plan or an Apply that its owner    *)
(* prepares, that the API dispatches to a one-shot runner, that the runner *)
(* reports on, and that the owner or an operator closes when the runner    *)
(* was lost.  Modelled is the delegated path, in which the platform's      *)
(* execution delegation releases credential and backend; the older path,   *)
(* in which a platform engineer approves the backend of each job, is not.  *)
(*                                                                         *)
(* Every operator named after an SQL function is one transaction that      *)
(* holds the row of the order, so they are serialised; what happens        *)
(* between them (Cloud Foundry, OpenTofu, the object store, lost answers)  *)
(* is not.                                                                 *)
(*                                                                         *)
(* Simplifications.  A grant, its ticket and its claim expire together, 25 *)
(* minutes after the job is made, so jobs expire in the order they were    *)
(* made (aged).  The hour in which a Plan may be applied and the 20        *)
(* minutes a reservation must have left only disable steps and are left    *)
(* out.  An Apply writes State at most once, so the version of State is    *)
(* the set of the jobs that wrote it.                                      *)
(***************************************************************************)
EXTENDS Integers, FiniteSets

CONSTANTS
    MaxJobs,          \* bound: jobs the owner makes
    MaxDelegations,   \* bound: execution delegations configured one after another
    MaxUpgrades,      \* bound: upgrades of the source of the order
    Purposes          \* purposes the owner asks for

ASSUME BoundsAreNumbers == MaxJobs \in Nat /\ MaxDelegations \in Nat \ {0} /\ MaxUpgrades \in Nat
ASSUME KnownPurposes == Purposes \subseteq {"standard", "destroy", "drift"}

VARIABLES
    job,         \* the rows of each job: job, grant, ticket, claim, dispatch, records
    made,        \* jobs 1 .. made exist
    aged,        \* the capabilities of jobs 1 .. aged have expired
    start,       \* dispatchJob of the API, per job
    runner,      \* the worker in the job's container
    cleared,     \* recovery clearances
    delegation,  \* the newest execution delegation and whether it is in force
    source,      \* the execution binding of the order
    lock,        \* the holder of the State lock, 0 when it is free
    wrote,       \* jobs that wrote State
    check        \* what the owner or the operator has looked at

vars == <<job, made, aged, start, runner, cleared, delegation, source, lock, wrote, check>>

Jobs == 1 .. MaxJobs
Operations == {"plan", "apply"}
Final == {"succeeded", "failed", "reconciliation_required"}
Working == {"starting", "initializing", "validating", "planning", "applying"}
Statuses == {"none", "reserved"} \cup Working \cup Final
Errors == {"none", "apply_failed", "state_failed", "cancelled", "runner_start_failed", "other"}
\* a worker that has not ended, and one that holds credential and inputs
WithInputs == {"released", "ready", "working", "good", "bad", "unsaved"}
Live == {"running", "consumed", "claimed"} \cup WithInputs

Row == [op : Operations, purpose : Purposes, plan : 0 .. MaxJobs, source : 0 .. MaxUpgrades,
        delegation : 1 .. MaxDelegations, revoked : BOOLEAN, ticket : {"none", "issued", "consumed"},
        claimed : BOOLEAN, status : Statuses, app : BOOLEAN, error : Errors,
        records : SUBSET {"artifact", "output", "recovery"}]
NoJob == [op |-> "none"]
Clearance == [mode : {"reported", "attested"}, at : 0 .. MaxJobs, state : SUBSET Jobs]
NotCleared == [mode |-> "none"]
Inspection == [kind : {"start", "plan", "apply"}, job : Jobs]
              \cup [kind : {"token", "observed"}, job : Jobs, state : SUBSET Jobs]
NoInspection == [kind |-> "none"]

Made == 1 .. made
Status(j) == job[j].status
Expired(j) == j <= aged
Active(j) == Status(j) \notin Final \cup {"none"}

Init ==
    /\ job = [j \in Jobs |-> NoJob]
    /\ made = 0
    /\ aged = 0
    /\ start = [j \in Jobs |-> "idle"]
    /\ runner = [j \in Jobs |-> "none"]
    /\ cleared = [j \in Jobs |-> NotCleared]
    /\ delegation = [id |-> 1, current |-> TRUE]
    /\ source = 0
    /\ lock = 0
    /\ wrote = {}
    /\ check = NoInspection

----------------------------------------------------------------------------
(* What the database decides on.                                           *)

UnexpiredTicket(j) == job[j].ticket # "none" /\ ~Expired(j)

\* application_recovery_replan_valid
ClearanceValid(j) ==
    /\ cleared[j] # NotCleared
    /\ Status(j) = "reconciliation_required"
    /\ job[j].error # "state_failed"
    /\ "recovery" \notin job[j].records
    /\ \/ cleared[j].mode = "attested" /\ (job[j].revoked \/ Expired(j)) /\ ~UnexpiredTicket(j)
       \/ /\ cleared[j].mode = "reported" /\ job[j].error = "apply_failed"
          /\ job[j].ticket = "consumed" /\ "output" \in job[j].records

\* application_execution_blocked: a job k of the order that bars one of this purpose
Bars(k, purpose) ==
    \/ Active(k)
    \/ /\ Status(k) = "reconciliation_required"
       /\ ~(purpose = "standard" /\ ClearanceValid(k))
       /\ ~(purpose # "standard" /\ ~UnexpiredTicket(k) /\ "recovery" \notin job[k].records)

Blocked(j, purpose, applyOnly) ==
    \E k \in Made \ {j} : Bars(k, purpose) /\ (applyOnly => job[k].op = "apply")

Fresh_always(p) == TRUE

\* assert_application_replan_fresh
Fresh(p) == \A r \in Made : cleared[r] # NotCleared => p > cleared[r].at

InForce(j) == delegation.current /\ job[j].delegation = delegation.id

PlanUsable_older(p) ==
    /\ job[p].op = "plan" /\ job[p].purpose # "drift"
    /\ Status(p) = "succeeded" /\ "artifact" \in job[p].records
    /\ ~job[p].revoked
    /\ InForce(p)
    /\ Fresh(p)

\* application_apply_plan, application_running_apply_plan
PlanUsable(p) ==
    /\ job[p].op = "plan" /\ job[p].purpose # "drift"
    /\ Status(p) = "succeeded" /\ "artifact" \in job[p].records
    /\ ~job[p].revoked
    /\ InForce(p)
    /\ ~\E n \in Made : n > p /\ job[n].op = "plan"
    /\ Fresh(p)

\* delegated_application_context
ContextOK(j) ==
    /\ ~job[j].revoked /\ ~Expired(j)
    /\ InForce(j)
    /\ job[j].op = "apply" => PlanUsable(job[j].plan)

\* assert_application_execution_binding
SourceOK(j) == job[j].source = source

\* what a report of the runner passes before anything is written
ReportOK(j) ==
    /\ ContextOK(j)
    /\ job[j].ticket = "consumed" /\ job[j].claimed
    /\ Status(j) \in Working

----------------------------------------------------------------------------
(* The owner prepares jobs; the platform engineer changes what they rest   *)
(* on.                                                                     *)

NewJob(op, purpose, plan) ==
    [op |-> op, purpose |-> purpose, plan |-> plan, source |-> source, delegation |-> delegation.id,
     revoked |-> FALSE, ticket |-> "none", claimed |-> FALSE, status |-> "none", app |-> FALSE,
     error |-> "none", records |-> {}]

Make(op, purpose, plan) ==
    /\ made < MaxJobs
    /\ delegation.current
    /\ made' = made + 1
    /\ job' = [job EXCEPT ![made + 1] = NewJob(op, purpose, plan)]
    /\ UNCHANGED <<aged, start, runner, cleared, delegation, source, lock, wrote, check>>

\* prepareJob: only an Apply bars a Plan from being prepared
PreparePlan(purpose) ==
    /\ ~Blocked(made + 1, purpose, TRUE)
    /\ Make("plan", purpose, 0)

\* startApply up to the new job: its inputs are the Plan's, and must still be current
PrepareApply(p) ==
    /\ PlanUsable(p)
    /\ ~\E a \in Made : job[a].plan = p
    /\ SourceOK(p)
    /\ ~Blocked(made + 1, job[p].purpose, FALSE)
    /\ Make("apply", job[p].purpose, p)

RevokeGrant_claimed(j) ==
    /\ ~job[j].revoked
    /\ job' = [job EXCEPT ![j].revoked = TRUE]
    /\ UNCHANGED <<made, aged, start, runner, cleared, delegation, source, lock, wrote, check>>

\* revokeJobGrant: refused once the grant is claimed
RevokeGrant(j) ==
    /\ ~job[j].revoked /\ ~job[j].claimed
    /\ job' = [job EXCEPT ![j].revoked = TRUE]
    /\ UNCHANGED <<made, aged, start, runner, cleared, delegation, source, lock, wrote, check>>

\* configure_application_execution, revoking and not
RevokeDelegation ==
    /\ delegation.current
    /\ delegation' = [delegation EXCEPT !.current = FALSE]
    /\ UNCHANGED <<job, made, aged, start, runner, cleared, source, lock, wrote, check>>

Delegate ==
    /\ ~delegation.current /\ delegation.id < MaxDelegations
    /\ delegation' = [id |-> delegation.id + 1, current |-> TRUE]
    /\ UNCHANGED <<job, made, aged, start, runner, cleared, source, lock, wrote, check>>

UpgradeBlocked_claimed(j) ==
    \/ Status(j) = "reconciliation_required" /\ ~ClearanceValid(j)
    \/ Status(j) \notin {"succeeded", "failed"} /\ job[j].op = "apply" /\ ~job[j].revoked /\ ~Expired(j)

\* application_execution_blockers
UpgradeBlocked(j) ==
    \/ Active(j)
    \/ Status(j) = "reconciliation_required" /\ ~ClearanceValid(j)
    \/ UnexpiredTicket(j) /\ ~(job[j].op = "plan" /\ Status(j) \in {"succeeded", "failed"})
    \/ /\ Status(j) \notin {"succeeded", "failed"} /\ ~Expired(j)
       /\ job[j].claimed \/ (job[j].op = "apply" /\ ~job[j].revoked)

\* upgrade_application_execution: grants of Plans that were not claimed are revoked
UpgradeSource ==
    /\ source < MaxUpgrades
    /\ ~\E j \in Made : UpgradeBlocked(j)
    /\ source' = source + 1
    /\ job' = [j \in Jobs |-> IF j \in Made /\ job[j].op = "plan" /\ ~job[j].claimed
                                THEN [job[j] EXCEPT !.revoked = TRUE] ELSE job[j]]
    /\ UNCHANGED <<made, aged, start, runner, cleared, delegation, lock, wrote, check>>

\* 25 minutes have passed since the next job was made
Expire ==
    /\ aged < made
    /\ aged' = aged + 1
    /\ UNCHANGED <<job, made, start, runner, cleared, delegation, source, lock, wrote, check>>

----------------------------------------------------------------------------
(* dispatchJob: reserve, create the app, issue the ticket, bind the app,   *)
(* launch the task.                                                        *)

Reserve(j) ==
    /\ Status(j) = "none" /\ job[j].ticket = "none" /\ ~job[j].claimed
    /\ ContextOK(j) /\ SourceOK(j)
    /\ ~Blocked(j, job[j].purpose, FALSE)
    /\ job' = [job EXCEPT ![j].status = "reserved"]
    /\ start' = [start EXCEPT ![j] = "reserved"]
    /\ UNCHANGED <<made, aged, runner, cleared, delegation, source, lock, wrote, check>>

IssueTicket(j) ==
    /\ start[j] = "reserved" /\ Status(j) = "reserved" /\ job[j].ticket = "none"
    /\ ContextOK(j) /\ SourceOK(j)
    /\ job' = [job EXCEPT ![j].ticket = "issued"]
    /\ start' = [start EXCEPT ![j] = "ticket"]
    /\ UNCHANGED <<made, aged, runner, cleared, delegation, source, lock, wrote, check>>

Bind(j) ==
    /\ start[j] = "ticket" /\ Status(j) = "reserved" /\ job[j].ticket = "issued"
    /\ ContextOK(j) /\ SourceOK(j)
    /\ job' = [job EXCEPT ![j].status = "starting", ![j].app = TRUE]
    /\ start' = [start EXCEPT ![j] = "bound"]
    /\ UNCHANGED <<made, aged, runner, cleared, delegation, source, lock, wrote, check>>

\* the task is created; its answer may be lost
Launch(j) ==
    /\ start[j] = "bound"
    /\ runner' = [runner EXCEPT ![j] = "running"]
    /\ \E then \in {"idle", "failing"} : start' = [start EXCEPT ![j] = then]
    /\ UNCHANGED <<job, made, aged, cleared, delegation, source, lock, wrote, check>>

\* a step of the start throws, before the app is bound or after it
StartFails(j) ==
    /\ start[j] \in {"reserved", "ticket", "bound"}
    /\ start' = [start EXCEPT ![j] = "failing"]
    /\ UNCHANGED <<job, made, aged, runner, cleared, delegation, source, lock, wrote, check>>

AfterFail_failed(row) ==
    IF row.status \in {"reserved"} \cup Working THEN [row EXCEPT !.status = "failed"] ELSE row

\* delegated_application_operation 'fail': what may have started is left to reconcile
AfterFail(row) ==
    IF row.status \in {"reserved"} \cup Working
      THEN [row EXCEPT !.status = IF row.app THEN "reconciliation_required" ELSE "failed"]
      ELSE row

FailStart(j) ==
    /\ start[j] = "failing"
    /\ job' = [job EXCEPT ![j] = AfterFail(job[j])]
    /\ start' = [start EXCEPT ![j] = "idle"]
    /\ UNCHANGED <<made, aged, runner, cleared, delegation, source, lock, wrote, check>>

\* the API restarts; nothing takes the dispatch up again
ApiCrash(j) ==
    /\ start[j] # "idle"
    /\ start' = [start EXCEPT ![j] = "idle"]
    /\ UNCHANGED <<job, made, aged, runner, cleared, delegation, source, lock, wrote, check>>

----------------------------------------------------------------------------
(* The runner.  A refused report ends the worker, as a crash does (Dies);  *)
(* OpenTofu itself runs on when the API can no longer be told.             *)

\* resolve_delegated_application_runner, consume: the ticket works once
Consume(j) ==
    /\ runner[j] = "running"
    /\ job[j].ticket = "issued" /\ Status(j) \in Working
    /\ ContextOK(j) /\ SourceOK(j)
    /\ job' = [job EXCEPT ![j].ticket = "consumed"]
    /\ runner' = [runner EXCEPT ![j] = "consumed"]
    /\ UNCHANGED <<made, aged, start, cleared, delegation, source, lock, wrote, check>>

\* claimJobGrant: from here the grant can not be revoked
Claim(j) ==
    /\ runner[j] = "consumed"
    /\ Status(j) \in Working /\ ~job[j].claimed
    /\ ContextOK(j) /\ SourceOK(j)
    /\ job' = [job EXCEPT ![j].claimed = TRUE]
    /\ runner' = [runner EXCEPT ![j] = "claimed"]
    /\ UNCHANGED <<made, aged, start, cleared, delegation, source, lock, wrote, check>>

\* runnerInput, by its last look at the context: an Apply's source is not looked at again
Release(j) ==
    /\ runner[j] = "claimed"
    /\ ReportOK(j)
    /\ job[j].op = "plan" => SourceOK(j)
    /\ runner' = [runner EXCEPT ![j] = "released"]
    /\ UNCHANGED <<job, made, aged, start, cleared, delegation, source, lock, wrote, check>>

\* guard_application_dispatch: the stages of a job in their order
NextStage(j) ==
    CASE Status(j) = "starting" -> "initializing"
      [] Status(j) = "initializing" -> "validating"
      [] Status(j) = "validating" -> IF job[j].op = "apply" THEN "applying" ELSE "planning"
      [] OTHER -> "none"

\* runnerStage; the last stage is reported before OpenTofu plans or applies
Stage(j) ==
    /\ runner[j] = "released" /\ ReportOK(j)
    /\ NextStage(j) # "none"
    /\ job' = [job EXCEPT ![j].status = NextStage(j)]
    /\ runner' = [runner EXCEPT ![j] = IF Status(j) = "validating" THEN "ready" ELSE @]
    /\ UNCHANGED <<made, aged, start, cleared, delegation, source, lock, wrote, check>>

\* a phase fails, the deadline passes, or the answer to a report is lost
GoesWrong(j) ==
    /\ runner[j] \in {"released", "ready", "good"}
    /\ runner' = [runner EXCEPT ![j] = "bad"]
    /\ UNCHANGED <<job, made, aged, start, cleared, delegation, source, lock, wrote, check>>

\* OpenTofu takes the State lock, or gives up on a held one
TakeLock(j) ==
    /\ runner[j] = "ready" /\ lock = 0
    /\ lock' = j
    /\ runner' = [runner EXCEPT ![j] = "working"]
    /\ UNCHANGED <<job, made, aged, start, cleared, delegation, source, wrote, check>>

\* OpenTofu ends: State is written or could not be, then the lock may be left behind
Finish(j) ==
    /\ runner[j] = "working"
    /\ \/ /\ \E outcome \in {"good", "bad"} : runner' = [runner EXCEPT ![j] = outcome]
          /\ wrote' = wrote \cup (IF job[j].op = "apply" THEN {j} ELSE {})
          /\ lock' = 0
       \/ /\ job[j].op = "apply"
          /\ runner' = [runner EXCEPT ![j] = "unsaved"]
          /\ lock' \in {0, j}
          /\ wrote' = wrote
    /\ UNCHANGED <<job, made, aged, start, cleared, delegation, source, check>>

\* the container is lost, or the worker ends after a refusal; a lock it holds stays
Dies(j) ==
    /\ runner[j] \in Live
    /\ runner' = [runner EXCEPT ![j] = "ended"]
    /\ UNCHANGED <<job, made, aged, start, cleared, delegation, source, lock, wrote, check>>

\* runnerOutput: replaced while the dispatch is active
RecordOutput(j) ==
    /\ runner[j] \in {"good", "bad", "unsaved"} /\ ReportOK(j)
    /\ job' = [job EXCEPT ![j].records = @ \cup {"output"}]
    /\ UNCHANGED <<made, aged, start, runner, cleared, delegation, source, lock, wrote, check>>

\* runnerArtifact: the saved Plan
RecordArtifact(j) ==
    /\ runner[j] = "good" /\ job[j].op = "plan" /\ ReportOK(j)
    /\ Status(j) = "planning"
    /\ job' = [job EXCEPT ![j].records = @ \cup {"artifact"}]
    /\ UNCHANGED <<made, aged, start, runner, cleared, delegation, source, lock, wrote, check>>

\* runnerRecovery: the State that could not be saved
RecordRecovery(j) ==
    /\ runner[j] = "unsaved" /\ ReportOK(j)
    /\ Status(j) = "applying"
    /\ job' = [job EXCEPT ![j].records = @ \cup {"recovery"}]
    /\ UNCHANGED <<made, aged, start, runner, cleared, delegation, source, lock, wrote, check>>

\* runnerResult of a runner that succeeded
Succeed(j) ==
    /\ runner[j] = "good" /\ ReportOK(j)
    /\ \/ job[j].op = "plan" /\ Status(j) = "planning" /\ "artifact" \in job[j].records
       \/ job[j].op = "apply" /\ Status(j) = "applying" /\ "recovery" \notin job[j].records
    /\ job' = [job EXCEPT ![j].status = "succeeded"]
    /\ runner' = [runner EXCEPT ![j] = "ended"]
    /\ UNCHANGED <<made, aged, start, cleared, delegation, source, lock, wrote, check>>

FailedStatus_recovery(row) ==
    IF row.op = "apply" /\ "recovery" \in row.records
      THEN "reconciliation_required" ELSE "failed"

\* the status of a failed job: an Apply that began is never plainly failed
FailedStatus(row) ==
    IF row.op = "apply" /\ (row.status = "applying" \/ "recovery" \in row.records)
      THEN "reconciliation_required" ELSE "failed"

\* runnerResult of a runner that failed
Report(j) ==
    /\ runner[j] \in {"bad", "unsaved"} /\ ReportOK(j)
    /\ \E code \in IF runner[j] = "unsaved" THEN {"state_failed"}
                   ELSE IF Status(j) = "applying" THEN {"apply_failed", "state_failed", "other"}
                   ELSE {"other"} :
         job' = [job EXCEPT ![j].status = FailedStatus(job[j]), ![j].error = code]
    /\ runner' = [runner EXCEPT ![j] = "ended"]
    /\ UNCHANGED <<made, aged, start, cleared, delegation, source, lock, wrote, check>>

----------------------------------------------------------------------------
(* The owner and the operator look at a job whose runner was lost.  What   *)
(* they saw is not looked at again: only the database is, when the         *)
(* conclusion is recorded.                                                 *)

\* isStopped: a terminal task, so an app that was never launched is not stopped
Stopped(j) == runner[j] = "ended"

\* application_runner_start_context
StartFailed(j) ==
    /\ Status(j) = "starting" /\ job[j].app
    /\ job[j].ticket = "issued" /\ ~job[j].claimed /\ job[j].records = {}

\* interrupted_application_plan_context
PlanInterrupted(j) ==
    /\ job[j].op = "plan" /\ Status(j) \in {"initializing", "validating", "planning"}
    /\ job[j].ticket = "consumed" /\ job[j].claimed
    /\ job[j].records \cap {"artifact", "recovery"} = {}

\* interrupted_application_apply_context
ApplyInterrupted(j) ==
    /\ job[j].op = "apply" /\ job[j].purpose = "standard"
    /\ Status(j) \in {"initializing", "validating", "applying"}
    /\ job[j].ticket = "consumed" /\ job[j].claimed

\* application_recovery_replan_context: how job j could be cleared
Mode(j) == IF job[j].error = "apply_failed" /\ "output" \in job[j].records THEN "reported" ELSE "attested"

Clearable(j) ==
    /\ job[j].op = "apply" /\ Status(j) = "reconciliation_required" /\ job[j].app
    /\ job[j].error # "state_failed" /\ "recovery" \notin job[j].records
    /\ \/ Mode(j) = "attested" /\ (job[j].revoked \/ Expired(j)) /\ ~UnexpiredTicket(j)
       \/ Mode(j) = "reported" /\ job[j].ticket = "consumed"
    /\ ~\E k \in Made \ {j} : Active(k)

\* Cloud Foundry is asked for the app, and for a Plan the object store for the lock;
\* of a dispatch that is over nothing is asked
LookAtRunner(kind, j) ==
    /\ check = NoInspection /\ Active(j)
    /\ Stopped(j)
    /\ kind = "plan" => lock = 0
    /\ check' = [kind |-> kind, job |-> j]
    /\ UNCHANGED <<job, made, aged, start, runner, cleared, delegation, source, lock, wrote>>

Concluded(kind, j) == check # NoInspection /\ check.kind = kind /\ check.job = j

\* record_application_runner_start_failure
RecordStartFailure(j) ==
    /\ Concluded("start", j) /\ StartFailed(j)
    /\ job' = [job EXCEPT ![j].status = "failed", ![j].error = "runner_start_failed", ![j].revoked = TRUE]
    /\ check' = NoInspection
    /\ UNCHANGED <<made, aged, start, runner, cleared, delegation, source, lock, wrote>>

\* complete_interrupted_application_plan
CompletePlan(j) ==
    /\ Concluded("plan", j) /\ PlanInterrupted(j)
    /\ job' = [job EXCEPT ![j].status = "failed", ![j].error = "cancelled"]
    /\ check' = NoInspection
    /\ UNCHANGED <<made, aged, start, runner, cleared, delegation, source, lock, wrote>>

\* record_interrupted_application_apply
RecordInterruption(j) ==
    /\ Concluded("apply", j) /\ ApplyInterrupted(j)
    /\ job' = [job EXCEPT ![j].status = "reconciliation_required", ![j].error = "cancelled"]
    /\ check' = NoInspection
    /\ UNCHANGED <<made, aged, start, runner, cleared, delegation, source, lock, wrote>>

\* checkRecoveryReplan: a token that holds the version of the unlocked State
CheckReplan(j) ==
    /\ check = NoInspection /\ Clearable(j) /\ cleared[j] = NotCleared
    /\ lock = 0
    /\ check' = [kind |-> "token", job |-> j, state |-> wrote]
    /\ UNCHANGED <<job, made, aged, start, runner, cleared, delegation, source, lock, wrote>>

SameState_token(seen) == lock = 0

\* snapshot: State is unlocked and still the one of the token
SameState(seen) == lock = 0 /\ wrote = seen

\* approveRecoveryReplan up to its second look at State; an operator who is asked
\* confirms only what is so, that the runner has stopped
ObserveState(j) ==
    /\ Concluded("token", j) /\ Clearable(j)
    /\ Mode(j) = "attested" => runner[j] \notin Live
    /\ SameState(check.state)
    /\ check' = [check EXCEPT !.kind = "observed"]
    /\ UNCHANGED <<job, made, aged, start, runner, cleared, delegation, source, lock, wrote>>

\* record_application_recovery_replan
ApproveReplan(j) ==
    /\ Concluded("observed", j) /\ Clearable(j) /\ cleared[j] = NotCleared
    /\ cleared' = [cleared EXCEPT ![j] = [mode |-> Mode(j), at |-> made, state |-> check.state]]
    /\ check' = NoInspection
    /\ UNCHANGED <<job, made, aged, start, runner, delegation, source, lock, wrote>>

\* the answer is not acted on
Forget ==
    /\ check # NoInspection
    /\ check' = NoInspection
    /\ UNCHANGED <<job, made, aged, start, runner, cleared, delegation, source, lock, wrote>>

\* an orphaned lock is removed by its customer, after the runner has stopped
Unlock ==
    /\ lock # 0 /\ Stopped(lock)
    /\ lock' = 0
    /\ UNCHANGED <<job, made, aged, start, runner, cleared, delegation, source, wrote, check>>

----------------------------------------------------------------------------
Dispatch(j) == Reserve(j) \/ IssueTicket(j) \/ Bind(j) \/ Launch(j) \/ StartFails(j) \/ FailStart(j) \/ ApiCrash(j)

Work(j) ==
    \/ Consume(j) \/ Claim(j) \/ Release(j) \/ Stage(j) \/ GoesWrong(j)
    \/ TakeLock(j) \/ Finish(j) \/ Dies(j)
    \/ RecordOutput(j) \/ RecordArtifact(j) \/ RecordRecovery(j) \/ Succeed(j) \/ Report(j)

Inspect(j) ==
    \/ \E kind \in {"start", "plan", "apply"} : LookAtRunner(kind, j)
    \/ RecordStartFailure(j) \/ CompletePlan(j) \/ RecordInterruption(j)
    \/ CheckReplan(j) \/ ObserveState(j) \/ ApproveReplan(j)

Next ==
    \/ \E purpose \in Purposes : PreparePlan(purpose)
    \/ \E j \in Made : PrepareApply(j) \/ RevokeGrant(j) \/ Dispatch(j) \/ Work(j) \/ Inspect(j)
    \/ RevokeDelegation \/ Delegate \/ UpgradeSource
    \/ Expire \/ Forget \/ Unlock

Spec == Init /\ [][Next]_vars

----------------------------------------------------------------------------
(* Properties.                                                             *)

\* Types of every variable; jobs that were made have complete rows.
TypeOK ==
    /\ made \in 0 .. MaxJobs /\ aged \in 0 .. made
    /\ job \in [Jobs -> Row \cup {NoJob}]
    /\ \A j \in Jobs : j \in Made <=> job[j] \in Row
    /\ start \in [Jobs -> {"idle", "reserved", "ticket", "bound", "failing"}]
    /\ runner \in [Jobs -> {"none", "ended"} \cup Live]
    /\ cleared \in [Jobs -> Clearance \cup {NotCleared}]
    /\ delegation \in [id : 1 .. MaxDelegations, current : BOOLEAN]
    /\ source \in 0 .. MaxUpgrades
    /\ lock \in {0} \cup Jobs /\ wrote \subseteq Jobs
    /\ check \in Inspection \cup {NoInspection}

\* At most one job of an order is dispatched at a time, whatever the interleaving
\* of two requests, a failed start and a late report.
OneActive == \A j, k \in Made : Active(j) /\ Active(k) => j = k

\* While a standard job is dispatched no other worker of the order still holds
\* credentials and inputs, although dispatches are closed on the word of the API,
\* of the owner and of an operator, and not by the runner.
OneWorker ==
    \A j, k \in Made : Active(j) /\ job[j].purpose = "standard" /\ k # j => runner[k] \notin WithInputs

\* A job that was applied is of the newest Plan: no other Plan was prepared in
\* between, and none is while the Apply is dispatched.
AppliesNewestPlan ==
    \A a \in Made : job[a].op = "apply" /\ Active(a) =>
        \A n \in Made : job[n].op = "plan" => n <= job[a].plan

\* A dispatched Apply rests on a Plan that was made after every clearance of the
\* order, also after one that was recorded when the Plan had already succeeded.
PlannedAfterClearance ==
    \A a, r \in Made : job[a].op = "apply" /\ Active(a) /\ cleared[r] # NotCleared => job[a].plan > cleared[r].at

\* A grant that its owner, an upgrade or a start failure revoked never released
\* credential and inputs to a worker.
RevokedNeverReleased == \A j \in Made : job[j].revoked => runner[j] \notin WithInputs /\ j \notin wrote

\* A worker that still can work does so from the source the order is bound to.
SourceHeld == \A j \in Made : runner[j] \in WithInputs => job[j].source = source

\* An Apply that wrote State is succeeded or left to reconcile once it is over,
\* whoever ended it; only one that wrote nothing is plainly failed.
FailedWroteNothing == \A j \in Made : job[j].op = "apply" /\ Status(j) = "failed" => j \notin wrote

\* The State that a clearance was given for holds what the cleared Apply wrote:
\* nothing of it reached State between the look and the record, or later.
ClearedStateIsComplete == \A j \in Made : cleared[j] # NotCleared /\ j \in wrote => j \in cleared[j].state

\* A clearance is never recorded while the cleared job holds the State lock or its
\* worker is there.
ClearedIsStopped ==
    [][\A j \in Jobs : cleared'[j] # cleared[j] => lock # j /\ runner[j] \notin Live]_vars

\* plan-execution.md: a stopped Plan that never reported completion, and that saved
\* no Plan, can be completed as failed by its owner.
StoppedPlanCanBeCompleted ==
    \A j \in Made :
        job[j].op = "plan" /\ Status(j) \in Working /\ Stopped(j) /\ "artifact" \notin job[j].records
            => StartFailed(j) \/ PlanInterrupted(j)

=============================================================================
