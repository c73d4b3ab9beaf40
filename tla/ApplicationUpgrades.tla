------------------------ MODULE ApplicationUpgrades ------------------------
(***************************************************************************)
(* Upgrades of an application order to another version of its template or  *)
(* another platform contract, beside the Applies of the platform's State   *)
(* that the order rests on.  What an order is meant to be is its newest    *)
(* candidate: candidates are only appended, also to withdraw one or to     *)
(* adopt another policy, and a job is bound to the candidate it was made   *)
(* under.  An Apply of the platform is admitted against the applications   *)
(* that depend on it, and from then on nothing about them may change.      *)
(*                                                                         *)
(* One order and one platform State, which is in the customer's backend:   *)
(* only such a State can have a succeeded Apply, of which a contract is    *)
(* published.  Every operator named after an SQL function is a transaction *)
(* that holds the advisory lock of the tenant's platform impact.           *)
(*                                                                         *)
(* Left out: the jobs' delegation, source and State recovery (modelled in  *)
(* ApplicationJobs, StateRecovery), destroying an order, retired template  *)
(* versions, and the hour after which a Plan can not be approved; they     *)
(* only disable steps.  Dispatch and runner are those of ApplicationJobs   *)
(* with fewer stages.  The requester is not the one who approves.          *)
(***************************************************************************)
EXTENDS Integers, Sequences

CONSTANTS
    MaxJobs,         \* bound: jobs of the order
    MaxCandidates,   \* bound: candidates selected one after another
    MaxTemplates,    \* bound: versions of the template
    MaxContracts,    \* bound: platform contracts
    MaxVersion       \* bound: versions of the platform State

ASSUME BoundsAreNumbers ==
    /\ MaxJobs \in Nat /\ MaxCandidates \in Nat
    /\ MaxTemplates \in Nat \ {0} /\ MaxContracts \in Nat \ {0} /\ MaxVersion \in Nat \ {0}

VARIABLES
    order,      \* "none", or the deployment policy of the template version ordered
    candidate,  \* application_upgrade_candidates, the newest last
    edge,       \* newest policy published for each upgrade path
    template,   \* platform contract of each published template version
    contract,   \* version of the platform State of each contract
    job,        \* the rows of each job: job, grant, ticket, claim, dispatch, clearance
    made,       \* jobs 1 .. made exist
    aged,       \* the capabilities of jobs 1 .. aged have expired
    worker,     \* the runner in the job's container
    approved,   \* Plans approved by the engineer who approved their contract
    applied,    \* the Apply that succeeded last, 0 if none did
    written,    \* the Apply whose work the State of the order is from, 0 if there is none
    platform,   \* the platform State and the Apply that has its slot
    plan,       \* the saved Plan of the platform
    acks        \* the dependants the engineer acknowledged the Plan for

vars == <<order, candidate, edge, template, contract, job, made, aged, worker, approved,
          applied, written, platform, plan, acks>>

Jobs == 1 .. MaxJobs
Policies == {"direct", "approval"}
Classes == {"ordinary", "sensitive", "blocked"}
Targets == 1 .. (IF MaxTemplates > MaxContracts THEN MaxTemplates ELSE MaxContracts)
Paths == [kind : {"template", "platform"}, from : Targets, to : Targets]
NoPath == [kind |-> "none"]
Candidates == [kind : {"template", "platform", "withdrawal"}, path : Paths \cup {NoPath},
               version : 1 .. MaxTemplates, platform : 1 .. MaxContracts,
               policy : Policies, sensitive : Policies]
Statuses == {"none", "running", "succeeded", "failed", "reconcile"}
Row == [op : {"plan", "apply"}, plan : 0 .. MaxJobs, candidate : 0 .. MaxCandidates,
        class : Classes, status : Statuses, ticket : BOOLEAN, claimed : BOOLEAN,
        revoked : BOOLEAN, cleared : 0 .. MaxJobs]
NoJob == [op |-> "none"]
\* a worker that may still come to the credential and inputs, and one that has them
WithInputs == {"inputs", "working", "written"}
Live == {"started", "claimed"} \cup WithInputs
Workers == {"none", "reported", "gone"} \cup Live
PlatformPlans == [base : 1 .. MaxVersion, class : Classes]
NoPlan == [class |-> "none"]
Impacts == [placed : BOOLEAN, binding : 0 .. MaxCandidates, lastJob : 0 .. MaxJobs, blocked : BOOLEAN]

Made == 1 .. made
Newest == Len(candidate)
Status(j) == job[j].status
Expired(j) == j <= aged

Init ==
    /\ order = "none" /\ candidate = <<>>
    /\ edge = [p \in Paths |-> "none"]
    /\ template = <<1>> /\ contract = <<1>>
    /\ job = [j \in Jobs |-> NoJob] /\ made = 0 /\ aged = 0
    /\ worker = [j \in Jobs |-> "none"]
    /\ approved = {} /\ applied = 0 /\ written = 0
    /\ platform = [version |-> 1, status |-> "none",
                   guard |-> [placed |-> FALSE, binding |-> 0, lastJob |-> 0, blocked |-> FALSE]]
    /\ plan = NoPlan /\ acks = {}

----------------------------------------------------------------------------
(* What the database decides on.                                           *)

\* assert_application_platform_available: no Apply of the platform has the slot
Fence == platform.status = "none"

UnexpiredTicket(j) == job[j].ticket /\ ~Expired(j)
Settled(j) == Status(j) \in {"succeeded", "failed"}

Blocking_running(j) ==
    \/ Status(j) = "running"
    \/ UnexpiredTicket(j) /\ ~(job[j].op = "plan" /\ Settled(j))
    \/ job[j].op = "apply" /\ ~job[j].revoked /\ ~Expired(j) /\ ~Settled(j)
    \/ job[j].claimed /\ ~Expired(j) /\ ~Settled(j)

\* application_execution_blockers: execution or recovery, ticket, Apply grant, claim
Blocking(j) ==
    \/ Status(j) = "running"
    \/ Status(j) = "reconcile" /\ job[j].cleared = 0
    \/ UnexpiredTicket(j) /\ ~(job[j].op = "plan" /\ Settled(j))
    \/ job[j].op = "apply" /\ ~job[j].revoked /\ ~Expired(j) /\ ~Settled(j)
    \/ job[j].claimed /\ ~Expired(j) /\ ~Settled(j)

Blockers == \E j \in Made : Blocking(j)

\* assert_application_upgrade_binding
BindingOK(j) == job[j].candidate = Newest

\* application_execution_blocked
Bars(j) == Status(j) = "running" \/ (Status(j) = "reconcile" /\ job[j].cleared = 0)

ApprovalRequired(c, class) == c.policy = "approval" \/ (class = "sensitive" /\ c.sensitive = "approval")

ApprovalOK_candidate(p) ==
    job[p].candidate # 0 =>
        /\ job[p].class # "blocked"
        /\ ApprovalRequired(candidate[job[p].candidate], job[p].class) =>
             \E q \in approved : job[q].candidate = job[p].candidate

\* assert_application_upgrade_plan
ApprovalOK(p) ==
    job[p].candidate # 0 =>
        /\ job[p].class # "blocked"
        /\ ApprovalRequired(candidate[job[p].candidate], job[p].class) => p \in approved

NewestPlan(p) == ~\E n \in Made : n > p /\ job[n].op = "plan"

\* application_apply_plan, application_running_apply_plan
PlanUsable(p) ==
    /\ job[p].op = "plan" /\ Status(p) = "succeeded" /\ ~job[p].revoked
    /\ NewestPlan(p)
    /\ \A r \in Made : job[r].cleared # 0 => p > job[r].cleared
    /\ ApprovalOK(p)

\* delegated_application_context
ContextOK(j) ==
    /\ ~job[j].revoked /\ ~Expired(j)
    /\ job[j].op = "apply" => PlanUsable(job[j].plan)

ReportOK(j) == ContextOK(j) /\ job[j].claimed /\ Status(j) = "running"

\* application_platform_contract_current
Current(c) == platform.status = "none" /\ contract[c] = platform.version

\* application_order_snapshot: the order as it was placed, or a candidate of it
Snapshot(n) ==
    IF n = 0 THEN [version |-> 1, platform |-> template[1], policy |-> order]
    ELSE [version |-> candidate[n].version, platform |-> candidate[n].platform,
          policy |-> candidate[n].policy]

AppliedCandidate == IF applied = 0 THEN 0 ELSE job[applied].candidate

Pending_reconcile ==
    /\ Newest # 0 /\ candidate[Newest].kind # "withdrawal" /\ Newest # AppliedCandidate
    /\ ~\E j \in Made : job[j].op = "apply" /\ j > applied /\ Bars(j)

\* application_upgrade_withdrawal_context: an upgrade no Apply of which was attempted
Pending ==
    /\ Newest # 0 /\ candidate[Newest].kind # "withdrawal" /\ Newest # AppliedCandidate
    /\ ~\E j \in Made : /\ job[j].op = "apply"
                        /\ applied = 0 \/ j > applied \/ job[j].candidate > AppliedCandidate

\* platform_application_dependencies
Impact == [placed |-> order # "none", binding |-> Newest, lastJob |-> made, blocked |-> Blockers]

----------------------------------------------------------------------------
(* The order and its jobs.                                                 *)

\* instantiate: of the first template version
Place(policy) ==
    /\ order = "none" /\ Fence
    /\ order' = policy
    /\ UNCHANGED <<candidate, edge, template, contract, job, made, aged, worker, approved,
                   applied, written, platform, plan, acks>>

Make(op, p) ==
    /\ order # "none" /\ made < MaxJobs /\ Fence
    /\ made' = made + 1
    /\ job' = [job EXCEPT ![made + 1] =
                 [op |-> op, plan |-> p, candidate |-> Newest, class |-> "ordinary", status |-> "none",
                  ticket |-> FALSE, claimed |-> FALSE, revoked |-> FALSE, cleared |-> 0]]
    /\ UNCHANGED <<order, candidate, edge, template, contract, aged, worker, approved,
                   applied, written, platform, plan, acks>>

\* prepareJob
PreparePlan ==
    /\ ~\E k \in Made : job[k].op = "apply" /\ Bars(k)
    /\ Make("plan", 0)

\* startApply up to the new job
PrepareApply(p) ==
    /\ PlanUsable(p) /\ BindingOK(p)
    /\ ~\E k \in Made : job[k].plan = p \/ Bars(k)
    /\ Make("apply", p)

\* approve_application_upgrade
Approve(p) ==
    /\ job[p].op = "plan" /\ Status(p) = "succeeded"
    /\ Newest # 0 /\ BindingOK(p) /\ NewestPlan(p)
    /\ job[p].class # "blocked" /\ p \notin approved
    /\ approved' = approved \cup {p}
    /\ UNCHANGED <<order, candidate, edge, template, contract, job, made, aged, worker,
                   applied, written, platform, plan, acks>>

\* revokeJobGrant
RevokeGrant(j) ==
    /\ ~job[j].revoked /\ ~job[j].claimed
    /\ job' = [job EXCEPT ![j].revoked = TRUE]
    /\ UNCHANGED <<order, candidate, edge, template, contract, made, aged, worker, approved,
                   applied, written, platform, plan, acks>>

\* 25 minutes have passed since the next job was made
Expire ==
    /\ aged < made
    /\ aged' = aged + 1
    /\ UNCHANGED <<order, candidate, edge, template, contract, job, made, worker, approved,
                   applied, written, platform, plan, acks>>

\* reserve_application_dispatch
Reserve(j) ==
    /\ Status(j) = "none" /\ Fence
    /\ ContextOK(j) /\ BindingOK(j)
    /\ ~\E k \in Made \ {j} : Bars(k)
    /\ job' = [job EXCEPT ![j].status = "running"]
    /\ UNCHANGED <<order, candidate, edge, template, contract, made, aged, worker, approved,
                   applied, written, platform, plan, acks>>

\* issue_application_runner_ticket
IssueTicket(j) ==
    /\ Status(j) = "running" /\ ~job[j].ticket /\ Fence
    /\ ContextOK(j) /\ BindingOK(j)
    /\ job' = [job EXCEPT ![j].ticket = TRUE]
    /\ UNCHANGED <<order, candidate, edge, template, contract, made, aged, worker, approved,
                   applied, written, platform, plan, acks>>

\* bind_application_dispatch, then the task is created
Launch(j) ==
    /\ Status(j) = "running" /\ job[j].ticket /\ worker[j] = "none"
    /\ ContextOK(j) /\ BindingOK(j)
    /\ worker' = [worker EXCEPT ![j] = "started"]
    /\ UNCHANGED <<order, candidate, edge, template, contract, job, made, aged, approved,
                   applied, written, platform, plan, acks>>

\* dispatchJob fails: what may have started is left to reconcile
Fail(j) ==
    /\ Status(j) = "running"
    /\ \E s \in IF worker[j] = "none" THEN {"failed"} ELSE {"reconcile"} :
         job' = [job EXCEPT ![j].status = s]
    /\ UNCHANGED <<order, candidate, edge, template, contract, made, aged, worker, approved,
                   applied, written, platform, plan, acks>>

----------------------------------------------------------------------------
(* The runner, and what is concluded of one that was lost.                 *)

\* consume_application_runner_ticket, claim_application_job_grant
Claim(j) ==
    /\ worker[j] = "started" /\ Status(j) = "running" /\ ~job[j].claimed /\ Fence
    /\ ContextOK(j) /\ BindingOK(j)
    /\ job' = [job EXCEPT ![j].claimed = TRUE]
    /\ worker' = [worker EXCEPT ![j] = "claimed"]
    /\ UNCHANGED <<order, candidate, edge, template, contract, made, aged, approved,
                   applied, written, platform, plan, acks>>

Walk(j, from, to) ==
    /\ worker[j] = from
    /\ worker' = [worker EXCEPT ![j] = to]
    /\ UNCHANGED <<order, candidate, edge, template, contract, job, made, aged, approved,
                   applied, platform, plan, acks>>

\* runnerInput: the binding of an Apply is not looked at again
Release(j) ==
    /\ ReportOK(j) /\ (job[j].op = "plan" => BindingOK(j))
    /\ Walk(j, "claimed", "inputs")
    /\ UNCHANGED written

\* runnerStage: OpenTofu is about to apply
Begin(j) ==
    /\ job[j].op = "apply" /\ ReportOK(j)
    /\ Walk(j, "inputs", "working")
    /\ UNCHANGED written

\* OpenTofu changes the cloud and State of the order
Write(j) ==
    /\ Walk(j, "working", "written")
    /\ written' = j

\* the container is lost, or the worker ends after a refusal
Dies(j) ==
    /\ worker[j] \in Live
    /\ Walk(j, worker[j], "gone")
    /\ UNCHANGED written

Report(j, row) ==
    /\ ReportOK(j)
    /\ job' = [job EXCEPT ![j] = row]
    /\ worker' = [worker EXCEPT ![j] = "reported"]
    /\ UNCHANGED <<order, candidate, edge, template, contract, made, aged, approved,
                   platform, plan, acks>>

\* runnerResult of a Plan, with the artifact saved before
PlanSucceeds(j) ==
    /\ job[j].op = "plan" /\ worker[j] = "inputs"
    /\ \E class \in Classes :
         Report(j, [job[j] EXCEPT !.status = "succeeded", !.class = class])
    /\ UNCHANGED <<applied, written>>

\* runnerResult of an Apply, which may have had nothing to change
ApplySucceeds(j) ==
    /\ worker[j] \in {"working", "written"}
    /\ Report(j, [job[j] EXCEPT !.status = "succeeded"])
    /\ applied' = j /\ written' = j

\* runnerResult of a runner that failed: an Apply that began is left to reconcile
ReportFailure(j) ==
    /\ worker[j] \in {"claimed"} \cup WithInputs
    /\ \E s \in IF worker[j] \in {"working", "written"} THEN {"reconcile"} ELSE {"failed"} :
         Report(j, [job[j] EXCEPT !.status = s])
    /\ UNCHANGED <<applied, written>>

\* record_application_runner_start_failure, complete_interrupted_application_plan,
\* record_interrupted_application_apply: of a worker that was seen to have ended
CloseLost(j) ==
    /\ Status(j) = "running" /\ worker[j] = "gone"
    /\ \/ /\ ~job[j].claimed
          /\ job' = [job EXCEPT ![j].status = "failed", ![j].revoked = TRUE]
       \/ /\ job[j].claimed
          /\ \E s \in IF job[j].op = "plan" THEN {"failed"} ELSE {"reconcile"} :
               job' = [job EXCEPT ![j].status = s]
    /\ UNCHANGED <<order, candidate, edge, template, contract, made, aged, worker, approved,
                   applied, written, platform, plan, acks>>

Clear_unattested(j) ==
    /\ job[j].op = "apply" /\ Status(j) = "reconcile" /\ job[j].cleared = 0
    /\ ~\E k \in Made \ {j} : Status(k) = "running"
    /\ job' = [job EXCEPT ![j].cleared = made]
    /\ UNCHANGED <<order, candidate, edge, template, contract, made, aged, worker, approved,
                   applied, written, platform, plan, acks>>

\* record_application_recovery_replan: the Apply reported its failure, or an operator
\* confirms that the runner has stopped and it can not start any more
Clear(j) ==
    /\ job[j].op = "apply" /\ Status(j) = "reconcile" /\ job[j].cleared = 0
    /\ ~\E k \in Made \ {j} : Status(k) = "running"
    /\ \/ worker[j] = "reported"
       \/ worker[j] \notin Live /\ (job[j].revoked \/ Expired(j)) /\ ~UnexpiredTicket(j)
    /\ job' = [job EXCEPT ![j].cleared = made]
    /\ UNCHANGED <<order, candidate, edge, template, contract, made, aged, worker, approved,
                   applied, written, platform, plan, acks>>

----------------------------------------------------------------------------
(* Template versions, platform contracts and upgrade paths are published;  *)
(* the requester selects candidates.                                       *)

\* publish of a template version, for one of the contracts
PublishVersion(c) ==
    /\ Len(template) < MaxTemplates
    /\ template' = Append(template, c)
    /\ UNCHANGED <<order, candidate, edge, contract, job, made, aged, worker, approved,
                   applied, written, platform, plan, acks>>

\* approvePlatform, guard_application_platform_source: of the last succeeded Apply
PublishContract ==
    /\ Len(contract) < MaxContracts
    /\ contract' = Append(contract, platform.version)
    /\ UNCHANGED <<order, candidate, edge, template, job, made, aged, worker, approved,
                   applied, written, platform, plan, acks>>

\* publish_application_upgrade_edge, publish_application_platform_upgrade_edge
PublishEdge(p, policy) ==
    /\ \/ p.kind = "template" /\ p.from < p.to /\ p.to <= Len(template)
       \/ /\ p.kind = "platform" /\ p.from # p.to
          /\ p.from <= Len(contract) /\ p.to <= Len(contract)
          /\ contract[p.to] >= contract[p.from] /\ Current(p.to)
    /\ edge[p] # policy
    /\ edge' = [edge EXCEPT ![p] = policy]
    /\ UNCHANGED <<order, candidate, template, contract, job, made, aged, worker, approved,
                   applied, written, platform, plan, acks>>

\* a candidate is appended, and the grants of Plans that were not claimed are revoked
Select(c) ==
    /\ order # "none" /\ Newest < MaxCandidates
    /\ Fence /\ ~Blockers /\ Current(c.platform)
    /\ candidate' = Append(candidate, c)
    /\ job' = [j \in Jobs |-> IF j \in Made /\ job[j].op = "plan" /\ ~job[j].claimed
                                THEN [job[j] EXCEPT !.revoked = TRUE] ELSE job[j]]
    /\ UNCHANGED <<order, edge, template, contract, made, aged, worker, approved,
                   applied, written, platform, plan, acks>>

\* request_application_upgrade
RequestVersion(to) ==
    LET now == Snapshot(Newest)
        p == [kind |-> "template", from |-> now.version, to |-> to]
    IN  /\ edge[p] # "none" /\ contract[template[to]] >= contract[now.platform]
        /\ Select([kind |-> "template", path |-> p, version |-> to, platform |-> template[to],
                   policy |-> edge[p], sensitive |-> edge[p]])

\* request_application_platform_upgrade
RequestPlatform(to) ==
    LET now == Snapshot(Newest)
        p == [kind |-> "platform", from |-> now.platform, to |-> to]
    IN  /\ edge[p] # "none"
        /\ Select([kind |-> "platform", path |-> p, version |-> now.version, platform |-> to,
                   policy |-> edge[p], sensitive |-> edge[p]])

\* withdraw_application_upgrade: what was applied last is selected again
Withdraw ==
    LET last == Snapshot(AppliedCandidate)
    IN  /\ Pending
        /\ Select([kind |-> "withdrawal", path |-> NoPath, version |-> last.version,
                   platform |-> last.platform, policy |-> last.policy, sensitive |-> "approval"])

\* refresh_application_upgrade_policy: the same target under the policy published since
Refresh ==
    /\ Pending
    /\ LET now == candidate[Newest]
       IN  /\ edge[now.path] # now.sensitive
           /\ Select([now EXCEPT !.policy = edge[now.path], !.sensitive = edge[now.path]])

----------------------------------------------------------------------------
(* The platform.                                                           *)

\* a Plan of the platform ends with its artifact saved
SavePlan(class) ==
    /\ platform.status = "none"
    /\ plan' = [base |-> platform.version, class |-> class]
    /\ acks' = {}
    /\ UNCHANGED <<order, candidate, edge, template, contract, job, made, aged, worker, approved,
                   applied, written, platform>>

\* acknowledge_platform_application_impact
Acknowledge ==
    /\ plan.class = "sensitive" /\ plan.base = platform.version
    /\ Impact.placed /\ ~Blockers
    /\ acks' = acks \cup {Impact}
    /\ UNCHANGED <<order, candidate, edge, template, contract, job, made, aged, worker, approved,
                   applied, written, platform, plan>>

AdmitApply_anyImpact ==
    /\ platform.status = "none" /\ plan # NoPlan
    /\ plan.base = platform.version
    /\ Impact.placed => /\ ~Blockers /\ plan.class # "blocked"
                        /\ plan.class = "sensitive" => acks # {}
    /\ platform' = [platform EXCEPT !.status = "starting", !.guard = Impact]
    /\ UNCHANGED <<order, candidate, edge, template, contract, job, made, aged, worker, approved,
                   applied, written, plan, acks>>

\* Plans.apply and guard_platform_application_impact; without dependants no guard is kept
AdmitApply ==
    /\ platform.status = "none" /\ plan # NoPlan
    /\ plan.base = platform.version
    /\ Impact.placed => /\ ~Blockers /\ plan.class # "blocked"
                        /\ plan.class = "sensitive" => Impact \in acks
    /\ platform' = [platform EXCEPT !.status = "starting", !.guard = Impact]
    /\ UNCHANGED <<order, candidate, edge, template, contract, job, made, aged, worker, approved,
                   applied, written, plan, acks>>

\* assert_platform_application_apply, before inputs and credential are released
ImpactHeld == Impact.placed \/ platform.guard.placed => platform.guard = Impact /\ ~Blockers

\* guard_platform_application_material: the runner of the platform gets what it needs
StartApply ==
    /\ platform.status = "starting" /\ ImpactHeld
    /\ platform' = [platform EXCEPT !.status = "working"]
    /\ UNCHANGED <<order, candidate, edge, template, contract, job, made, aged, worker, approved,
                   applied, written, plan, acks>>

\* the Apply of the platform succeeds, with State changed or not; its Plan is used up
FinishApply ==
    /\ platform.status = "working"
    /\ \E v \in {platform.version, platform.version + 1} :
         v <= MaxVersion /\ platform' = [platform EXCEPT !.status = "none", !.version = v]
    /\ plan' = NoPlan /\ acks' = {}
    /\ UNCHANGED <<order, candidate, edge, template, contract, job, made, aged, worker, approved,
                   applied, written>>

\* the Apply fails, is lost or times out; in the customer's backend it stays so
LoseApply ==
    /\ platform.status \in {"starting", "working"}
    /\ platform' = [platform EXCEPT !.status = "recovery"]
    /\ UNCHANGED <<order, candidate, edge, template, contract, job, made, aged, worker, approved,
                   applied, written, plan, acks>>

----------------------------------------------------------------------------
Work(j) ==
    \/ Reserve(j) \/ IssueTicket(j) \/ Launch(j) \/ Fail(j)
    \/ Claim(j) \/ Release(j) \/ Begin(j) \/ Write(j) \/ Dies(j)
    \/ PlanSucceeds(j) \/ ApplySucceeds(j) \/ ReportFailure(j)
    \/ CloseLost(j) \/ Clear(j)

Publish ==
    \/ \E c \in 1 .. Len(contract) : PublishVersion(c)
    \/ PublishContract
    \/ \E p \in Paths, policy \in Policies : PublishEdge(p, policy)

Upgrade ==
    \/ \E to \in 1 .. Len(template) : RequestVersion(to)
    \/ \E to \in 1 .. Len(contract) : RequestPlatform(to)
    \/ Withdraw \/ Refresh

Platform ==
    \/ \E class \in Classes : SavePlan(class)
    \/ Acknowledge \/ AdmitApply \/ StartApply \/ FinishApply \/ LoseApply

Next ==
    \/ \E policy \in Policies : Place(policy)
    \/ PreparePlan \/ Expire
    \/ \E j \in Made : PrepareApply(j) \/ Approve(j) \/ RevokeGrant(j) \/ Work(j)
    \/ Publish \/ Upgrade \/ Platform

Spec == Init /\ [][Next]_vars

----------------------------------------------------------------------------
(* Properties.                                                             *)

\* Types of every variable; what refers to a job, a version or a contract refers to one
\* that exists.
TypeOK ==
    /\ order \in {"none"} \cup Policies
    /\ candidate \in Seq(Candidates) /\ Newest <= MaxCandidates
    /\ edge \in [Paths -> {"none"} \cup Policies]
    /\ template \in Seq(1 .. Len(contract)) /\ Len(template) \in 1 .. MaxTemplates
    /\ contract \in Seq(1 .. platform.version) /\ Len(contract) \in 1 .. MaxContracts
    /\ made \in 0 .. MaxJobs /\ aged \in 0 .. made
    /\ job \in [Jobs -> Row \cup {NoJob}]
    /\ \A j \in Jobs : j \in Made <=> job[j] \in Row
    /\ worker \in [Jobs -> Workers]
    /\ approved \subseteq Made /\ applied \in {0} \cup Made /\ written \in {0} \cup Made
    /\ platform \in [version : 1 .. MaxVersion, status : {"none", "starting", "working", "recovery"},
                     guard : Impacts]
    /\ plan \in PlatformPlans \cup {NoPlan} /\ acks \subseteq Impacts

\* A worker that has credential and inputs works for the newest candidate, although the
\* binding of an Apply is not looked at after its claim and dispatches are closed on the
\* word of others than the runner.
BoundToNewest == \A j \in Made : worker[j] \in WithInputs => BindingOK(j)

\* Withdrawing an upgrade never contradicts the cloud: as long as a withdrawal is the
\* newest candidate, it is what the Apply that State is from was made for.
WithdrawnIsRestored ==
    Newest # 0 /\ candidate[Newest].kind = "withdrawal" =>
        LET cloud == Snapshot(IF written = 0 THEN 0 ELSE job[written].candidate)
        IN  candidate[Newest].version = cloud.version /\ candidate[Newest].platform = cloud.platform

\* What was written for an upgrade was planned as not blocked and, where the policy the
\* candidate was selected with asks for it, this very Plan was approved, also when paths
\* were published with another policy and candidates refreshed in between.
WritesApproved ==
    written # 0 =>
        LET p == job[written].plan
            c == job[written].candidate
        IN  /\ job[p].candidate = c
            /\ c # 0 => /\ job[p].class # "blocked"
                        /\ ApprovalRequired(candidate[c], job[p].class) => p \in approved

\* No worker of the order can act while an Apply of the platform it rests on is admitted,
\* runs, or was lost and may still run.
PlatformAlone == platform.status # "none" => \A j \in Made : worker[j] \notin Live

\* An admitted Apply of the platform is not refused its inputs for what happened to the
\* order since, a new order included, and it changes only what was acknowledged.
ImpactReviewed ==
    platform.status # "none" =>
        /\ ImpactHeld
        /\ Impact.placed => plan.class # "blocked" /\ (plan.class = "sensitive" => Impact \in acks)

=============================================================================
