-------------------- MODULE ApplicationUpgrades_proofs --------------------
(* Theorems about ApplicationUpgrades, for every value of its constants.   *)
EXTENDS ApplicationUpgrades, SequenceTheorems, TLAPS

---------------------------------------------------------------------------
(* Types, in three parts of which a step seldom changes more than one.     *)

OrderTypes ==
    /\ order \in {"none"} \cup Policies
    /\ candidate \in Seq(Candidates) /\ Newest <= MaxCandidates
    /\ edge \in [Paths -> {"none"} \cup Policies]
    /\ template \in Seq(1 .. Len(contract)) /\ Len(template) \in 1 .. MaxTemplates
    /\ contract \in Seq(1 .. platform.version) /\ Len(contract) \in 1 .. MaxContracts

JobTypes ==
    /\ made \in 0 .. MaxJobs /\ aged \in 0 .. made
    /\ job \in [Jobs -> Row \cup {NoJob}]
    /\ \A j \in Jobs : j \in Made <=> job[j] \in Row
    /\ worker \in [Jobs -> Workers]
    /\ approved \subseteq Made /\ applied \in {0} \cup Made /\ written \in {0} \cup Made

PlatformTypes ==
    /\ platform \in [version : 1 .. MaxVersion, status : {"none", "starting", "working", "recovery"},
                     guard : Impacts]
    /\ plan \in PlatformPlans \cup {NoPlan} /\ acks \subseteq Impacts

LEMMA Parts ==
    /\ TypeOK <=> OrderTypes /\ JobTypes /\ PlatformTypes
    /\ TypeOK' <=> OrderTypes' /\ JobTypes' /\ PlatformTypes'
BY DEF TypeOK, OrderTypes, JobTypes, PlatformTypes

LEMMA RowTypes ==
  ASSUME NEW row \in Row
  PROVE  /\ \A s \in Statuses : [row EXCEPT !.status = s] \in Row
         /\ \A s \in Statuses, c \in Classes : [row EXCEPT !.status = s, !.class = c] \in Row
         /\ [row EXCEPT !.status = "failed", !.revoked = TRUE] \in Row
         /\ [row EXCEPT !.ticket = TRUE] \in Row
         /\ [row EXCEPT !.claimed = TRUE] \in Row
         /\ [row EXCEPT !.revoked = TRUE] \in Row
         /\ \A n \in 0 .. MaxJobs : [row EXCEPT !.cleared = n] \in Row
         /\ row # NoJob
<1>1. \A s \in Statuses : [row EXCEPT !.status = s] \in Row
  BY DEF Row
<1>2. \A s \in Statuses, c \in Classes : [row EXCEPT !.status = s, !.class = c] \in Row
  BY DEF Row
<1>3. [row EXCEPT !.status = "failed", !.revoked = TRUE] \in Row
  BY DEF Row, Statuses
<1>4. [row EXCEPT !.ticket = TRUE] \in Row /\ [row EXCEPT !.claimed = TRUE] \in Row
  BY DEF Row
<1>5. [row EXCEPT !.revoked = TRUE] \in Row
  BY DEF Row
<1>6. \A n \in 0 .. MaxJobs : [row EXCEPT !.cleared = n] \in Row
  BY DEF Row
<1>7. row # NoJob
  BY DEF Row, NoJob
<1>8. QED
  BY <1>1, <1>2, <1>3, <1>4, <1>5, <1>6, <1>7

---------------------------------------------------------------------------
(* The inductive invariant.                                                *)

\* An order that was not placed has no jobs.
NoJobs == order = "none" => made = 0

\* A job that was not made has no worker.
WorkersAreMade == \A j \in Jobs \ Made : worker[j] = "none"

\* A clearance is recorded for what is left to reconcile.
ClearedWait == \A j \in Made : job[j].cleared # 0 => Status(j) = "reconcile"

\* A worker that may still act bars its order, and is bound to the newest candidate.
LiveIsBarred == \A j \in Made : worker[j] \in Live => Bars(j)
LiveIsBound == \A j \in Made : worker[j] \in Live => BindingOK(j)

WorkingApplies == \A j \in Made : worker[j] \in {"working", "written"} => job[j].op = "apply"

\* One job bars the order at most.
OneBars == \A j, k \in Made : Bars(j) /\ Bars(k) => j = k

\* While the platform is not at rest, the order is, as it was when the Apply was admitted.
AtRest == platform.status # "none" => platform.guard = Impact /\ ~Blockers

\* What was admitted has been reviewed.
Reviewed ==
    platform.status # "none" /\ Impact.placed =>
        plan.class # "blocked" /\ (plan.class = "sensitive" => Impact \in acks)

CandidatesExist == \A j \in Made : job[j].candidate <= Newest

\* The Plan of an Apply succeeded, is of its candidate and was approved as was required.
PlanFits(j) ==
    LET p == job[j].plan
    IN  /\ p \in Made /\ job[p].op = "plan" /\ Status(p) = "succeeded"
        /\ job[p].candidate = job[j].candidate
        /\ ApprovalOK(p)

AppliesFit == \A j \in Made : job[j].op = "apply" => PlanFits(j)

\* Of two Applies the later has the later Plan.
Ordered ==
    \A j, k \in Made :
        j < k /\ job[j].op = "apply" /\ job[k].op = "apply" => job[j].plan < job[k].plan

\* Only a later Apply than the one that succeeded last bars the order.
Latest ==
    /\ applied # 0 => job[applied].op = "apply" /\ Status(applied) = "succeeded"
    /\ \A j \in Made : job[j].op = "apply" /\ Bars(j) => applied < j

\* The State of the order is not older than the last Apply that succeeded.
StateIsApplied == applied <= written /\ (written # 0 => job[written].op = "apply")

\* What an upgrade was selected along is still published.
PathsPublished ==
    \A n \in 1 .. Newest :
        candidate[n].kind # "withdrawal" =>
            candidate[n].path \in Paths /\ edge[candidate[n].path] # "none"

IInv ==
    /\ TypeOK /\ NoJobs /\ WorkersAreMade /\ ClearedWait /\ PathsPublished
    /\ LiveIsBarred /\ LiveIsBound /\ WorkingApplies /\ OneBars
    /\ AtRest /\ Reviewed
    /\ CandidatesExist /\ AppliesFit /\ Ordered /\ Latest /\ StateIsApplied
    /\ WithdrawnIsRestored

---------------------------------------------------------------------------
(* What a step of a job's dispatch or runner does: it replaces the row of  *)
(* the job and moves its worker, and leaves the rest of the system alone.  *)

Replaces(j, row) == job' = [job EXCEPT ![j] = row]
MovesTo(j, w) == worker' = [worker EXCEPT ![j] = w]

RowBars(row) == row.status = "running" \/ (row.status = "reconcile" /\ row.cleared = 0)

\* What a job is for, and what it has achieved, is never changed.
KeepsPurpose(j, row) ==
    /\ row.op = job[j].op /\ row.plan = job[j].plan /\ row.candidate = job[j].candidate
    /\ Status(j) = "succeeded" => row.status = "succeeded" /\ row.class = job[j].class

\* What bars the order barred it before, or was not blocked by another job.
BarsAlone(j, row) ==
    RowBars(row) =>
        \/ Bars(j)
        \/ Status(j) = "none" /\ ContextOK(j) /\ \A k \in Made \ {j} : ~Bars(k)

WorkerFits(j, row, w) ==
    /\ w \in Live => RowBars(row) /\ (worker[j] \in Live \/ BindingOK(j))
    /\ w \in {"working", "written"} => row.op = "apply"

\* State is written, and an Apply succeeds, by a worker that is alive.
WritesAlive(j, row) ==
    \/ UNCHANGED <<applied, written>>
    \/ /\ worker[j] \in Live /\ job[j].op = "apply" /\ written' = j
       /\ applied' = applied \/ (applied' = j /\ row.status = "succeeded")

Effect(j, row, w) ==
    /\ Replaces(j, row) /\ MovesTo(j, w)
    /\ KeepsPurpose(j, row) /\ BarsAlone(j, row) /\ WorkerFits(j, row, w) /\ WritesAlive(j, row)
    /\ row.cleared # 0 => row.status = "reconcile"
    /\ UNCHANGED <<order, candidate, edge, template, contract, made, aged, approved,
                   platform, plan, acks>>

\* What is needed of the state before.
Sound(j) ==
    /\ job[j] \in Row /\ j \in Jobs /\ made \in 0 .. MaxJobs
    /\ job \in [Jobs -> Row \cup {NoJob}] /\ worker \in [Jobs -> Workers]
    /\ job[j].cleared # 0 => Status(j) = "reconcile"
    /\ worker[j] \in Live => Bars(j)
    /\ worker[j] \in {"working", "written"} => job[j].op = "apply"

\* The row stays as it is.
LEMMA WalkEffect ==
  ASSUME NEW j \in Made, Sound(j), NEW w \in Workers,
         w \in Live => Bars(j) /\ (worker[j] \in Live \/ BindingOK(j)),
         w \in {"working", "written"} => job[j].op = "apply",
         MovesTo(j, w), WritesAlive(j, job[j]),
         UNCHANGED <<order, candidate, edge, template, contract, job, made, aged, approved,
                     platform, plan, acks>>
  PROVE  \E row \in Row, v \in Workers : Effect(j, row, v)
<1>1. Replaces(j, job[j])
  BY DEF Sound, Replaces
<1>2. KeepsPurpose(j, job[j]) /\ (RowBars(job[j]) <=> Bars(j))
  BY DEF KeepsPurpose, RowBars, Bars, Status
<1>3. BarsAlone(j, job[j]) /\ WorkerFits(j, job[j], w)
  BY <1>2 DEF BarsAlone, WorkerFits
<1>4. Effect(j, job[j], w)
  BY <1>1, <1>2, <1>3 DEF Effect, Sound, Status
<1>5. QED
  BY <1>4 DEF Sound

\* The worker stays where it is.
LEMMA RowEffect ==
  ASSUME NEW j \in Made, Sound(j), NEW row \in Row,
         Replaces(j, row), KeepsPurpose(j, row), BarsAlone(j, row),
         worker[j] \in Live => RowBars(row),
         row.cleared # 0 => row.status = "reconcile",
         UNCHANGED <<order, candidate, edge, template, contract, made, aged, worker, approved,
                     applied, written, platform, plan, acks>>
  PROVE  \E r \in Row, w \in Workers : Effect(j, r, w)
<1>1. MovesTo(j, worker[j]) /\ worker[j] \in Workers
  BY DEF Sound, MovesTo
<1>2. WorkerFits(j, row, worker[j])
  BY DEF Sound, WorkerFits, KeepsPurpose
<1>3. Effect(j, row, worker[j])
  BY <1>1, <1>2 DEF Effect, WritesAlive
<1>4. QED
  BY <1>1, <1>3

\* The worker ends with its report.
LEMMA ReportEffect ==
  ASSUME NEW j \in Made, Sound(j), NEW row \in Row, Report(j, row), WritesAlive(j, row),
         row.op = job[j].op, row.plan = job[j].plan, row.candidate = job[j].candidate,
         row.cleared = job[j].cleared
  PROVE  \E r \in Row, w \in Workers : Effect(j, r, w)
<1>1. Status(j) = "running" /\ job[j].cleared = 0 /\ Bars(j)
  BY DEF Report, ReportOK, Bars, Sound, Status
<1>2. KeepsPurpose(j, row) /\ BarsAlone(j, row) /\ WorkerFits(j, row, "reported")
  BY <1>1 DEF KeepsPurpose, BarsAlone, WorkerFits, Live, WithInputs
<1>3. Replaces(j, row) /\ MovesTo(j, "reported")
  BY DEF Report, Replaces, MovesTo
<1>4. Effect(j, row, "reported")
  BY <1>1, <1>2, <1>3 DEF Report, Effect
<1>5. QED
  BY <1>4 DEF Workers

LEMMA WorkHasEffect ==
  ASSUME NEW j \in Made, Sound(j), Work(j) \/ RevokeGrant(j)
  PROVE  \E row \in Row, w \in Workers : Effect(j, row, w)
<1> USE DEF Sound
<1>1. j \in Nat \ {0} /\ made \in 1 .. MaxJobs
  BY BoundsAreNumbers DEF Made
<1>2. CASE RevokeGrant(j)
  <2>1. PICK row \in Row : row = [job[j] EXCEPT !.revoked = TRUE]
    BY RowTypes
  <2>2. Replaces(j, row)
    BY <1>2, <2>1 DEF RevokeGrant, Replaces
  <2>3. /\ row.status = job[j].status /\ row.cleared = job[j].cleared /\ row.op = job[j].op
        /\ row.plan = job[j].plan /\ row.candidate = job[j].candidate /\ row.class = job[j].class
    BY <2>1 DEF Row
  <2>4. QED
    BY <1>2, <2>2, <2>3, RowEffect DEF RevokeGrant, KeepsPurpose, BarsAlone, RowBars, Bars, Status
<1>3. CASE Reserve(j)
  <2>1. PICK row \in Row : row = [job[j] EXCEPT !.status = "running"]
    BY RowTypes DEF Statuses
  <2>2. Replaces(j, row)
    BY <1>3, <2>1 DEF Reserve, Replaces
  <2>3. /\ row.status = "running" /\ row.cleared = job[j].cleared /\ row.op = job[j].op
        /\ row.plan = job[j].plan /\ row.candidate = job[j].candidate /\ row.class = job[j].class
    BY <2>1 DEF Row
  <2>4. Status(j) = "none" /\ job[j].cleared = 0 /\ ~Bars(j) /\ worker[j] \notin Live
    BY <1>3 DEF Reserve, Bars, Status
  <2>5. KeepsPurpose(j, row) /\ BarsAlone(j, row)
    BY <1>3, <2>3, <2>4 DEF Reserve, KeepsPurpose, BarsAlone
  <2>6. QED
    BY <1>3, <2>2, <2>3, <2>4, <2>5, RowEffect DEF Reserve
<1>4. CASE IssueTicket(j)
  <2>1. PICK row \in Row : row = [job[j] EXCEPT !.ticket = TRUE]
    BY RowTypes
  <2>2. Replaces(j, row)
    BY <1>4, <2>1 DEF IssueTicket, Replaces
  <2>3. /\ row.status = job[j].status /\ row.cleared = job[j].cleared /\ row.op = job[j].op
        /\ row.plan = job[j].plan /\ row.candidate = job[j].candidate /\ row.class = job[j].class
    BY <2>1 DEF Row
  <2>4. QED
    BY <1>4, <2>2, <2>3, RowEffect DEF IssueTicket, KeepsPurpose, BarsAlone, RowBars, Bars, Status
<1>5. CASE Launch(j)
  BY <1>5, WalkEffect DEF Launch, MovesTo, WritesAlive, Bars, Workers, Live, WithInputs
<1>6. CASE Fail(j)
  <2>1. PICK s \in {"failed", "reconcile"} :
           job' = [job EXCEPT ![j].status = s] /\ (s = "failed" => worker[j] = "none")
    BY <1>6 DEF Fail
  <2>2. PICK row \in Row : row = [job[j] EXCEPT !.status = s]
    BY RowTypes DEF Statuses
  <2>3. Replaces(j, row)
    BY <2>1, <2>2 DEF Replaces
  <2>4. /\ row.status = s /\ row.cleared = job[j].cleared /\ row.op = job[j].op
        /\ row.plan = job[j].plan /\ row.candidate = job[j].candidate
    BY <2>2 DEF Row
  <2>5. Status(j) = "running" /\ job[j].cleared = 0 /\ Bars(j)
    BY <1>6 DEF Fail, Bars, Status
  <2>6. worker[j] \in Live => RowBars(row)
    BY <2>1, <2>4, <2>5 DEF RowBars, Live, WithInputs
  <2>7. QED
    BY <1>6, <2>3, <2>4, <2>5, <2>6, RowEffect DEF Fail, KeepsPurpose, BarsAlone
<1>7. CASE Claim(j)
  <2>1. PICK row \in Row : row = [job[j] EXCEPT !.claimed = TRUE]
    BY RowTypes
  <2>2. Replaces(j, row) /\ MovesTo(j, "claimed")
    BY <1>7, <2>1 DEF Claim, Replaces, MovesTo
  <2>3. /\ row.status = job[j].status /\ row.cleared = job[j].cleared /\ row.op = job[j].op
        /\ row.plan = job[j].plan /\ row.candidate = job[j].candidate /\ row.class = job[j].class
    BY <2>1 DEF Row
  <2>4. KeepsPurpose(j, row) /\ BarsAlone(j, row) /\ WorkerFits(j, row, "claimed")
    BY <1>7, <2>3 DEF Claim, KeepsPurpose, BarsAlone, WorkerFits, RowBars, Bars, Status
  <2>5. Effect(j, row, "claimed")
    BY <1>7, <2>2, <2>3, <2>4 DEF Claim, Effect, WritesAlive, Status
  <2>6. QED
    BY <2>5 DEF Workers, Live
<1>8. CASE Release(j)
  BY <1>8, WalkEffect DEF Release, Walk, MovesTo, WritesAlive, Workers, Live, WithInputs
<1>9. CASE Begin(j)
  BY <1>9, WalkEffect DEF Begin, Walk, MovesTo, WritesAlive, Workers, Live, WithInputs
<1>10. CASE Write(j)
  BY <1>10, WalkEffect DEF Write, Walk, MovesTo, WritesAlive, Workers, Live, WithInputs
<1>11. CASE Dies(j)
  BY <1>11, WalkEffect DEF Dies, Walk, MovesTo, WritesAlive, Workers, Live, WithInputs
<1>12. CASE PlanSucceeds(j)
  <2>1. PICK class \in Classes : Report(j, [job[j] EXCEPT !.status = "succeeded", !.class = class])
    BY <1>12 DEF PlanSucceeds
  <2>2. PICK row \in Row : row = [job[j] EXCEPT !.status = "succeeded", !.class = class]
    BY RowTypes DEF Statuses
  <2>3. /\ row.cleared = job[j].cleared /\ row.op = job[j].op
        /\ row.plan = job[j].plan /\ row.candidate = job[j].candidate /\ row.status = "succeeded"
    BY <2>2 DEF Row
  <2>4. QED
    BY <1>12, <2>1, <2>2, <2>3, ReportEffect DEF PlanSucceeds, WritesAlive
<1>13. CASE ApplySucceeds(j)
  <2>1. PICK row \in Row : row = [job[j] EXCEPT !.status = "succeeded"]
    BY RowTypes DEF Statuses
  <2>2. /\ row.cleared = job[j].cleared /\ row.op = job[j].op
        /\ row.plan = job[j].plan /\ row.candidate = job[j].candidate /\ row.status = "succeeded"
    BY <2>1 DEF Row
  <2>3. WritesAlive(j, row) /\ Report(j, row)
    BY <1>13, <2>1, <2>2 DEF ApplySucceeds, WritesAlive, Live, WithInputs
  <2>4. QED
    BY <2>2, <2>3, ReportEffect
<1>14. CASE ReportFailure(j)
  <2>1. PICK s \in {"failed", "reconcile"} : Report(j, [job[j] EXCEPT !.status = s])
    BY <1>14 DEF ReportFailure
  <2>2. PICK row \in Row : row = [job[j] EXCEPT !.status = s]
    BY RowTypes DEF Statuses
  <2>3. /\ row.cleared = job[j].cleared /\ row.op = job[j].op
        /\ row.plan = job[j].plan /\ row.candidate = job[j].candidate /\ row.status = s
    BY <2>2 DEF Row
  <2>4. QED
    BY <1>14, <2>1, <2>2, <2>3, ReportEffect DEF ReportFailure, WritesAlive
<1>15. CASE CloseLost(j)
  <2>1. Status(j) = "running" /\ job[j].cleared = 0 /\ Bars(j) /\ worker[j] \notin Live
    BY <1>15 DEF CloseLost, Bars, Status, Live, WithInputs
  <2>2. CASE job' = [job EXCEPT ![j].status = "failed", ![j].revoked = TRUE]
    <3>1. PICK row \in Row : row = [job[j] EXCEPT !.status = "failed", !.revoked = TRUE]
      BY RowTypes
    <3>2. Replaces(j, row)
      BY <2>2, <3>1 DEF Replaces
    <3>3. /\ row.cleared = job[j].cleared /\ row.op = job[j].op
          /\ row.plan = job[j].plan /\ row.candidate = job[j].candidate
      BY <3>1 DEF Row
    <3>4. QED
      BY <1>15, <2>1, <3>2, <3>3, RowEffect DEF CloseLost, KeepsPurpose, BarsAlone
  <2>3. CASE \E s \in {"failed", "reconcile"} : job' = [job EXCEPT ![j].status = s]
    <3>1. PICK s \in {"failed", "reconcile"} : job' = [job EXCEPT ![j].status = s]
      BY <2>3
    <3>2. PICK row \in Row : row = [job[j] EXCEPT !.status = s]
      BY RowTypes DEF Statuses
    <3>3. Replaces(j, row)
      BY <3>1, <3>2 DEF Replaces
    <3>4. /\ row.cleared = job[j].cleared /\ row.op = job[j].op
          /\ row.plan = job[j].plan /\ row.candidate = job[j].candidate
      BY <3>2 DEF Row
    <3>5. QED
      BY <1>15, <2>1, <3>3, <3>4, RowEffect DEF CloseLost, KeepsPurpose, BarsAlone
  <2>4. QED
    BY <1>15, <2>2, <2>3 DEF CloseLost
<1>16. CASE Clear(j)
  <2>1. PICK row \in Row : row = [job[j] EXCEPT !.cleared = made]
    BY <1>1, RowTypes
  <2>2. Replaces(j, row)
    BY <1>16, <2>1 DEF Clear, Replaces
  <2>3. /\ row.status = job[j].status /\ row.cleared = made /\ row.op = job[j].op
        /\ row.plan = job[j].plan /\ row.candidate = job[j].candidate /\ row.class = job[j].class
    BY <2>1 DEF Row
  <2>4. Status(j) = "reconcile" /\ Bars(j) /\ worker[j] \notin Live
    BY <1>16 DEF Clear, Bars, Status, Live, WithInputs
  <2>5. QED
    BY <1>16, <2>2, <2>3, <2>4, RowEffect DEF Clear, KeepsPurpose, BarsAlone, Status
<1>17. QED
  BY <1>2, <1>3, <1>4, <1>5, <1>6, <1>7, <1>8, <1>9, <1>10, <1>11, <1>12, <1>13, <1>14, <1>15,
     <1>16 DEF Work

---------------------------------------------------------------------------
(* Types.                                                                  *)

LEMMA EffectTypes ==
  ASSUME TypeOK, NEW j \in Made, NEW row \in Row, NEW w \in Workers, Effect(j, row, w)
  PROVE  TypeOK'
<1>1. j \in Jobs /\ Made' = Made /\ JobTypes
  <2>1. JobTypes
    BY Parts
  <2>2. QED
    BY <2>1, BoundsAreNumbers DEF JobTypes, Made, Jobs, Effect
<1>2. job' \in [Jobs -> Row \cup {NoJob}] /\ worker' \in [Jobs -> Workers]
  BY <1>1 DEF JobTypes, Effect, Replaces, MovesTo
<1>3. \A k \in Jobs : k \in Made' <=> job'[k] \in Row
  BY <1>1 DEF JobTypes, Effect, Replaces
<1>4. JobTypes'
  BY <1>1, <1>2, <1>3 DEF JobTypes, Effect, WritesAlive
<1>5. OrderTypes' /\ PlatformTypes'
  BY Parts DEF Effect, OrderTypes, PlatformTypes, Newest
<1>6. QED
  BY <1>4, <1>5, Parts

\* A job is made under the newest candidate.
NewRow(op, p) ==
    [op |-> op, plan |-> p, candidate |-> Newest, class |-> "ordinary", status |-> "none",
     ticket |-> FALSE, claimed |-> FALSE, revoked |-> FALSE, cleared |-> 0]

LEMMA MakeTypes ==
  ASSUME TypeOK, NEW op \in {"plan", "apply"}, NEW p \in 0 .. MaxJobs, Make(op, p)
  PROVE  /\ TypeOK' /\ made + 1 \in Jobs /\ made' = made + 1 /\ NewRow(op, p) \in Row
         /\ job' = [job EXCEPT ![made + 1] = NewRow(op, p)]
<1> USE BoundsAreNumbers
<1>1. JobTypes /\ OrderTypes /\ PlatformTypes
  BY Parts
<1>2. made + 1 \in Jobs /\ made' = made + 1 /\ made \in Nat
  BY DEF TypeOK, Make, Jobs
<1>3. Newest \in 0 .. MaxCandidates
  BY DEF TypeOK, Newest
<1>4. NewRow(op, p) \in Row
  BY <1>3 DEF NewRow, Row, Classes, Statuses
<1>5. job' = [job EXCEPT ![made + 1] = NewRow(op, p)]
  BY DEF Make, NewRow
<1>6. job' \in [Jobs -> Row \cup {NoJob}]
  BY <1>1, <1>2, <1>4, <1>5 DEF JobTypes
<1>7. Made' = Made \cup {made + 1}
  BY <1>2 DEF Made
<1>8. \A k \in Jobs : k \in Made' <=> job'[k] \in Row
  BY <1>1, <1>2, <1>4, <1>5, <1>7 DEF JobTypes
<1>9. made' \in 0 .. MaxJobs /\ aged' \in 0 .. made'
  BY <1>2 DEF TypeOK, Make
<1>10. JobTypes'
  BY <1>1, <1>6, <1>7, <1>8, <1>9 DEF JobTypes, Make
<1>11. OrderTypes' /\ PlatformTypes'
  BY <1>1 DEF Make, OrderTypes, PlatformTypes, Newest
<1>12. QED
  BY <1>2, <1>4, <1>5, <1>10, <1>11, Parts

\* Selecting a candidate revokes grants and leaves the rest of the rows.
SameButRevoked(j) ==
    /\ job'[j] \in Row
    /\ job'[j].op = job[j].op /\ job'[j].plan = job[j].plan /\ job'[j].candidate = job[j].candidate
    /\ job'[j].class = job[j].class /\ job'[j].status = job[j].status
    /\ job'[j].cleared = job[j].cleared

LEMMA SelectTypes ==
  ASSUME TypeOK, NEW c \in Candidates, Select(c)
  PROVE  /\ TypeOK' /\ Made' = Made /\ \A j \in Made : SameButRevoked(j)
         /\ candidate' = Append(candidate, c) /\ Newest' = Newest + 1 /\ Newest \in Nat
         /\ candidate'[Newest + 1] = c /\ \A n \in 1 .. Newest : candidate'[n] = candidate[n]
<1> USE BoundsAreNumbers
<1>1. JobTypes /\ OrderTypes /\ PlatformTypes
  BY Parts
<1>2. Made' = Made /\ Made \subseteq Jobs
  BY DEF Select, Made, Jobs, TypeOK
<1>3. ASSUME NEW j \in Made PROVE SameButRevoked(j)
  <2>1. job[j] \in Row /\ j \in Jobs
    BY <1>1, <1>2 DEF JobTypes
  <2>2. PICK row \in Row : row = [job[j] EXCEPT !.revoked = TRUE]
    BY <2>1, RowTypes
  <2>3. job'[j] \in {row, job[j]}
    BY <2>1, <2>2 DEF Select
  <2>4. /\ row.status = job[j].status /\ row.cleared = job[j].cleared /\ row.op = job[j].op
        /\ row.plan = job[j].plan /\ row.candidate = job[j].candidate /\ row.class = job[j].class
    BY <2>1, <2>2 DEF Row
  <2>5. QED
    BY <2>1, <2>3, <2>4 DEF SameButRevoked
<1>4. \A j \in Jobs \ Made : job'[j] = job[j]
  BY DEF Select
<1>5. \A j \in Jobs : job'[j] \in Row \cup {NoJob} /\ (j \in Made' <=> job'[j] \in Row)
  BY <1>1, <1>2, <1>3, <1>4 DEF JobTypes, SameButRevoked
<1>6. job' \in [Jobs -> Row \cup {NoJob}]
  <2>1. job' = [j \in Jobs |-> job'[j]]
    BY DEF Select
  <2>2. QED
    BY <1>5, <2>1
<1>7. JobTypes'
  BY <1>1, <1>2, <1>5, <1>6 DEF JobTypes, Select
<1>8. /\ candidate' \in Seq(Candidates) /\ Newest' = Newest + 1 /\ Newest \in Nat
      /\ candidate'[Newest + 1] = c /\ \A n \in 1 .. Newest : candidate'[n] = candidate[n]
      /\ candidate' = Append(candidate, c)
  BY <1>1 DEF OrderTypes, Select, Newest
<1>9. OrderTypes'
  <2>1. Newest' <= MaxCandidates
    BY <1>8 DEF Select, Newest
  <2>2. QED
    BY <1>1, <1>8, <2>1 DEF OrderTypes, Select
<1>10. PlatformTypes'
  BY <1>1 DEF PlatformTypes, Select
<1>11. QED
  BY <1>2, <1>3, <1>7, <1>8, <1>9, <1>10, Parts

\* An order is of a version and a platform that there can be.
LEMMA SnapshotTypes ==
  ASSUME TypeOK, order # "none", NEW n \in 0 .. Newest
  PROVE  /\ Snapshot(n).version \in 1 .. MaxTemplates
         /\ Snapshot(n).platform \in 1 .. MaxContracts
         /\ Snapshot(n).policy \in Policies
<1> USE BoundsAreNumbers
<1>1. CASE n = 0
  <2>1. 1 \in 1 .. Len(template)
    BY DEF TypeOK
  <2>2. template[1] \in 1 .. MaxContracts
    BY <2>1 DEF TypeOK
  <2>3. QED
    BY <1>1, <2>2 DEF Snapshot, TypeOK
<1>2. CASE n # 0
  <2>1. n \in 1 .. Len(candidate)
    BY <1>2 DEF Newest, TypeOK
  <2>2. candidate[n] \in Candidates
    BY <2>1 DEF TypeOK
  <2>3. QED
    BY <1>2, <2>2 DEF Snapshot, Candidates
<1>3. QED
  BY <1>1, <1>2

LEMMA ImpactTypes ==
  ASSUME TypeOK
  PROVE  Impact \in Impacts
<1>1. Newest \in 0 .. MaxCandidates
  BY BoundsAreNumbers DEF TypeOK, Newest
<1>2. Blockers \in BOOLEAN
  BY DEF Blockers
<1>3. QED
  BY <1>1, <1>2 DEF Impact, Impacts, TypeOK

\* Steps that change no job and select no candidate.
Aside ==
    \/ \E policy \in Policies : Place(policy)
    \/ \E p \in Made : Approve(p)
    \/ Expire \/ Publish \/ Platform

LEMMA AsideTypes ==
  ASSUME TypeOK, Aside
  PROVE  TypeOK'
<1> USE BoundsAreNumbers
<1>1. OrderTypes /\ JobTypes /\ PlatformTypes
  BY Parts
<1>2. CASE \E policy \in Policies : Place(policy)
  <2>1. OrderTypes' /\ JobTypes' /\ PlatformTypes'
    BY <1>1, <1>2 DEF Place, OrderTypes, JobTypes, PlatformTypes, Newest, Made
  <2>2. QED
    BY <2>1, Parts
<1>3. CASE \E p \in Made : Approve(p)
  <2>1. OrderTypes' /\ PlatformTypes'
    BY <1>1, <1>3 DEF Approve, OrderTypes, PlatformTypes, Newest
  <2>2. JobTypes'
    BY <1>1, <1>3 DEF Approve, JobTypes, Made
  <2>3. QED
    BY <2>1, <2>2, Parts
<1>4. CASE Expire
  <2>1. OrderTypes' /\ PlatformTypes'
    BY <1>1, <1>4 DEF Expire, OrderTypes, PlatformTypes, Newest
  <2>2. JobTypes'
    BY <1>1, <1>4 DEF Expire, JobTypes, Made
  <2>3. QED
    BY <2>1, <2>2, Parts
<1>5. ASSUME NEW c \in 1 .. Len(contract), PublishVersion(c) PROVE TypeOK'
  <2>1. JobTypes' /\ PlatformTypes'
    BY <1>1, <1>5 DEF PublishVersion, JobTypes, PlatformTypes, Made
  <2>2. template' \in Seq(1 .. Len(contract)) /\ Len(template') = Len(template) + 1
    BY <1>1, <1>5 DEF PublishVersion, OrderTypes
  <2>3. OrderTypes'
    BY <1>1, <1>5, <2>2 DEF PublishVersion, OrderTypes, Newest
  <2>4. QED
    BY <2>1, <2>3, Parts
<1>6. CASE PublishContract
  <2>1. JobTypes' /\ PlatformTypes'
    BY <1>1, <1>6 DEF PublishContract, JobTypes, PlatformTypes, Made
  <2>2. platform.version \in 1 .. platform.version
    BY <1>1 DEF PlatformTypes
  <2>3. contract' \in Seq(1 .. platform.version) /\ Len(contract') = Len(contract) + 1
    BY <1>1, <1>6, <2>2 DEF PublishContract, OrderTypes
  <2>4. 1 .. Len(contract) \subseteq 1 .. Len(contract')
    BY <1>1, <2>3 DEF OrderTypes
  <2>5. template' \in Seq(1 .. Len(contract'))
    BY <1>1, <1>6, <2>4, SeqMonotonic DEF PublishContract, OrderTypes
  <2>6. OrderTypes'
    BY <1>1, <1>6, <2>3, <2>5 DEF PublishContract, OrderTypes, Newest
  <2>7. QED
    BY <2>1, <2>6, Parts
<1>7. ASSUME NEW p \in Paths, NEW policy \in Policies, PublishEdge(p, policy) PROVE TypeOK'
  <2>1. JobTypes' /\ PlatformTypes'
    BY <1>1, <1>7 DEF PublishEdge, JobTypes, PlatformTypes, Made
  <2>2. OrderTypes'
    BY <1>1, <1>7 DEF PublishEdge, OrderTypes, Newest
  <2>3. QED
    BY <2>1, <2>2, Parts
<1>8. ASSUME NEW class \in Classes, SavePlan(class) PROVE TypeOK'
  <2>1. OrderTypes' /\ JobTypes'
    BY <1>1, <1>8 DEF SavePlan, OrderTypes, JobTypes, Newest, Made
  <2>2. PlatformTypes'
    BY <1>1, <1>8 DEF SavePlan, PlatformTypes, PlatformPlans
  <2>3. QED
    BY <2>1, <2>2, Parts
<1>9. CASE Acknowledge
  <2>1. OrderTypes' /\ JobTypes'
    BY <1>1, <1>9 DEF Acknowledge, OrderTypes, JobTypes, Newest, Made
  <2>2. PlatformTypes'
    BY <1>1, <1>9, ImpactTypes DEF Acknowledge, PlatformTypes
  <2>3. QED
    BY <2>1, <2>2, Parts
<1>10. CASE AdmitApply
  <2>1. platform' = [platform EXCEPT !.status = "starting", !.guard = Impact]
    BY <1>10 DEF AdmitApply
  <2>2. platform'.version = platform.version
    BY <1>1, <2>1 DEF PlatformTypes
  <2>3. PlatformTypes'
    BY <1>1, <1>10, <2>1, ImpactTypes DEF AdmitApply, PlatformTypes
  <2>4. OrderTypes' /\ JobTypes'
    BY <1>1, <1>10, <2>2 DEF AdmitApply, OrderTypes, JobTypes, Newest, Made
  <2>5. QED
    BY <2>3, <2>4, Parts
<1>11. CASE StartApply \/ LoseApply
  <2>1. PICK s \in {"working", "recovery"} : platform' = [platform EXCEPT !.status = s]
    BY <1>11 DEF StartApply, LoseApply
  <2>2. platform'.version = platform.version
    BY <1>1, <2>1 DEF PlatformTypes
  <2>3. PlatformTypes'
    BY <1>1, <1>11, <2>1 DEF StartApply, LoseApply, PlatformTypes
  <2>4. OrderTypes' /\ JobTypes'
    BY <1>1, <1>11, <2>2 DEF StartApply, LoseApply, OrderTypes, JobTypes, Newest, Made
  <2>5. QED
    BY <2>3, <2>4, Parts
<1>12. CASE FinishApply
  <2>1. PICK v \in {platform.version, platform.version + 1} :
           v <= MaxVersion /\ platform' = [platform EXCEPT !.status = "none", !.version = v]
    BY <1>12 DEF FinishApply
  <2>2. v \in 1 .. MaxVersion /\ platform'.version = v /\ platform.version \in 1 .. v
    BY <1>1, <2>1 DEF PlatformTypes
  <2>3. PlatformTypes'
    BY <1>1, <1>12, <2>1, <2>2 DEF FinishApply, PlatformTypes
  <2>4. 1 .. platform.version \subseteq 1 .. v
    BY <2>2
  <2>5. contract \in Seq(1 .. v)
    BY <1>1, <2>4, SeqMonotonic DEF OrderTypes
  <2>6. OrderTypes'
    BY <1>1, <1>12, <2>2, <2>5 DEF FinishApply, OrderTypes, Newest
  <2>7. JobTypes'
    BY <1>1, <1>12 DEF FinishApply, JobTypes, Made
  <2>8. QED
    BY <2>3, <2>6, <2>7, Parts
<1>13. QED
  BY <1>2, <1>3, <1>4, <1>5, <1>6, <1>7, <1>8, <1>9, <1>10, <1>11, <1>12
     DEF Aside, Publish, Platform

\* A candidate is selected along a published path, or it is what was applied last.
Chosen(c) ==
    \/ c.kind # "withdrawal" /\ c.path \in Paths /\ edge[c.path] # "none"
    \/ /\ c.kind = "withdrawal" /\ Pending
       /\ c.version = Snapshot(AppliedCandidate).version
       /\ c.platform = Snapshot(AppliedCandidate).platform

LEMMA AppliedCandidateExists ==
  ASSUME TypeOK, CandidatesExist
  PROVE  AppliedCandidate \in 0 .. Newest
<1>1. Newest \in Nat
  BY DEF TypeOK, Newest
<1>2. applied # 0 => applied \in Made /\ job[applied] \in Row
  BY BoundsAreNumbers DEF TypeOK, Made, Jobs
<1>3. QED
  BY <1>1, <1>2 DEF AppliedCandidate, CandidatesExist, Row

LEMMA UpgradeSelects ==
  ASSUME TypeOK, CandidatesExist, PathsPublished, Upgrade
  PROVE  \E c \in Candidates : Select(c) /\ Chosen(c)
<1> USE BoundsAreNumbers
<1>1. order # "none"
  BY DEF Upgrade, RequestVersion, RequestPlatform, Withdraw, Refresh, Select
<1>2. Newest \in Nat /\ Newest \in 0 .. Newest
  BY DEF TypeOK, Newest
<1>3. /\ Snapshot(Newest).version \in 1 .. MaxTemplates
      /\ Snapshot(Newest).platform \in 1 .. MaxContracts
  BY <1>1, <1>2, SnapshotTypes
<1>4. 1 .. MaxTemplates \subseteq Targets /\ 1 .. MaxContracts \subseteq Targets
  BY DEF Targets
<1>5. \A p \in Paths : edge[p] \in {"none"} \cup Policies
  BY DEF TypeOK
<1>6. ASSUME NEW to \in 1 .. Len(template), RequestVersion(to)
      PROVE  \E c \in Candidates : Select(c) /\ Chosen(c)
  <2> DEFINE p == [kind |-> "template", from |-> Snapshot(Newest).version, to |-> to]
  <2> DEFINE c == [kind |-> "template", path |-> p, version |-> to, platform |-> template[to],
                   policy |-> edge[p], sensitive |-> edge[p]]
  <2>t. Len(template) <= MaxTemplates /\ template \in Seq(1 .. MaxContracts)
    BY DEF TypeOK
  <2>1. to \in 1 .. MaxTemplates /\ template[to] \in 1 .. MaxContracts
    BY <2>t
  <2>2. p \in Paths
    BY <1>3, <1>4, <2>1 DEF Paths
  <2>3. edge[p] # "none" /\ Select(c)
    BY <1>6 DEF RequestVersion
  <2>4. edge[p] \in Policies
    BY <1>5, <2>2, <2>3
  <2>5. c \in Candidates
    BY <2>1, <2>2, <2>4 DEF Candidates
  <2>6. Chosen(c)
    BY <2>2, <2>3 DEF Chosen
  <2>7. QED
    BY <2>3, <2>5, <2>6
<1>7. ASSUME NEW to \in 1 .. Len(contract), RequestPlatform(to)
      PROVE  \E c \in Candidates : Select(c) /\ Chosen(c)
  <2> DEFINE p == [kind |-> "platform", from |-> Snapshot(Newest).platform, to |-> to]
  <2> DEFINE c == [kind |-> "platform", path |-> p, version |-> Snapshot(Newest).version,
                   platform |-> to, policy |-> edge[p], sensitive |-> edge[p]]
  <2>1. to \in 1 .. MaxContracts
    BY DEF TypeOK
  <2>2. p \in Paths
    BY <1>3, <1>4, <2>1 DEF Paths
  <2>3. edge[p] # "none" /\ Select(c)
    BY <1>7 DEF RequestPlatform
  <2>4. edge[p] \in Policies
    BY <1>5, <2>2, <2>3
  <2>5. c \in Candidates
    BY <1>3, <2>1, <2>2, <2>4 DEF Candidates
  <2>6. Chosen(c)
    BY <2>2, <2>3 DEF Chosen
  <2>7. QED
    BY <2>3, <2>5, <2>6
<1>8. ASSUME Withdraw
      PROVE  \E c \in Candidates : Select(c) /\ Chosen(c)
  <2> DEFINE last == Snapshot(AppliedCandidate)
  <2> DEFINE c == [kind |-> "withdrawal", path |-> NoPath, version |-> last.version,
                   platform |-> last.platform, policy |-> last.policy, sensitive |-> "approval"]
  <2>1. /\ last.version \in 1 .. MaxTemplates /\ last.platform \in 1 .. MaxContracts
        /\ last.policy \in Policies
    BY <1>1, AppliedCandidateExists, SnapshotTypes
  <2>2. c \in Candidates
    BY <2>1 DEF Candidates, Policies
  <2>3. Select(c) /\ Pending
    BY <1>8 DEF Withdraw
  <2>4. Chosen(c)
    BY <2>3 DEF Chosen
  <2>5. QED
    BY <2>2, <2>3, <2>4
<1>9. ASSUME Refresh
      PROVE  \E c \in Candidates : Select(c) /\ Chosen(c)
  <2> DEFINE now == candidate[Newest]
  <2> DEFINE c == [now EXCEPT !.policy = edge[now.path], !.sensitive = edge[now.path]]
  <2>1. Newest \in 1 .. Len(candidate) /\ now.kind # "withdrawal"
    BY <1>2, <1>9 DEF Refresh, Pending, Newest
  <2>2. now \in Candidates
    BY <2>1 DEF TypeOK
  <2>3. now.path \in Paths /\ edge[now.path] # "none"
    BY <2>1 DEF PathsPublished, Newest
  <2>4. edge[now.path] \in Policies
    BY <1>5, <2>3
  <2>5. c \in Candidates /\ c.kind = now.kind /\ c.path = now.path
    BY <2>2, <2>4 DEF Candidates
  <2>6. Select(c)
    BY <1>9 DEF Refresh
  <2>7. Chosen(c)
    BY <2>1, <2>3, <2>5 DEF Chosen
  <2>8. QED
    BY <2>5, <2>6, <2>7
<1>10. QED
  BY <1>6, <1>7, <1>8, <1>9 DEF Upgrade

\* Every step is of one of five kinds.
LEMMA Steps ==
  ASSUME Next
  PROVE  \/ Aside
         \/ \E j \in Made : Work(j) \/ RevokeGrant(j)
         \/ PreparePlan
         \/ \E p \in Made : PrepareApply(p)
         \/ Upgrade
BY DEF Next, Aside


---------------------------------------------------------------------------
(* A step of a job's dispatch or runner keeps the invariant.               *)

LEMMA MadeFacts ==
  ASSUME TypeOK
  PROVE  /\ Made \subseteq Jobs /\ made \in Nat /\ Made \subseteq Nat \ {0}
         /\ \A j \in Made : job[j] \in Row
         /\ Newest \in Nat /\ Newest \in 0 .. Newest
         /\ applied \in Nat /\ (applied # 0 => applied \in Made)
         /\ written \in Nat /\ (written # 0 => written \in Made)
<1>1. made \in 0 .. MaxJobs /\ Made \subseteq Jobs
  BY BoundsAreNumbers DEF TypeOK, Made, Jobs
<1>2. made \in Nat /\ Made \subseteq Nat \ {0}
  BY <1>1 DEF Made
<1>3. \A j \in Made : job[j] \in Row
  BY <1>1 DEF TypeOK
<1>4. Newest \in Nat /\ Newest \in 0 .. Newest
  BY DEF TypeOK, Newest
<1>5. applied \in {0} \cup Made /\ written \in {0} \cup Made
  BY DEF TypeOK
<1>6. QED
  BY <1>1, <1>2, <1>3, <1>4, <1>5

LEMMA RowFacts ==
  ASSUME NEW row \in Row
  PROVE  /\ row.candidate \in Nat /\ row.plan \in Nat /\ row.cleared \in Nat
         /\ row.op \in {"plan", "apply"}
BY BoundsAreNumbers DEF Row

LEMMA LiveBlocks ==
  ASSUME LiveIsBarred
  PROVE  /\ \A j \in Made : Bars(j) => Blockers
         /\ \A j \in Made : worker[j] \in Live => Blockers
BY DEF LiveIsBarred, Bars, Blockers, Blocking

\* While an Apply of the platform is under way the order's jobs make no step.
LEMMA WorkIsFenced ==
  ASSUME IInv, ~Fence, NEW j \in Made
  PROVE  ~Work(j)
<1>1. ~Blockers /\ ~Bars(j) /\ worker[j] \notin Live
  BY LiveBlocks DEF IInv, AtRest, Fence
<1>2. Status(j) # "running"
  BY <1>1 DEF Bars
<1>3. ~Reserve(j) /\ ~IssueTicket(j) /\ ~Launch(j) /\ ~Fail(j) /\ ~Claim(j) /\ ~CloseLost(j)
  BY <1>2 DEF Reserve, IssueTicket, Launch, Fail, Claim, CloseLost
<1>4. ~Release(j) /\ ~Begin(j) /\ ~Write(j) /\ ~Dies(j)
  BY <1>1 DEF Release, Begin, Write, Dies, Walk, Live, WithInputs
<1>5. ~PlanSucceeds(j) /\ ~ApplySucceeds(j) /\ ~ReportFailure(j)
  BY <1>2 DEF PlanSucceeds, ApplySucceeds, ReportFailure, Report, ReportOK
<1>6. ~Clear(j)
  BY <1>1 DEF Clear, Bars
<1>7. QED
  BY <1>3, <1>4, <1>5, <1>6 DEF Work

\* A revoked grant gives no reason to wait that there was not before.
LEMMA RevokedBlocksLess ==
  ASSUME TypeOK, NEW j \in Made, RevokeGrant(j), ~Blockers
  PROVE  ~Blockers'
<1>1. Made' = Made /\ aged' = aged
  BY DEF RevokeGrant, Made
<1>2. \A k \in Made \ {j} : job'[k] = job[k]
  BY MadeFacts DEF RevokeGrant, TypeOK
<1>3. PICK row \in Row : row = [job[j] EXCEPT !.revoked = TRUE]
  BY MadeFacts, RowTypes
<1>4. job'[j] = row
  BY <1>3, MadeFacts DEF RevokeGrant, TypeOK
<1>5. /\ row.status = job[j].status /\ row.cleared = job[j].cleared /\ row.op = job[j].op
      /\ row.ticket = job[j].ticket /\ row.claimed = job[j].claimed /\ row.revoked = TRUE
  BY <1>3, MadeFacts DEF Row
<1>6. ASSUME NEW k \in Made, Blocking(k)' PROVE Blocking(k)
  <2>1. CASE k = j
    BY <1>1, <1>4, <1>5, <1>6, <2>1 DEF Blocking, Status, UnexpiredTicket, Expired, Settled
  <2>2. CASE k # j
    BY <1>1, <1>2, <1>6, <2>2 DEF Blocking, Status, UnexpiredTicket, Expired, Settled
  <2>3. QED
    BY <2>1, <2>2
<1>7. QED
  BY <1>1, <1>6 DEF Blockers

LEMMA SnapshotStays ==
  ASSUME NEW n \in Nat, template'[1] = template[1], n # 0 => candidate'[n] = candidate[n]
  PROVE  Snapshot(n)'.version = Snapshot(n).version /\ Snapshot(n)'.platform = Snapshot(n).platform
BY DEF Snapshot

CloudCandidate == IF written = 0 THEN 0 ELSE job[written].candidate

Restores(n) ==
    /\ candidate[Newest].version = Snapshot(n).version
    /\ candidate[Newest].platform = Snapshot(n).platform

LEMMA RestoredParts ==
    /\ WithdrawnIsRestored <=>
         (Newest # 0 /\ candidate[Newest].kind = "withdrawal" => Restores(CloudCandidate))
    /\ WithdrawnIsRestored' <=>
         (Newest' # 0 /\ candidate'[Newest'].kind = "withdrawal" => Restores(CloudCandidate)')
BY DEF WithdrawnIsRestored, Restores, CloudCandidate

LEMMA CloudCandidateExists ==
  ASSUME TypeOK, CandidatesExist
  PROVE  CloudCandidate \in 0 .. Newest
BY MadeFacts, RowFacts DEF CloudCandidate, CandidatesExist

LEMMA EffectKeeps ==
  ASSUME IInv, NEW j \in Made, NEW row \in Row, NEW w \in Workers, Effect(j, row, w),
         ~Fence => ~Blockers'
  PROVE  IInv'
<1> USE MadeFacts
<1>1. TypeOK /\ TypeOK'
  BY EffectTypes DEF IInv
<1>2. /\ Made' = Made /\ Newest' = Newest /\ Jobs' = Jobs
      /\ UNCHANGED <<order, candidate, edge, template, approved, platform, plan, acks, made>>
  BY DEF Effect, Made, Newest
<1>3. /\ \A k \in Made \ {j} : job'[k] = job[k]
      /\ \A k \in Jobs \ {j} : worker'[k] = worker[k]
      /\ job'[j] = row /\ worker'[j] = w
  BY <1>1 DEF Effect, Replaces, MovesTo, TypeOK
<1>4. \A k \in Made : /\ job'[k].op = job[k].op /\ job'[k].plan = job[k].plan
                      /\ job'[k].candidate = job[k].candidate
                      /\ Status(k) = "succeeded" =>
                           job'[k].status = "succeeded" /\ job'[k].class = job[k].class
  BY <1>3 DEF Effect, KeepsPurpose, Status
<1>5. /\ \A k \in Made \ {j} : Bars(k)' <=> Bars(k)
      /\ Bars(j)' <=> RowBars(row)
  BY <1>3 DEF Bars, RowBars, Status
<1>6. worker[j] \in Live => Bars(j) /\ BindingOK(j)
  BY DEF IInv, LiveIsBarred, LiveIsBound
<1>7. NoJobs' /\ PathsPublished'
  BY <1>2 DEF IInv, NoJobs, PathsPublished
<1>8. WorkersAreMade'
  BY <1>1, <1>2, <1>3 DEF IInv, WorkersAreMade
<1>9. ClearedWait'
  BY <1>2, <1>3 DEF IInv, ClearedWait, Effect, Status
<1>10. LiveIsBarred'
  BY <1>1, <1>2, <1>3, <1>5 DEF IInv, LiveIsBarred, Effect, WorkerFits
<1>11. LiveIsBound'
  BY <1>1, <1>2, <1>3, <1>4, <1>6 DEF IInv, LiveIsBound, BindingOK, Effect, WorkerFits
<1>12. WorkingApplies'
  BY <1>1, <1>2, <1>3 DEF IInv, WorkingApplies, Effect, WorkerFits
<1>13. OneBars'
  BY <1>2, <1>5 DEF IInv, OneBars, Effect, BarsAlone
<1>14. ~Fence => Impact' = Impact /\ ~Blockers /\ ~Blockers'
  <2>1. Blockers \in BOOLEAN /\ Blockers' \in BOOLEAN
    BY DEF Blockers
  <2>2. ~Fence => Blockers = Blockers' /\ ~Blockers
    BY <2>1 DEF IInv, AtRest, Fence
  <2>3. QED
    BY <1>2, <2>2 DEF Impact
<1>15. AtRest' /\ Reviewed'
  BY <1>2, <1>14 DEF IInv, AtRest, Reviewed, Fence
<1>16. CandidatesExist'
  BY <1>2, <1>4 DEF IInv, CandidatesExist
<1>17. AppliesFit'
  BY <1>2, <1>4 DEF IInv, AppliesFit, PlanFits, ApprovalOK, Status
<1>18. Ordered'
  BY <1>2, <1>4 DEF IInv, Ordered
<1>19. Latest'
  <2>1. CASE applied' = applied
    <3>1. applied # 0 => job'[applied].op = "apply" /\ job'[applied].status = "succeeded"
      BY <1>1, <1>4 DEF IInv, Latest
    <3>2. ASSUME row.op = "apply", RowBars(row) PROVE applied < j
      <4>1. CASE Bars(j)
        BY <1>3, <1>4, <3>2, <4>1 DEF IInv, Latest
      <4>2. CASE applied = 0
        BY <1>1, <4>2
      <4>3. CASE Status(j) = "none" /\ ContextOK(j) /\ applied # 0
        <5>1. applied # j /\ applied \in Made /\ job[applied].op = "apply"
          BY <1>1, <4>3 DEF IInv, Latest
        <5>2. job[j].op = "apply" /\ NewestPlan(job[j].plan)
          BY <1>3, <1>4, <3>2, <4>3 DEF ContextOK, PlanUsable
        <5>3. job[applied].plan \in Made /\ job[job[applied].plan].op = "plan"
          BY <5>1 DEF IInv, AppliesFit, PlanFits
        <5>4. ~(job[applied].plan > job[j].plan)
          BY <5>2, <5>3 DEF NewestPlan
        <5>5. ~(j < applied)
          BY <1>1, <5>1, <5>2, <5>4, RowFacts DEF IInv, Ordered
        <5>6. QED
          BY <1>1, <5>1, <5>5
      <4>4. QED
        BY <3>2, <4>1, <4>2, <4>3 DEF Effect, BarsAlone
    <3>3. QED
      BY <1>2, <1>3, <1>4, <1>5, <2>1, <3>1, <3>2 DEF IInv, Latest, Status
  <2>2. CASE applied' # applied
    <3>1. applied' = j /\ row.status = "succeeded" /\ job[j].op = "apply" /\ worker[j] \in Live
      BY <2>2 DEF Effect, WritesAlive
    <3>2. \A k \in Made : ~Bars(k)'
      BY <1>3, <1>5, <1>6, <3>1 DEF IInv, OneBars, RowBars
    <3>3. QED
      BY <1>2, <1>3, <1>4, <3>1, <3>2 DEF Latest, Status
  <2>3. QED
    BY <2>1, <2>2
<1>20. StateIsApplied'
  <2>1. CASE UNCHANGED <<applied, written>>
    BY <1>1, <1>4, <2>1 DEF IInv, StateIsApplied
  <2>2. CASE worker[j] \in Live /\ job[j].op = "apply" /\ written' = j
    <3>1. applied < j
      BY <1>6, <2>2 DEF IInv, Latest
    <3>2. applied' \in {applied, j}
      BY DEF Effect, WritesAlive
    <3>3. QED
      BY <1>1, <1>4, <2>2, <3>1, <3>2 DEF StateIsApplied
  <2>3. QED
    BY <2>1, <2>2 DEF Effect, WritesAlive
<1>21. WithdrawnIsRestored'
  <2>1. CASE written' = written
    <3>1. CloudCandidate' = CloudCandidate
      BY <1>1, <1>4, <2>1 DEF CloudCandidate
    <3>2. Restores(CloudCandidate)' <=> Restores(CloudCandidate)
      BY <1>2, <3>1 DEF Restores, Snapshot
    <3>3. QED
      BY <1>2, <3>2, RestoredParts DEF IInv
  <2>2. CASE written' = j /\ worker[j] \in Live
    <3>1. CloudCandidate' = Newest
      BY <1>1, <1>4, <1>6, <2>2 DEF CloudCandidate, BindingOK
    <3>2. Newest # 0 => Restores(CloudCandidate)'
      BY <1>2, <3>1 DEF Restores, Snapshot
    <3>3. QED
      BY <1>2, <3>2, RestoredParts
  <2>3. QED
    BY <2>1, <2>2 DEF Effect, WritesAlive
<1>22. QED
  BY <1>1, <1>7, <1>8, <1>9, <1>10, <1>11, <1>12, <1>13, <1>15, <1>16, <1>17, <1>18,
     <1>19, <1>20, <1>21 DEF IInv

LEMMA WorkKeeps ==
  ASSUME IInv, NEW j \in Made, Work(j) \/ RevokeGrant(j)
  PROVE  IInv'
<1>1. Sound(j)
  BY MadeFacts DEF IInv, Sound, ClearedWait, LiveIsBarred, WorkingApplies, TypeOK
<1>2. PICK row \in Row, w \in Workers : Effect(j, row, w)
  BY <1>1, WorkHasEffect
<1>3. ~Fence => ~Blockers'
  BY WorkIsFenced, RevokedBlocksLess DEF IInv, AtRest, Fence
<1>4. QED
  BY <1>2, <1>3, EffectKeeps

---------------------------------------------------------------------------
(* Making a job keeps the invariant.                                       *)

LEMMA MakeKeeps ==
  ASSUME IInv, NEW op \in {"plan", "apply"}, NEW p \in 0 .. MaxJobs, Make(op, p),
         op = "apply" => /\ p \in Made /\ PlanUsable(p) /\ BindingOK(p)
                         /\ \A k \in Made : job[k].plan # p
  PROVE  IInv'
<1> USE MadeFacts
<1>0. PICK new \in Jobs : new = made + 1
  BY MakeTypes DEF IInv
<1>1. /\ TypeOK /\ TypeOK' /\ made' = new
      /\ job \in [Jobs -> Row \cup {NoJob}] /\ job' = [job EXCEPT ![new] = NewRow(op, p)]
  <2>1. TypeOK
    BY DEF IInv
  <2>2. TypeOK' /\ made' = new /\ job' = [job EXCEPT ![new] = NewRow(op, p)]
    BY <1>0, <2>1, MakeTypes
  <2>3. QED
    BY <2>1, <2>2 DEF TypeOK
<1>2. /\ Made' = Made \cup {new} /\ new \notin Made /\ Newest' = Newest /\ Jobs' = Jobs
      /\ UNCHANGED <<order, candidate, edge, template, approved, applied, written, worker,
                     platform, plan, acks>>
      /\ order # "none" /\ Fence
  BY <1>0, <1>1 DEF Make, Made, Newest
<1>3. \A k \in Made : job'[k] = job[k] /\ (Bars(k)' <=> Bars(k))
  <2>1. \A k \in Made : job'[k] = job[k]
    BY <1>1, <1>2
  <2>2. QED
    BY <2>1 DEF Bars, Status
<1>4. /\ job'[new].op = op /\ job'[new].plan = p /\ job'[new].candidate = Newest
      /\ job'[new].status = "none" /\ job'[new].cleared = 0
  <2>1. job'[new] = NewRow(op, p)
    BY <1>1
  <2>2. QED
    BY <2>1 DEF NewRow
<1>5. ~Bars(new)' /\ worker[new] = "none"
  BY <1>1, <1>2, <1>4 DEF Bars, Status, IInv, WorkersAreMade
<1>6. NoJobs' /\ PathsPublished'
  BY <1>2 DEF IInv, NoJobs, PathsPublished
<1>7. WorkersAreMade'
  BY <1>2 DEF IInv, WorkersAreMade
<1>8. ClearedWait'
  BY <1>2, <1>3, <1>4 DEF IInv, ClearedWait, Status
<1>9. LiveIsBarred' /\ LiveIsBound' /\ WorkingApplies'
  BY <1>2, <1>3, <1>5 DEF IInv, LiveIsBarred, LiveIsBound, WorkingApplies, BindingOK, Live, WithInputs
<1>10. OneBars'
  BY <1>2, <1>3, <1>5 DEF IInv, OneBars
<1>11. AtRest' /\ Reviewed'
  BY <1>2 DEF AtRest, Reviewed, Fence
<1>12. CandidatesExist'
  BY <1>1, <1>2, <1>3, <1>4 DEF IInv, CandidatesExist
<1>13. AppliesFit'
  <2>1. ASSUME NEW k \in Made, job[k].op = "apply" PROVE PlanFits(k)'
    <3>1. PlanFits(k) /\ job[k].plan \in Made
      BY <2>1 DEF IInv, AppliesFit, PlanFits
    <3>2. QED
      BY <1>2, <1>3, <3>1 DEF PlanFits, ApprovalOK, Status
  <2>2. ASSUME op = "apply" PROVE PlanFits(new)'
    BY <1>2, <1>3, <1>4, <2>2 DEF PlanFits, PlanUsable, BindingOK, ApprovalOK, Status
  <2>3. QED
    BY <1>2, <1>3, <1>4, <2>1, <2>2 DEF AppliesFit
<1>14. Ordered'
  <2>1. ASSUME NEW k \in Made, job[k].op = "apply", op = "apply" PROVE job[k].plan < p
    <3>1. job[k].plan \in Made /\ job[job[k].plan].op = "plan" /\ job[k].plan # p
      BY <2>1 DEF IInv, AppliesFit, PlanFits
    <3>2. ~(job[k].plan > p)
      BY <2>1, <3>1 DEF PlanUsable, NewestPlan
    <3>3. QED
      BY <1>1, <2>1, <3>1, <3>2
  <2>2. \A k \in Made : k < new
    BY <1>0, <1>1 DEF Made
  <2>3. ASSUME NEW i \in Made', NEW k \in Made', i < k, job'[i].op = "apply", job'[k].op = "apply"
        PROVE  job'[i].plan < job'[k].plan
    <3>1. i \in Made
      BY <1>0, <1>1, <1>2, <2>2, <2>3
    <3>2. CASE k \in Made
      BY <1>3, <2>3, <3>1, <3>2 DEF IInv, Ordered
    <3>3. CASE k = new
      BY <1>3, <1>4, <2>1, <2>3, <3>1, <3>3
    <3>4. QED
      BY <1>2, <3>2, <3>3
  <2>4. QED
    BY <2>3 DEF Ordered
<1>15. Latest' /\ StateIsApplied'
  BY <1>1, <1>2, <1>3, <1>5 DEF IInv, Latest, StateIsApplied, Status
<1>16. WithdrawnIsRestored'
  <2>1. CloudCandidate' = CloudCandidate
    BY <1>1, <1>2, <1>3 DEF CloudCandidate
  <2>2. Restores(CloudCandidate)' <=> Restores(CloudCandidate)
    BY <1>2, <2>1 DEF Restores, Snapshot
  <2>3. QED
    BY <1>2, <2>2, RestoredParts DEF IInv
<1>17. QED
  BY <1>1, <1>6, <1>7, <1>8, <1>9, <1>10, <1>11, <1>12, <1>13, <1>14, <1>15, <1>16 DEF IInv

LEMMA PrepareKeeps ==
  ASSUME IInv, PreparePlan \/ \E p \in Made : PrepareApply(p)
  PROVE  IInv'
<1>1. CASE PreparePlan
  <2>1. Make("plan", 0) /\ 0 \in 0 .. MaxJobs
    BY <1>1, BoundsAreNumbers DEF PreparePlan
  <2>2. QED
    BY <2>1, MakeKeeps
<1>2. ASSUME NEW p \in Made, PrepareApply(p) PROVE IInv'
  <2>1. Make("apply", p) /\ PlanUsable(p) /\ BindingOK(p) /\ \A k \in Made : job[k].plan # p
    BY <1>2 DEF PrepareApply
  <2>2. p \in 0 .. MaxJobs
    BY BoundsAreNumbers DEF IInv, TypeOK, Made
  <2>3. QED
    BY <2>1, <2>2, MakeKeeps
<1>3. QED
  BY <1>1, <1>2

---------------------------------------------------------------------------
(* Selecting a candidate keeps the invariant.                              *)

LEMMA UpgradeKeeps ==
  ASSUME IInv, Upgrade
  PROVE  IInv'
<1> USE MadeFacts
<1>1. PICK c \in Candidates : Select(c) /\ Chosen(c)
  BY UpgradeSelects DEF IInv
<1>2. /\ TypeOK /\ TypeOK' /\ Made' = Made /\ Jobs' = Jobs
      /\ Newest' = Newest + 1 /\ candidate'[Newest'] = c
      /\ \A n \in 1 .. Newest : candidate'[n] = candidate[n]
  BY <1>1, SelectTypes DEF IInv, Jobs
<1>3. /\ UNCHANGED <<order, edge, template, made, worker, approved, applied, written, platform,
                     plan, acks>>
      /\ Fence /\ ~Blockers /\ order # "none"
  BY <1>1 DEF Select
<1>4. \A k \in Made : SameButRevoked(k)
  BY <1>1, SelectTypes DEF IInv
<1>5. \A k \in Made : (Bars(k)' <=> Bars(k)) /\ Status(k)' = Status(k)
  BY <1>4 DEF SameButRevoked, Bars, Status
<1>6. \A k \in Made : worker[k] \notin Live
  BY <1>3, LiveBlocks DEF IInv
<1>7. NoJobs' /\ WorkersAreMade' /\ ClearedWait'
  BY <1>2, <1>3, <1>4, <1>5 DEF IInv, NoJobs, WorkersAreMade, ClearedWait, SameButRevoked
<1>8. LiveIsBarred' /\ LiveIsBound' /\ WorkingApplies'
  BY <1>2, <1>3, <1>6 DEF LiveIsBarred, LiveIsBound, WorkingApplies, Live, WithInputs
<1>9. OneBars'
  BY <1>2, <1>5 DEF IInv, OneBars
<1>10. AtRest' /\ Reviewed'
  BY <1>3 DEF AtRest, Reviewed, Fence
<1>11. PathsPublished'
  <2>1. c.kind # "withdrawal" => c.path \in Paths /\ edge[c.path] # "none"
    BY <1>1 DEF Chosen
  <2>2. QED
    BY <1>2, <1>3, <2>1 DEF IInv, PathsPublished
<1>12. CandidatesExist'
  BY <1>2, <1>4, RowFacts DEF IInv, CandidatesExist, SameButRevoked
<1>13. AppliesFit'
  <2>1. ASSUME NEW k \in Made, job[k].op = "apply" PROVE PlanFits(k)'
    <3> DEFINE p == job[k].plan
    <3>1. PlanFits(k) /\ p \in Made
      BY <2>1 DEF IInv, AppliesFit, PlanFits
    <3>2. /\ job'[k].plan = p /\ job'[k].candidate = job[k].candidate
          /\ job'[p].op = job[p].op /\ job'[p].status = job[p].status
          /\ job'[p].candidate = job[p].candidate /\ job'[p].class = job[p].class
      BY <1>4, <3>1 DEF SameButRevoked
    <3>3. job[p].candidate # 0 => candidate'[job[p].candidate] = candidate[job[p].candidate]
      <4>1. job[p].candidate \in 0 .. Newest
        BY <1>2, <3>1, RowFacts DEF IInv, CandidatesExist
      <4>2. QED
        BY <1>2, <4>1
    <3>4. ApprovalOK(p) => ApprovalOK(p)'
      BY <1>3, <3>2, <3>3 DEF ApprovalOK, ApprovalRequired
    <3>5. QED
      BY <1>2, <3>1, <3>2, <3>4 DEF PlanFits, ApprovalOK, Status
  <2>2. QED
    BY <1>2, <1>4, <2>1 DEF AppliesFit, SameButRevoked
<1>14. Ordered'
  BY <1>2, <1>4 DEF IInv, Ordered, SameButRevoked
<1>15. Latest'
  BY <1>2, <1>3, <1>4, <1>5 DEF IInv, Latest, SameButRevoked
<1>16. StateIsApplied'
  BY <1>2, <1>3, <1>4 DEF IInv, StateIsApplied, SameButRevoked
<1>17. WithdrawnIsRestored'
  <2>1. CASE c.kind # "withdrawal"
    BY <1>2, <2>1, RestoredParts
  <2>2. CASE c.kind = "withdrawal"
    <3>1. Pending /\ c.version = Snapshot(AppliedCandidate).version
                  /\ c.platform = Snapshot(AppliedCandidate).platform
      BY <1>1, <2>2 DEF Chosen
    <3>2. written = applied
      BY <1>2, <3>1 DEF IInv, StateIsApplied, Pending
    <3>3. CloudCandidate = AppliedCandidate /\ CloudCandidate' = CloudCandidate
      BY <1>2, <1>3, <1>4, <3>2 DEF CloudCandidate, AppliedCandidate, SameButRevoked
    <3>4. PICK n \in 0 .. Newest : n = CloudCandidate
      BY CloudCandidateExists DEF IInv
    <3>5. /\ Snapshot(n)'.version = Snapshot(n).version
          /\ Snapshot(n)'.platform = Snapshot(n).platform
      BY <1>2, <1>3, SnapshotStays
    <3>6. Restores(CloudCandidate)'
      BY <1>2, <3>1, <3>3, <3>4, <3>5 DEF Restores
    <3>7. QED
      BY <3>6, RestoredParts
  <2>3. QED
    BY <2>1, <2>2
<1>18. QED
  BY <1>2, <1>7, <1>8, <1>9, <1>10, <1>11, <1>12, <1>13, <1>14, <1>15, <1>16, <1>17 DEF IInv

---------------------------------------------------------------------------
(* So do the steps beside the order's jobs.                                *)

\* What they have in common.
LEMMA AsideFrame ==
  ASSUME TypeOK, Aside
  PROVE  /\ UNCHANGED <<candidate, job, made, worker, applied, written>>
         /\ approved \subseteq approved' /\ aged' \in {aged, aged + 1}
         /\ order' = order \/ (Fence /\ order = "none" /\ order' # "none")
         /\ \A p \in Paths : edge[p] # "none" => edge'[p] # "none"
         /\ template'[1] = template[1]
<1>1. /\ UNCHANGED <<candidate, job, made, worker, applied, written>>
      /\ approved \subseteq approved' /\ aged' \in {aged, aged + 1}
      /\ order' = order \/ (Fence /\ order = "none" /\ order' # "none")
  BY DEF Aside, Place, Approve, Expire, Publish, PublishVersion, PublishContract, PublishEdge,
         Platform, SavePlan, Acknowledge, AdmitApply, StartApply, FinishApply, LoseApply, Policies
<1>2. CASE \E c \in 1 .. Len(contract) : PublishVersion(c)
  <2>1. PICK c \in 1 .. Len(contract) : PublishVersion(c)
    BY <1>2
  <2>2. template'[1] = template[1]
    BY <2>1 DEF PublishVersion, TypeOK
  <2>3. QED
    BY <1>1, <2>1, <2>2 DEF PublishVersion
<1>3. CASE \E p \in Paths, policy \in Policies : PublishEdge(p, policy)
  <2>1. PICK p \in Paths, policy \in Policies : PublishEdge(p, policy)
    BY <1>3
  <2>2. \A q \in Paths : edge'[q] = IF q = p THEN policy ELSE edge[q]
    BY <2>1 DEF PublishEdge, TypeOK
  <2>3. QED
    BY <1>1, <2>1, <2>2 DEF PublishEdge, Policies
<1>4. CASE UNCHANGED <<edge, template>>
  BY <1>1, <1>4
<1>5. QED
  BY <1>2, <1>3, <1>4
     DEF Aside, Place, Approve, Expire, Publish, PublishContract,
         Platform, SavePlan, Acknowledge, AdmitApply, StartApply, FinishApply, LoseApply

LEMMA AgedBlocksLess ==
  ASSUME TypeOK, UNCHANGED <<job, made>>, aged' \in {aged, aged + 1}, ~Blockers
  PROVE  ~Blockers'
<1>1. Made' = Made /\ aged \in Nat
  BY MadeFacts DEF Made, TypeOK
<1>2. \A k \in Made : Expired(k) => Expired(k)'
  BY <1>1, MadeFacts DEF Expired
<1>3. \A k \in Made : Blocking(k)' => Blocking(k)
  BY <1>1, <1>2 DEF Blocking, Status, UnexpiredTicket, Settled
<1>4. QED
  BY <1>1, <1>3 DEF Blockers

\* An Apply of the platform is admitted only when the order is at rest, and reviewed.
LEMMA AsideKeepsRest ==
  ASSUME IInv, Aside
  PROVE  AtRest' /\ Reviewed'
<1>1. TypeOK /\ Newest' = Newest
  BY AsideFrame DEF IInv, Newest
<1>2. Blockers \in BOOLEAN /\ Blockers' \in BOOLEAN
  BY DEF Blockers
<1>3. ~Blockers => ~Blockers'
  BY <1>1, AsideFrame, AgedBlocksLess
<1>4. ~Blockers /\ order' = order => Impact' = Impact
  BY <1>1, <1>2, <1>3, AsideFrame DEF Impact
<1>5. CASE platform'.status = "none"
  BY <1>5 DEF AtRest, Reviewed
<1>6. CASE AdmitApply
  <2>1. ~Blockers
    <3>1. CASE order = "none"
      BY <1>1, <3>1, MadeFacts DEF IInv, NoJobs, Blockers, Made
    <3>2. CASE order # "none"
      BY <1>6, <3>2 DEF AdmitApply, Impact
    <3>3. QED
      BY <3>1, <3>2
  <2>2. order' = order /\ plan' = plan /\ acks' = acks
    BY <1>6 DEF AdmitApply
  <2>3. platform'.guard = Impact
    BY <1>1, <1>6 DEF AdmitApply, TypeOK
  <2>4. AtRest'
    BY <1>3, <1>4, <2>1, <2>2, <2>3 DEF AtRest
  <2>5. Reviewed'
    BY <1>4, <1>6, <2>1, <2>2 DEF Reviewed, AdmitApply
  <2>6. QED
    BY <2>4, <2>5
<1>7. CASE /\ platform.status # "none" /\ platform'.guard = platform.guard
           /\ order' = order /\ plan' = plan /\ acks \subseteq acks'
  BY <1>3, <1>4, <1>7 DEF IInv, AtRest, Reviewed
<1>8. QED
  <2>1. CASE ~AdmitApply /\ platform.status # "none" /\ platform'.status # "none"
    <3>1. StartApply \/ LoseApply => platform'.guard = platform.guard
      BY <1>1 DEF StartApply, LoseApply, TypeOK
    <3>2. ~FinishApply
      BY <1>1, <2>1 DEF FinishApply, TypeOK
    <3>3. QED
      BY <1>7, <2>1, <3>1, <3>2
         DEF Aside, Place, Approve, Expire, Publish, PublishVersion, PublishContract, PublishEdge,
             Platform, SavePlan, Acknowledge, StartApply, LoseApply, Fence
  <2>2. CASE ~AdmitApply /\ platform.status = "none"
    <3>1. ~StartApply /\ ~LoseApply /\ ~FinishApply
      BY <2>2 DEF StartApply, LoseApply, FinishApply
    <3>2. platform' = platform
      BY <2>2, <3>1
         DEF Aside, Place, Approve, Expire, Publish, PublishVersion, PublishContract, PublishEdge,
             Platform, SavePlan, Acknowledge
    <3>3. QED
      BY <1>5, <2>2, <3>2
  <2>3. QED
    BY <1>5, <1>6, <2>1, <2>2

LEMMA AsideKeeps ==
  ASSUME IInv, Aside
  PROVE  IInv'
<1> USE MadeFacts
<1>1. /\ TypeOK /\ TypeOK' /\ Made' = Made /\ Newest' = Newest /\ Jobs' = Jobs
      /\ UNCHANGED <<candidate, job, made, worker, applied, written>>
  BY AsideTypes, AsideFrame DEF IInv, Made, Newest, Jobs
<1>2. NoJobs' /\ WorkersAreMade'
  BY <1>1, AsideFrame DEF IInv, NoJobs, WorkersAreMade
<1>3. ClearedWait' /\ LiveIsBarred' /\ LiveIsBound' /\ WorkingApplies' /\ OneBars'
  BY <1>1 DEF IInv, ClearedWait, LiveIsBarred, LiveIsBound, WorkingApplies, OneBars, BindingOK,
              Bars, Status
<1>4. CandidatesExist' /\ Ordered' /\ Latest' /\ StateIsApplied'
  BY <1>1 DEF IInv, CandidatesExist, Ordered, Latest, StateIsApplied, Bars, Status
<1>5. PathsPublished'
  BY <1>1, AsideFrame DEF IInv, PathsPublished
<1>6. AppliesFit'
  BY <1>1, AsideFrame DEF IInv, AppliesFit, PlanFits, ApprovalOK, ApprovalRequired, Status
<1>7. AtRest' /\ Reviewed'
  BY AsideKeepsRest
<1>8. WithdrawnIsRestored'
  <2>1. CloudCandidate' = CloudCandidate
    BY <1>1 DEF CloudCandidate
  <2>2. PICK n \in 0 .. Newest : n = CloudCandidate
    BY CloudCandidateExists DEF IInv
  <2>3. /\ Snapshot(n)'.version = Snapshot(n).version
        /\ Snapshot(n)'.platform = Snapshot(n).platform
    BY <1>1, AsideFrame, SnapshotStays
  <2>4. Restores(CloudCandidate)' <=> Restores(CloudCandidate)
    BY <1>1, <2>1, <2>2, <2>3 DEF Restores
  <2>5. QED
    BY <1>1, <2>4, RestoredParts DEF IInv
<1>9. QED
  BY <1>1, <1>2, <1>3, <1>4, <1>5, <1>6, <1>7, <1>8 DEF IInv

---------------------------------------------------------------------------
(* The theorems.                                                           *)

LEMMA Initially == Init => IInv
<1> SUFFICES ASSUME Init PROVE IInv
  OBVIOUS
<1> USE BoundsAreNumbers
<1>1. Made = {} /\ Newest = 0 /\ 1 .. Newest = {}
  BY DEF Init, Made, Newest
<1>2. OrderTypes
  <2>1. contract = <<1>> /\ template = <<1>> /\ candidate = <<>> /\ platform.version = 1
    BY DEF Init
  <2>2. contract \in Seq(1 .. platform.version) /\ Len(contract) = 1
    BY <2>1
  <2>3. template \in Seq(1 .. Len(contract)) /\ Len(template) = 1
    BY <2>1, <2>2
  <2>4. candidate \in Seq(Candidates) /\ Newest <= MaxCandidates
    BY <1>1, <2>1
  <2>5. edge \in [Paths -> {"none"} \cup Policies]
    BY DEF Init
  <2>6. QED
    BY <2>2, <2>3, <2>4, <2>5 DEF Init, OrderTypes
<1>3. JobTypes
  <2>1. job = [j \in Jobs |-> NoJob] /\ NoJob \notin Row
    BY DEF Init, NoJob, Row
  <2>2. QED
    BY <1>1, <2>1 DEF Init, JobTypes, Workers
<1>4. PlatformTypes
  BY DEF Init, PlatformTypes, Impacts
<1>5. TypeOK
  BY <1>2, <1>3, <1>4, Parts
<1>6. NoJobs /\ WorkersAreMade /\ ClearedWait /\ PathsPublished
  BY <1>1 DEF Init, NoJobs, WorkersAreMade, ClearedWait, PathsPublished
<1>7. LiveIsBarred /\ LiveIsBound /\ WorkingApplies /\ OneBars
  BY <1>1 DEF LiveIsBarred, LiveIsBound, WorkingApplies, OneBars
<1>8. AtRest /\ Reviewed
  BY DEF Init, AtRest, Reviewed
<1>9. CandidatesExist /\ AppliesFit /\ Ordered /\ Latest /\ StateIsApplied
  BY <1>1 DEF Init, CandidatesExist, AppliesFit, Ordered, Latest, StateIsApplied
<1>10. WithdrawnIsRestored
  BY <1>1 DEF WithdrawnIsRestored
<1>11. QED
  BY <1>5, <1>6, <1>7, <1>8, <1>9, <1>10 DEF IInv

LEMMA Inductive == IInv /\ [Next]_vars => IInv'
<1> SUFFICES ASSUME IInv, [Next]_vars PROVE IInv'
  OBVIOUS
<1>1. CASE Next
  <2>1. CASE Aside
    BY <2>1, AsideKeeps
  <2>2. CASE \E j \in Made : Work(j) \/ RevokeGrant(j)
    BY <2>2, WorkKeeps
  <2>3. CASE PreparePlan \/ \E p \in Made : PrepareApply(p)
    BY <2>3, PrepareKeeps
  <2>4. CASE Upgrade
    BY <2>4, UpgradeKeeps
  <2>5. QED
    BY <1>1, <2>1, <2>2, <2>3, <2>4, Steps
<1>2. CASE UNCHANGED vars
  <2>1. /\ Made' = Made /\ Newest' = Newest /\ Jobs' = Jobs
        /\ UNCHANGED <<order, candidate, edge, template, contract, job, made, aged, worker,
                       approved, applied, written, platform, plan, acks>>
    BY <1>2 DEF vars, Made, Newest, Jobs
  <2>2. TypeOK'
    <3>1. OrderTypes' /\ JobTypes' /\ PlatformTypes'
      BY <2>1, Parts DEF IInv, OrderTypes, JobTypes, PlatformTypes
    <3>2. QED
      BY <3>1, Parts
  <2>3. NoJobs' /\ WorkersAreMade' /\ ClearedWait' /\ PathsPublished'
    BY <2>1 DEF IInv, NoJobs, WorkersAreMade, ClearedWait, PathsPublished, Status
  <2>4. LiveIsBarred' /\ LiveIsBound' /\ WorkingApplies' /\ OneBars'
    BY <2>1 DEF IInv, LiveIsBarred, LiveIsBound, WorkingApplies, OneBars, BindingOK, Bars, Status
  <2>5. Blockers' <=> Blockers
    BY <2>1 DEF Blockers, Blocking, Status, UnexpiredTicket, Expired, Settled
  <2>6. AtRest' /\ Reviewed'
    <3>1. Blockers \in BOOLEAN /\ Blockers' \in BOOLEAN
      BY DEF Blockers
    <3>2. Impact' = Impact
      BY <2>1, <2>5, <3>1 DEF Impact
    <3>3. QED
      BY <2>1, <2>5, <3>2 DEF IInv, AtRest, Reviewed
  <2>7. CandidatesExist' /\ AppliesFit' /\ Ordered' /\ Latest' /\ StateIsApplied'
    BY <2>1 DEF IInv, CandidatesExist, AppliesFit, PlanFits, ApprovalOK, ApprovalRequired,
                Ordered, Latest, StateIsApplied, Bars, Status
  <2>8. WithdrawnIsRestored'
    BY <2>1 DEF IInv, WithdrawnIsRestored, Snapshot
  <2>9. QED
    BY <2>2, <2>3, <2>4, <2>6, <2>7, <2>8 DEF IInv
<1>3. QED
  BY <1>1, <1>2

\* The invariant holds in every reachable state.
THEOREM Invariant == Spec => []IInv
<1>1. QED
  BY Initially, Inductive, PTL DEF Spec

\* Every variable keeps its type, and what refers to a job, a version of the template or a
\* platform contract refers to one that exists.
THEOREM TypeCorrect == Spec => []TypeOK
<1>1. IInv => TypeOK
  BY DEF IInv
<1>2. QED
  BY <1>1, Invariant, PTL

\* Inputs and credential reach a worker of the newest candidate only: a candidate can not be
\* selected while a worker lives, because a live worker bars its order.
THEOREM BoundToNewestCorrect == Spec => []BoundToNewest
<1>1. IInv => BoundToNewest
  BY DEF IInv, LiveIsBound, BoundToNewest, Live
<1>2. QED
  BY <1>1, Invariant, PTL

\* A withdrawal selects what State is from: no Apply was attempted since the one that
\* succeeded last, and Applies succeed in the order of their Plans.
THEOREM WithdrawnIsRestoredCorrect == Spec => []WithdrawnIsRestored
<1>1. IInv => WithdrawnIsRestored
  BY DEF IInv
<1>2. QED
  BY <1>1, Invariant, PTL

\* State of the order was written only for Plans of the same candidate that were approved
\* where its policy asks for it.
THEOREM WritesApprovedCorrect == Spec => []WritesApproved
<1>1. IInv => WritesApproved
  <2> SUFFICES ASSUME IInv, written # 0 PROVE WritesApproved
    BY DEF WritesApproved
  <2>1. written \in Made /\ job[written].op = "apply"
    BY MadeFacts DEF IInv, StateIsApplied
  <2>2. PlanFits(written)
    BY <2>1 DEF IInv, AppliesFit
  <2>3. QED
    BY <2>2 DEF PlanFits, ApprovalOK, WritesApproved
<1>2. QED
  BY <1>1, Invariant, PTL

\* The order's workers are gone before an Apply of the platform is admitted, and none is
\* started until it has ended: the platform admits only an order that nothing blocks, and
\* what could start a worker is fenced.
THEOREM PlatformAloneCorrect == Spec => []PlatformAlone
<1>1. IInv => PlatformAlone
  BY LiveBlocks DEF IInv, AtRest, PlatformAlone
<1>2. QED
  BY <1>1, Invariant, PTL

\* What was acknowledged when an Apply of the platform was admitted is so until it ends.
THEOREM ImpactReviewedCorrect == Spec => []ImpactReviewed
<1>1. IInv => ImpactReviewed
  BY DEF IInv, AtRest, Reviewed, ImpactReviewed, ImpactHeld
<1>2. QED
  BY <1>1, Invariant, PTL

=============================================================================
