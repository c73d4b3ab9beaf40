--------------------------- MODULE StateRecovery ---------------------------
(***************************************************************************)
(* Guided recovery of the State of one lost Apply: state-recovery.ts, its  *)
(* tables and functions (070, 071, 072) and the recovery runner            *)
(* (state-recovery-main.ts, state-recovery-publish.ts).  A reviewer asks   *)
(* for an assessment, a runner without S3 credentials prepares a candidate *)
(* State, the reviewer approves it, and a second runner publishes it step  *)
(* by step, each step behind a durable intent.                             *)
(*                                                                         *)
(* One action is a set of looks at the old runner, State, lock and cloud   *)
(* outside a transaction; or a transaction; or a command of a runner.  The *)
(* looks of one request are one step: the old runner never starts again,   *)
(* and every fact is compared with what was reviewed on its own.           *)
(*                                                                         *)
(* Abstractions.  A State is who wrote it and its serial.  The cloud is a  *)
(* lost key, which the candidate no longer names, and an edition of the    *)
(* rest.  A proposal imports something, so that its candidate differs from *)
(* the original.  The clearance by hand is in ApplicationJobs.             *)
(***************************************************************************)
EXTENDS Naturals, FiniteSets

CONSTANTS
    MaxRecoveries,  \* proposals made for the job
    Reviewers,      \* requests of reviewers that may be under way at a time
    MaxSerial,      \* bound on the serial of State
    MaxEdition      \* bound on the changes of the cloud

ASSUME BoundsAssumption == MaxRecoveries \in Nat /\ MaxSerial \in Nat /\ MaxEdition \in Nat

VARIABLES
    phase,     \* lzc.application_state_recoveries
    aged,      \* proposals whose expires_at has passed
    review,    \* the private payload: what was reviewed
    task,      \* lzc.application_state_recovery_tasks
    intent,    \* lzc.application_state_recovery_intents
    request,   \* the request of a reviewer between its looks and its last transaction
    call,      \* requests of recovery runners between their looks and their transaction
    worker,    \* the recovery runners
    old,       \* the runner of the lost Apply
    s3,        \* State and its lockfile
    cloud,     \* what the inventory lists
    cleared,   \* the clearance of the lost Apply: by hand, or the proposal that led to it
    later,     \* whether a later job of the order exists
    pushed     \* history: proposals whose candidate was written

db == <<phase, aged, review, task, intent, cleared, later>>
vars == <<db, request, call, worker, old, s3, cloud, pushed>>

Recoveries == 1 .. MaxRecoveries
Modes == {"prepare", "commit"}
Tasks == Recoveries \X Modes
Steps == {"revoke", "unlock", "publish"}
Phases == {"none", "requested", "assessing", "prepared", "committing", "committed", "blocked",
           "reconciliation-required"}
Open == {"requested", "assessing", "prepared", "committing", "reconciliation-required"}
Unsettled == {"assessing", "committing", "reconciliation-required"}   \* canInspect

Writers == ({"start", "old", "user"} \X {0}) \cup ({"push"} \X Recoveries)
State == [by : Writers, serial : Nat]
Locks == {"free", "old", "user", "push"}
Cloud == [key : BOOLEAN, edition : Nat]
Review == [original : State, lock : {"free", "old"}, inventory : Cloud]
NoReview == [lock |-> "none"]
Task == [made : BOOLEAN, app : BOOLEAN, released : BOOLEAN, finished : BOOLEAN]
Request == [op : {"begin", "inspect"}, task : Tasks, pc : {"looked", "begun", "bound"},
            seen : Review \cup {NoReview}, released : BOOLEAN, to : Phases]
NoRequest == [op |-> "none"]
Call == [task : Tasks, kind : {"input", "revoking", "result"} \cup Steps, to : Phases]
WorkerStates == {"none", "started", "waiting", "ready", "revoked", "unlocking", "unlocked", "pushing",
                 "locked", "written", "done", "failed", "ended"}

Init ==
    /\ phase = [n \in Recoveries |-> "none"]
    /\ aged = {}
    /\ review = [n \in Recoveries |-> NoReview]
    /\ task = [t \in Tasks |-> [made |-> FALSE, app |-> FALSE, released |-> FALSE, finished |-> FALSE]]
    /\ intent = [n \in Recoveries |-> {}]
    /\ request = [a \in Reviewers |-> NoRequest]
    /\ call = {}
    /\ worker = [t \in Tasks |-> "none"]
    /\ old = "running"
    /\ s3 = [state |-> [by |-> <<"start", 0>>, serial |-> 0], lock |-> "old"]
    /\ cloud = [key |-> TRUE, edition |-> 0]
    /\ cleared = "no"
    /\ later = FALSE
    /\ pushed = {}

----------------------------------------------------------------------------
(* What is compared.                                                       *)

\* application_state_recovery_context: no clearance and no later job; the grant and
\* the ticket of the lost Apply have expired
ContextOK == cleared = "no" /\ ~later

Candidate_outranking(n) == [by |-> <<"push", n>>, serial |-> review[n].original.serial + 2]  \* mutant: the serial of a local import

\* retainRecoveryOutputs: one remote successor, however many imports
Candidate(n) == [by |-> <<"push", n>>, serial |-> review[n].original.serial + 1]

\* normalizeRevokedRecoveryInventory: the reviewed key may be gone
SameCloud(n, allowRevoked) ==
    LET reviewed == review[n].inventory IN
    /\ cloud.edition = reviewed.edition
    /\ \/ cloud.key = reviewed.key
       \/ allowRevoked /\ ~cloud.key

\* revalidate: the old runner has stopped, State and lock are the reviewed ones
Revalidated(n, unlocked, allowRevoked) ==
    /\ ContextOK /\ old = "stopped"
    /\ s3.state = review[n].original
    /\ s3.lock = IF unlocked THEN "free" ELSE review[n].lock
    /\ SameCloud(n, allowRevoked)

\* recoveryRevocationsAbsent
RevocationsAbsent(n) == review[n].inventory.key => ~cloud.key

Published_requested(n) == ContextOK /\ old = "stopped" /\ s3.lock = "free"  \* mutant: takes the runner's word

\* published: State is the candidate, nothing holds it, and the keys are gone
Published(n) ==
    /\ ContextOK /\ old = "stopped"
    /\ SameCloud(n, TRUE) /\ RevocationsAbsent(n)
    /\ s3.state.by = <<"push", n>> /\ s3.state.serial >= Candidate(n).serial
    /\ s3.lock = "free"

StateIntent_published(n) == "publish" \in intent[n]  \* mutant: an unlock counts for nothing

\* application_state_recovery_has_state_intent
StateIntent(n) == intent[n] \cap {"unlock", "publish"} # {}

----------------------------------------------------------------------------
(* Proposals.                                                              *)

\* request_application_state_recovery: expired proposals that ran nothing give way
RequestRecovery(n) ==
    /\ phase[n] = "none" /\ \A m \in 1 .. n - 1 : phase[m] # "none"
    /\ ContextOK
    /\ \A m \in Recoveries : phase[m] \in Open => phase[m] \in {"requested", "prepared"} /\ m \in aged
    /\ phase' = [m \in Recoveries |->
                    IF m = n THEN "requested" ELSE IF phase[m] \in Open THEN "blocked" ELSE phase[m]]
    /\ UNCHANGED <<aged, review, task, intent, request, call, worker, old, s3, cloud, cleared, later, pushed>>

Expire(n) ==
    /\ phase[n] # "none" /\ n \notin aged
    /\ aged' = aged \cup {n}
    /\ UNCHANGED <<phase, review, task, intent, request, call, worker, old, s3, cloud, cleared, later, pushed>>

Looked(a, op, t, seen, released, to) ==
    /\ request[a] = NoRequest
    /\ request' = [request EXCEPT ![a] =
                      [op |-> op, task |-> t, pc |-> "looked", seen |-> seen, released |-> released, to |-> to]]
    /\ UNCHANGED <<db, call, worker, old, s3, cloud, pushed>>

\* assess: only a lock of the lost Apply can be reviewed
LookToAssess(a, n) ==
    /\ phase[n] = "requested" /\ n \notin aged /\ ContextOK
    /\ old = "stopped" /\ s3.lock \in {"free", "old"}
    /\ Looked(a, "begin", <<n, "prepare">>, [original |-> s3.state, lock |-> s3.lock, inventory |-> cloud],
              FALSE, "assessing")

\* block_application_state_recovery_assessment: something can not be recovered
BlockAssessment(n) ==
    /\ phase[n] = "requested" /\ ContextOK
    /\ phase' = [phase EXCEPT ![n] = "blocked"]
    /\ UNCHANGED <<aged, review, task, intent, request, call, worker, old, s3, cloud, cleared, later, pushed>>

LookToCommit(a, n) ==
    /\ phase[n] = "prepared" /\ n \notin aged
    /\ Revalidated(n, FALSE, FALSE)
    /\ Looked(a, "begin", <<n, "commit">>, review[n], FALSE, "committing")

\* begin_application_state_recovery_task
BeginTask(a) ==
    LET q == request[a]  n == q.task[1] IN
    /\ q # NoRequest /\ q.op = "begin" /\ q.pc = "looked"
    /\ ContextOK /\ n \notin aged
    /\ phase[n] = IF q.task[2] = "prepare" THEN "requested" ELSE "prepared"
    /\ phase' = [phase EXCEPT ![n] = q.to]
    /\ review' = [review EXCEPT ![n] = q.seen]
    /\ task' = [task EXCEPT ![q.task].made = TRUE]
    /\ request' = [request EXCEPT ![a].pc = "begun"]
    /\ UNCHANGED <<aged, intent, call, worker, old, s3, cloud, cleared, later, pushed>>

\* bind_application_state_recovery_task, called back by startRecovery
BindTask(a) ==
    LET q == request[a] IN
    /\ q # NoRequest /\ q.pc = "begun"
    /\ ContextOK /\ q.task[1] \notin aged /\ ~task[q.task].finished /\ ~task[q.task].app
    /\ task' = [task EXCEPT ![q.task].app = TRUE]
    /\ request' = [request EXCEPT ![a].pc = "bound"]
    /\ UNCHANGED <<phase, aged, review, intent, call, worker, old, s3, cloud, cleared, later, pushed>>

\* the answer may be lost: the start is never repeated
LaunchTask(a) ==
    LET q == request[a] IN
    /\ q # NoRequest /\ q.pc = "bound"
    /\ worker' = [worker EXCEPT ![q.task] = "started"]
    /\ request' = [request EXCEPT ![a] = NoRequest]
    /\ UNCHANGED <<db, call, old, s3, cloud, pushed>>

\* a refusal, a failed look or start, or a restart of the API
GiveUp(a) ==
    /\ request[a] # NoRequest
    /\ request' = [request EXCEPT ![a] = NoRequest]
    /\ UNCHANGED <<db, call, worker, old, s3, cloud, pushed>>

\* isRecoveryStopped, for the app that the task is bound to
RunnerStopped(t) == worker[t] \in {"none", "ended"}

\* the phase that inspect() concludes from its looks
Concluded(n, mode, released) ==
    IF mode = "commit" /\ released /\ Published(n) THEN "committed"
    ELSE IF \/ mode = "prepare" \/ ~released
            \/ ~StateIntent(n) /\ Revalidated(n, FALSE, TRUE)
      THEN "blocked"
    ELSE "reconciliation-required"

LastTask(n) == <<n, IF task[<<n, "commit">>].made THEN "commit" ELSE "prepare">>

LookToInspect(a, n) ==
    LET t == LastTask(n) IN
    /\ phase[n] \in Unsettled /\ ContextOK
    /\ task[t].released => RunnerStopped(t)
    /\ Looked(a, "inspect", t, NoReview, task[t].released, Concluded(n, t[2], task[t].released))

Recorded(n, t, to) ==
    /\ phase' = [phase EXCEPT ![n] = to]
    /\ task' = [task EXCEPT ![t].finished = TRUE]
    /\ cleared' = IF to = "committed" THEN "guided" ELSE cleared

\* inspect_application_state_recovery_task, with the clearance in the same transaction
InspectTask(a) ==
    LET q == request[a]  t == q.task  n == t[1] IN
    /\ q # NoRequest /\ q.op = "inspect" /\ ContextOK
    /\ q.released = task[t].released
    /\ \/ t[2] = "prepare" /\ phase[n] = "assessing" /\ ~task[t].finished /\ q.to = "blocked"
       \/ /\ t[2] = "commit" /\ phase[n] \in {"committing", "reconciliation-required"}
          /\ \/ q.to = "committed" /\ "publish" \in intent[n]
             \/ q.to = "blocked" /\ (~task[t].released \/ ~StateIntent(n))
             \/ q.to = "reconciliation-required" /\ phase[n] = "committing"
    /\ Recorded(n, t, q.to)
    /\ request' = [request EXCEPT ![a] = NoRequest]
    /\ UNCHANGED <<aged, review, intent, call, worker, old, s3, cloud, later, pushed>>

----------------------------------------------------------------------------
(* The recovery runner and the requests it makes.                          *)

\* resolve_application_state_recovery_task
TicketOpen(t) ==
    /\ t[1] \notin aged /\ ~task[t].finished
    /\ phase[t[1]] = IF t[2] = "prepare" THEN "assessing" ELSE "committing"

\* The worker sends a request; the looks of the API have passed.
Asks(t, pc, kind, to, then) ==
    /\ worker[t] = pc /\ TicketOpen(t)
    /\ call' = call \cup {[task |-> t, kind |-> kind, to |-> to]}
    /\ worker' = [worker EXCEPT ![t] = then]
    /\ UNCHANGED <<db, request, old, s3, cloud, pushed>>

AskInput(t) ==
    /\ Asks(t, "started", "input", "none", "waiting")
    /\ Revalidated(t[1], FALSE, FALSE)

\* the answer of a request reaches the worker that still waits for it
Answered(c, then) ==
    /\ call' = call \ {c}
    /\ worker' = IF worker[c.task] = "waiting" THEN [worker EXCEPT ![c.task] = then] ELSE worker

\* release_application_state_recovery_input
ReleaseInput(c) ==
    LET row == task[c.task] IN
    /\ c.kind = "input"
    /\ ContextOK /\ row.app /\ ~row.released /\ ~row.finished /\ c.task[1] \notin aged
    /\ task' = [task EXCEPT ![c.task].released = TRUE]
    /\ Answered(c, IF c.task[2] = "commit" /\ ~review[c.task[1]].inventory.key THEN "revoked" ELSE "ready")
    /\ UNCHANGED <<phase, aged, review, intent, request, old, s3, cloud, cleared, later, pushed>>

FenceLooks_accepted(n, step) == Revalidated(n, step = "publish", TRUE)  \* mutant: an accepted DELETE is enough

\* fence(): unlock and publish need the keys to be gone
FenceLooks(n, step) ==
    /\ Revalidated(n, step = "publish", TRUE)
    /\ step # "revoke" => RevocationsAbsent(n)

AskFence(t) ==
    \E x \in {<<"ready", "revoke">>, <<"revoked", "unlock">>, <<"unlocked", "publish">>} :
        /\ t[2] = "commit"
        /\ Asks(t, x[1], x[2], "none", "waiting")
        /\ FenceLooks(t[1], x[2])

\* fence_application_state_recovery
FenceOpen(t, step) ==
    /\ ContextOK /\ t[1] \notin aged
    /\ task[t].released /\ ~task[t].finished
    /\ step = "revoke" => ~StateIntent(t[1])
    /\ step = "publish" => "unlock" \in intent[t[1]]
    /\ step \notin intent[t[1]]

Fence(c) ==
    /\ c.kind \in Steps /\ FenceOpen(c.task, c.kind)
    /\ intent' = [intent EXCEPT ![c.task[1]] = @ \cup {c.kind}]
    /\ IF c.kind = "revoke"
         THEN call' = (call \ {c}) \cup {[c EXCEPT !.kind = "revoking"]} /\ UNCHANGED worker
         ELSE Answered(c, IF c.kind = "unlock" THEN "unlocking" ELSE "pushing")
    /\ UNCHANGED <<phase, aged, review, task, request, old, s3, cloud, cleared, later, pushed>>

\* StackitRecoveryCloud.revoke: accepted is not yet gone
RevokeKey(c) ==
    /\ c.kind = "revoking"
    /\ \E key \in {FALSE, cloud.key} : cloud' = [cloud EXCEPT !.key = key]
    /\ Answered(c, "revoked")
    /\ UNCHANGED <<db, request, old, s3, pushed>>

\* a request is refused or the API stops in the middle of it
CallFails(c) ==
    /\ Answered(c, "failed")
    /\ UNCHANGED <<db, request, old, s3, cloud, pushed>>

\* result() of a prepared candidate
ReportPrepared(t) ==
    /\ t[2] = "prepare" /\ Asks(t, "ready", "result", "prepared", "ended")
    /\ Revalidated(t[1], FALSE, FALSE)

\* result() of anything else; whether State was published is looked up
ReportEnd(t) ==
    LET n == t[1] IN
    \E pc \in {"done", "failed"} :
        Asks(t, pc, "result",
             IF t[2] = "prepare" \/ ~task[t].released THEN "blocked"
             ELSE IF Published(n) THEN "committed" ELSE "reconciliation-required",
             "ended")

\* finish_application_state_recovery_task, with the clearance in the same transaction
FinishTask(c) ==
    LET t == c.task  n == t[1] IN
    /\ c.kind = "result"
    /\ ContextOK /\ ~task[t].finished /\ n \notin aged
    /\ t[2] = "commit" /\ c.to = "blocked" => intent[n] = {}
    /\ c.to = "committed" => "publish" \in intent[n]
    /\ Recorded(n, t, c.to)
    /\ call' = call \ {c}
    /\ UNCHANGED <<aged, review, intent, request, worker, old, s3, cloud, later, pushed>>

ForceUnlock(t) ==
    /\ worker[t] = "unlocking"
    /\ IF review[t[1]].lock = "free" THEN worker' = [worker EXCEPT ![t] = "unlocked"] /\ UNCHANGED s3
       ELSE /\ s3.lock = "old"
            /\ s3' = [s3 EXCEPT !.lock = "free"]
            /\ worker' = [worker EXCEPT ![t] = "unlocked"]
    /\ UNCHANGED <<db, request, call, old, cloud, pushed>>

\* tofu state push: its own lock first, then State is read again
PushLocks(t) ==
    /\ worker[t] = "pushing" /\ s3.lock = "free"
    /\ s3' = [s3 EXCEPT !.lock = "push"]
    /\ worker' = [worker EXCEPT ![t] = "locked"]
    /\ UNCHANGED <<db, request, call, old, cloud, pushed>>

PushWrites(t) ==
    LET n == t[1] IN
    /\ worker[t] = "locked"
    /\ s3.state.serial < Candidate(n).serial
    /\ s3' = [s3 EXCEPT !.state = Candidate(n)]
    /\ pushed' = pushed \cup {n}
    /\ worker' = [worker EXCEPT ![t] = "written"]
    /\ UNCHANGED <<db, request, call, old, cloud>>

PushEnds(t) ==
    /\ \/ worker[t] = "written" /\ worker' = [worker EXCEPT ![t] = "done"]
       \/ worker[t] = "locked" /\ s3.state.serial >= Candidate(t[1]).serial
          /\ worker' = [worker EXCEPT ![t] = "failed"]
    /\ s3' = [s3 EXCEPT !.lock = "free"]
    /\ UNCHANGED <<db, request, call, old, cloud, pushed>>

\* a command fails or is cut off, a request is refused or not answered in time; or
\* the container goes away
WorkerFails(t) ==
    /\ worker[t] \notin {"none", "failed", "ended"}
    /\ worker' = [worker EXCEPT ![t] = "failed"]
    /\ UNCHANGED <<db, request, call, old, s3, cloud, pushed>>

WorkerDies(t) ==
    /\ worker[t] \notin {"none", "ended"}
    /\ worker' = [worker EXCEPT ![t] = "ended"]
    /\ UNCHANGED <<db, request, call, old, s3, cloud, pushed>>

----------------------------------------------------------------------------
(* The others: the lost Apply, the customer, later jobs.                   *)

OldWrites ==
    /\ old = "running" /\ s3.lock = "old" /\ s3.state.serial < MaxSerial
    /\ s3' = [s3 EXCEPT !.state = [by |-> <<"old", 0>>, serial |-> @.serial + 1]]
    /\ UNCHANGED <<db, request, call, worker, old, cloud, pushed>>

OldEnds ==
    /\ old = "running" /\ old' = "stopped"
    /\ \E lock \in {s3.lock, "free"} : s3' = [s3 EXCEPT !.lock = lock]
    /\ UNCHANGED <<db, request, call, worker, cloud, pushed>>

\* The customer's own OpenTofu honours the lock.
UserLocks ==
    /\ s3.lock = "free" /\ s3.state.serial < MaxSerial
    /\ s3' = [s3 EXCEPT !.lock = "user"]
    /\ UNCHANGED <<db, request, call, worker, old, cloud, pushed>>

UserEnds ==
    /\ s3.lock = "user"
    /\ \E state \in {s3.state, [by |-> <<"user", 0>>, serial |-> s3.state.serial + 1]} :
          s3' = [state |-> state, lock |-> "free"]
    /\ UNCHANGED <<db, request, call, worker, old, cloud, pushed>>

\* An orphaned lock is removed by hand.
UserUnlocks ==
    /\ \/ s3.lock = "old" /\ old = "stopped"
       \/ s3.lock = "push" /\ \A t \in Tasks : worker[t] \notin {"locked", "written"}
    /\ s3' = [s3 EXCEPT !.lock = "free"]
    /\ UNCHANGED <<db, request, call, worker, old, cloud, pushed>>

CloudChanges ==
    /\ \/ cloud.edition < MaxEdition /\ cloud' = [cloud EXCEPT !.edition = @ + 1]
       \/ cloud.key /\ cloud' = [cloud EXCEPT !.key = FALSE]
    /\ UNCHANGED <<db, request, call, worker, old, s3, pushed>>

NothingOpen_proposed == \A n \in Recoveries : phase[n] \notin {"requested", "assessing", "prepared"}  \* mutant: the first phases only

NothingOpen == \A n \in Recoveries : phase[n] \notin Open

\* guard_application_state_recovery_job: the order takes no job while a proposal is open;
\* the other conditions of a job and of a clearance are in ApplicationJobs
NewJob ==
    /\ NothingOpen /\ ~later
    /\ later' = TRUE
    /\ UNCHANGED <<phase, aged, review, task, intent, request, call, worker, old, s3, cloud, cleared, pushed>>

\* guard_application_state_recovery_clearance: nor is it cleared by hand
ClearByHand ==
    /\ NothingOpen /\ cleared = "no" /\ old = "stopped"
    /\ cleared' = "hand"
    /\ UNCHANGED <<phase, aged, review, task, intent, request, call, worker, old, s3, cloud, later, pushed>>

----------------------------------------------------------------------------
Propose(n) == RequestRecovery(n) \/ Expire(n) \/ BlockAssessment(n)

Reviewer(a) ==
    \/ \E n \in Recoveries : LookToAssess(a, n) \/ LookToCommit(a, n) \/ LookToInspect(a, n)
    \/ BeginTask(a) \/ BindTask(a) \/ LaunchTask(a) \/ GiveUp(a) \/ InspectTask(a)

Runner(t) ==
    \/ AskInput(t) \/ AskFence(t) \/ ReportPrepared(t) \/ ReportEnd(t)
    \/ ForceUnlock(t) \/ PushLocks(t) \/ PushWrites(t) \/ PushEnds(t)
    \/ WorkerFails(t) \/ WorkerDies(t)

Broker(c) == ReleaseInput(c) \/ Fence(c) \/ RevokeKey(c) \/ FinishTask(c) \/ CallFails(c)

Others ==
    \/ OldWrites \/ OldEnds \/ UserLocks \/ UserEnds \/ UserUnlocks \/ CloudChanges
    \/ NewJob \/ ClearByHand

Next ==
    \/ \E n \in Recoveries : Propose(n)
    \/ \E a \in Reviewers : Reviewer(a)
    \/ \E t \in Tasks : Runner(t)
    \/ \E c \in call : Broker(c)
    \/ Others

Spec == Init /\ [][Next]_vars

----------------------------------------------------------------------------
(* Properties.                                                             *)

TypeOK ==
    /\ phase \in [Recoveries -> Phases] /\ aged \subseteq Recoveries
    /\ review \in [Recoveries -> Review \cup {NoReview}]
    /\ task \in [Tasks -> Task] /\ intent \in [Recoveries -> SUBSET Steps]
    /\ request \in [Reviewers -> Request \cup {NoRequest}] /\ call \subseteq Call
    /\ worker \in [Tasks -> WorkerStates] /\ old \in {"running", "stopped"}
    /\ s3 \in [state : State, lock : Locks] /\ cloud \in Cloud
    /\ cleared \in {"no", "hand", "guided"} /\ later \in BOOLEAN /\ pushed \subseteq Recoveries

\* "an intervening legitimate writer at the same or a higher serial is rejected": what
\* a publication overwrites is the State that was reviewed, although it was looked at
\* many requests before.
PublishesOverReviewed ==
    [][\A n \in pushed' \ pushed : s3.state = review[n].original]_vars

\* A candidate no longer names the lost key, so it is published only when that key is
\* really gone: afterwards nobody would know of it.
KeysGoBeforeState == \A n \in pushed : review[n].inventory.key => ~cloud.key

\* A proposal that is recorded as committed was published, and is the reason why the
\* lost Apply is cleared; an uncertain answer never counts as one.
CommittedIsPublished ==
    /\ \A n \in Recoveries : phase[n] = "committed" => n \in pushed /\ cleared = "guided"
    /\ cleared = "guided" => \E n \in Recoveries : phase[n] = "committed"

\* A proposal that ended without success has not touched State or its lock, and no
\* runner or late request of it ever will.
BlockedUntouched == \A n \in Recoveries :
    phase[n] = "blocked" => n \notin pushed /\ intent[n] \cap {"unlock", "publish"} = {}

\* Once another job of the order exists, or the lost Apply is cleared, no recovery
\* runner is left that may unlock or write.
NoWriteBesideJob ==
    (later \/ cleared # "no") =>
        \A t \in Tasks : worker[t] \notin {"unlocking", "unlocked", "pushing", "locked", "written"}
=============================================================================
