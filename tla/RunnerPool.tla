----------------------------- MODULE RunnerPool -----------------------------
(***************************************************************************)
(* The warm runner pool: the leases of lzc.runner_pool_slots, the API      *)
(* processes that fill, hand out, retire and remove them (runner-pool.ts   *)
(* with the Cloud Foundry driver it calls) and the warm runners that poll  *)
(* for their one assignment (warm-runner.ts).  A job that finds no warm    *)
(* runner gets an app of its own (the cold path of cloud-foundry.ts).      *)
(*                                                                         *)
(* One action is one statement or transaction of PostgreSQL together with  *)
(* the code up to the next one, one request to Cloud Foundry, one request  *)
(* of a runner, or one step of the environment.                            *)
(*                                                                         *)
(* Abstractions.  Timestamps are flags: a lease has expired or not, a      *)
(* ready runner was heard of lately or not.  Slots are of one pool key.    *)
(* What a job does, and why it ends, is left to its broker: see            *)
(* PlatformRuns.                                                           *)
(***************************************************************************)
EXTENDS Naturals, FiniteSets, Sequences

CONSTANTS
  Slots,            \* ids of runner_pool_slots, each used once
  PlatformJobs,     \* plan_runs, removed by Plans.maintain
  ApplicationJobs,  \* application_dispatches, retired by the pool itself
  Probes,           \* jobs of RunnerPool.probe
  Apis,             \* API processes
  Instances,        \* container instances of one app; a second one overlaps a
                    \* replaced one
  Size,             \* LZC_RUNNER_POOL_SIZE
  NULL

Jobs == PlatformJobs \cup ApplicationJobs \cup Probes

ASSUME ConstantsAssumption ==
  /\ Size \in Nat
  /\ NULL \notin Slots \cup Jobs \cup Apis
  /\ Slots \cap Jobs = {}
  /\ PlatformJobs \cap ApplicationJobs = {} /\ Probes \cap (PlatformJobs \cup ApplicationJobs) = {}

VARIABLES
  slot,      \* lzc.runner_pool_slots
  app,       \* the Cloud Foundry app lzc-warm-<id> of a slot
  proc,      \* the container instances of that app
  job,       \* what the pool's callers keep of a job
  dispatch,  \* progress of start() for a job
  prepare,   \* progress of prepareWarm() for a slot
  maint,     \* progress of maintain() in an API process
  filling,   \* the API process that holds the advisory lock of the pool
  remover,   \* the slot a remove() of a job works on
  log        \* history: the executions, as OneShot has them

vars == <<slot, app, proc, job, dispatch, prepare, maint, filling, remover, log>>

---------------------------------------------------------------------------
(* Values *)

Claimable == {"warming", "ready", "reserved", "assigned"}
Capacity == {"warming", "ready"}    \* what createSlot counts

SlotRow ==
  [status : Claimable \cup {"none", "consumed", "retiring", "gone"},
   token : BOOLEAN, app : BOOLEAN, assignment : Jobs \cup {NULL}, job : Jobs \cup {NULL},
   quiet : BOOLEAN, expired : BOOLEAN]

\* "held" is the reconciliation_required of an application job, "settled" the same
\* with a valid clearance and nothing left that may run; "app" is the job's runner:
\* its slot, or the app made for it alone.
JobRow ==
  [status : {"new", "live", "held", "settled", "ended", "cleaned"}, app : Slots \cup Jobs \cup {NULL}]

DispatchRow ==
  [pc : {"new", "starting", "reserved", "recorded", "thrown", "cold", "bound", "done", "dead"},
   api : Apis \cup {NULL}, slot : Slots \cup {NULL}]

PrepareRow ==
  [pc : {"none", "pending", "created", "recorded", "done"}, api : Apis \cup {NULL}]

MaintRow ==
  [pc : {"idle", "removing", "filling", "inserting", "launching"}, todo : SUBSET Slots,
   removed : Slots \cup {NULL}, left : 0..Size]

\* The second and third conjunct are CHECKs of the table.
TypeOK ==
  /\ slot \in [Slots -> SlotRow]
  /\ \A s \in Slots : slot[s].status = "assigned" <=> slot[s].assignment # NULL
  /\ \A s \in Slots : slot[s].status \in {"reserved", "assigned", "consumed"} => slot[s].job # NULL
  /\ app \in [Slots -> {"none", "created", "started", "deleting", "deleted"}]
  /\ proc \in [Slots \X Instances -> {"off", "polling", "executing"}]
  /\ job \in [Jobs -> JobRow]
  /\ dispatch \in [Jobs -> DispatchRow]
  /\ prepare \in [Slots -> PrepareRow]
  /\ maint \in [Apis -> MaintRow]
  /\ filling \in Apis \cup {NULL}
  /\ remover \in [Jobs -> Slots \cup {NULL}]
  /\ log \in Seq(Jobs \X (Slots \cup Jobs))

NoSlot ==
  [status |-> "none", token |-> FALSE, app |-> FALSE, assignment |-> NULL, job |-> NULL,
   quiet |-> FALSE, expired |-> FALSE]

Resting == [pc |-> "idle", todo |-> {}, removed |-> NULL, left |-> 0]

Init ==
  /\ slot = [s \in Slots |-> NoSlot]
  /\ app = [s \in Slots |-> "none"]
  /\ proc = [x \in Slots \X Instances |-> "off"]
  /\ job = [j \in Jobs |-> [status |-> "new", app |-> NULL]]
  /\ dispatch = [j \in Jobs |-> [pc |-> "new", api |-> NULL, slot |-> NULL]]
  /\ prepare = [s \in Slots |-> [pc |-> "none", api |-> NULL]]
  /\ maint = [a \in Apis |-> Resting]
  /\ filling = NULL
  /\ remover = [j \in Jobs |-> NULL]
  /\ log = <<>>

---------------------------------------------------------------------------
(* Helpers *)

\* status='retiring', assignment=NULL, token_hash=NULL
Retired(row) == [row EXCEPT !.status = "retiring", !.assignment = NULL, !.token = FALSE]

\* DELETE apps/<id>, answered before the app and its containers are gone.
Deleted(s) == IF app[s] \in {"created", "started"} THEN "deleting" ELSE app[s]

---------------------------------------------------------------------------
(* maintain() of one API process; "maintaining" makes it single-flight *)

Unneeded_capacity(row) == row.status \in Capacity /\ (row.expired \/ row.quiet)  \* mutant

Preparing(a) ==
  {s \in Slots : prepare[s].api = a /\ prepare[s].pc \in {"pending", "created", "recorded"}}

Abandoned(a) ==
  [s \in Slots |->
    IF s \in Preparing(a) THEN [pc |-> "done", api |-> NULL] ELSE prepare[s]]

\* Leases that nobody will use any more.
Unneeded(row) ==
  \/ row.status \in Claimable /\ row.expired
  \/ row.status = "ready" /\ row.quiet
  \/ row.status \in Capacity /\ Size = 0
  \/ row.status = "consumed" /\ row.job \in Probes /\ row.expired

Completed_unsettled(s) ==  \* mutant: as before migration 077
  /\ slot[s].status = "consumed" /\ slot[s].job \in ApplicationJobs
  /\ job[slot[s].job].status = "ended" /\ job[slot[s].job].app = s

\* lzc_auth.retire_completed_application_runners
Completed(s) ==
  LET j == slot[s].job IN
  /\ slot[s].status = "consumed"
  /\ j \in ApplicationJobs
  /\ job[j].status \in {"ended", "settled"} /\ job[j].app = s

\* The two UPDATEs and the list of what is to be removed.  Nothing another process
\* does between them tells the three statements from one.
Retire(a) ==
  /\ maint[a].pc = "idle"
  /\ slot' = [s \in Slots |->
       IF Completed(s) \/ Unneeded(slot[s]) THEN Retired(slot[s]) ELSE slot[s]]
  /\ maint' = [maint EXCEPT ![a] =
       [@ EXCEPT !.pc = "removing", !.todo = {s \in Slots : slot'[s].status = "retiring"}]]
  /\ UNCHANGED <<app, proc, job, dispatch, prepare, filling, remover, log>>

\* removeWarm: deletes whatever app has the slot's name by now.
RemoveApp(a, s) ==
  /\ maint[a].pc = "removing" /\ maint[a].removed = NULL /\ s \in maint[a].todo
  /\ app' = [app EXCEPT ![s] = Deleted(s)]
  /\ maint' = [maint EXCEPT ![a].removed = s]
  /\ UNCHANGED <<slot, proc, job, dispatch, prepare, filling, remover, log>>

DeleteRow(a) ==
  LET s == maint[a].removed IN
  /\ maint[a].pc = "removing" /\ s # NULL
  /\ slot' = [slot EXCEPT ![s] = [NoSlot EXCEPT !.status = "gone"]]
  /\ maint' = [maint EXCEPT ![a].todo = @ \ {s}, ![a].removed = NULL]
  /\ UNCHANGED <<app, proc, job, dispatch, prepare, filling, remover, log>>

\* A request or a query fails and ends the pass; slots it had inserted are never
\* launched.
MaintainFails(a) ==
  /\ maint[a].pc \in {"removing", "filling", "inserting"}
  /\ maint' = [maint EXCEPT ![a] = Resting]
  /\ filling' = IF filling = a THEN NULL ELSE filling
  /\ prepare' = Abandoned(a)
  /\ UNCHANGED <<slot, app, proc, job, dispatch, remover, log>>

MaintainFills(a) ==
  /\ maint[a].pc = "removing" /\ maint[a].todo = {}
  /\ maint' = [maint EXCEPT ![a] = [@ EXCEPT !.pc = "filling", !.left = Size]]
  /\ UNCHANGED <<slot, app, proc, job, dispatch, prepare, filling, remover, log>>

LockPool_never(a) == UNCHANGED filling  \* mutant: without the advisory lock

LockPool(a) == filling = NULL /\ filling' = a

Filled == Cardinality({s \in Slots : slot[s].status \in Capacity})

\* Bound: no slot is inserted once the ids are used up.
Fresh == {s \in Slots : slot[s].status = "none"}

\* createSlot: the advisory lock, then the count of the INSERT's snapshot.
CountSlots(a) ==
  /\ maint[a].pc = "filling" /\ maint[a].left > 0
  /\ Filled < Size /\ Fresh # {}
  /\ LockPool(a)
  /\ maint' = [maint EXCEPT ![a].pc = "inserting", ![a].left = @ - 1]
  /\ UNCHANGED <<slot, app, proc, job, dispatch, prepare, remover, log>>

InsertSlot(a, s) ==
  /\ maint[a].pc = "inserting"
  /\ s \in Fresh
  /\ slot' = [slot EXCEPT ![s] = [@ EXCEPT !.status = "warming", !.token = TRUE]]
  /\ prepare' = [prepare EXCEPT ![s] = [pc |-> "pending", api |-> a]]
  /\ filling' = IF filling = a THEN NULL ELSE filling
  /\ maint' = [maint EXCEPT ![a].pc = "filling"]
  /\ UNCHANGED <<app, proc, job, dispatch, remover, log>>

StopsFilling(a) ==
  /\ maint[a].pc = "filling" /\ (maint[a].left = 0 \/ Filled >= Size \/ Fresh = {})
  /\ maint' = [maint EXCEPT ![a] = [@ EXCEPT !.pc = "launching", !.left = 0]]
  /\ UNCHANGED <<slot, app, proc, job, dispatch, prepare, filling, remover, log>>

MaintainReturns(a) ==
  /\ maint[a].pc = "launching" /\ Preparing(a) = {}
  /\ maint' = [maint EXCEPT ![a] = Resting]
  /\ UNCHANGED <<slot, app, proc, job, dispatch, prepare, filling, remover, log>>

---------------------------------------------------------------------------
(* prepareWarm() *)

CreateApp(s) ==
  /\ prepare[s].pc = "pending" /\ maint[prepare[s].api].pc = "launching"
  /\ app' = [app EXCEPT ![s] = "created"]
  /\ prepare' = [prepare EXCEPT ![s].pc = "created"]
  /\ UNCHANGED <<slot, proc, job, dispatch, maint, filling, remover, log>>

Recordable_always(s) == TRUE  \* mutant: does not look at the status

Recordable(s) == slot[s].status = "warming"

\* The record callback of maintain().
RecordApp(s) ==
  /\ prepare[s].pc = "created"
  /\ Recordable(s)
  /\ slot' = [slot EXCEPT ![s].app = slot[s].status # "gone"]
  /\ prepare' = [prepare EXCEPT ![s].pc = "recorded"]
  /\ UNCHANGED <<app, proc, job, dispatch, maint, filling, remover, log>>

\* Cloud Foundry starts the app, even if the answer is lost.
StartApp(s, ack) ==
  /\ prepare[s].pc = "recorded"
  /\ app[s] = "created"
  /\ app' = [app EXCEPT ![s] = "started"]
  /\ prepare' = [prepare EXCEPT ![s] = [pc |-> "done", api |-> NULL]]
  /\ slot' = IF ~ack /\ slot[s].status \in Capacity
             THEN [slot EXCEPT ![s] = [@ EXCEPT !.status = "retiring", !.token = FALSE]]
             ELSE slot
  /\ UNCHANGED <<proc, job, dispatch, maint, filling, remover, log>>

\* A request fails, or record found the lease retired: catch.
PrepareFails(s) ==
  /\ prepare[s].pc \in {"pending", "created", "recorded"}
  /\ maint[prepare[s].api].pc = "launching"
  /\ prepare' = [prepare EXCEPT ![s] = [pc |-> "done", api |-> NULL]]
  /\ slot' = IF slot[s].status \in Capacity
             THEN [slot EXCEPT ![s] = [@ EXCEPT !.status = "retiring", !.token = FALSE]]
             ELSE slot
  /\ UNCHANGED <<app, proc, job, dispatch, maint, filling, remover, log>>

---------------------------------------------------------------------------
(* start(): a job is dispatched *)

Begin(j, a) ==
  /\ dispatch[j].pc = "new"
  /\ dispatch' = [dispatch EXCEPT ![j] = [@ EXCEPT !.pc = "starting", !.api = a]]
  /\ job' = [job EXCEPT ![j].status = "live"]
  /\ UNCHANGED <<slot, app, proc, prepare, maint, filling, remover, log>>

\* A ready runner that was heard of lately; between 10 and 15 seconds, and in the
\* last 30 of its lease, it is not offered: Misses covers that.
Offered(s) == slot[s].status = "ready" /\ ~slot[s].quiet /\ ~slot[s].expired

Reserve(j, s) ==
  /\ dispatch[j].pc = "starting"
  /\ j \in Probes => job[j].status = "live"
  /\ Size > 0
  /\ \A o \in Slots : slot[o].job # j
  /\ Offered(s)
  /\ slot' = [slot EXCEPT ![s] = [@ EXCEPT !.status = "reserved", !.job = j]]
  /\ dispatch' = [dispatch EXCEPT ![j] = [@ EXCEPT !.pc = "reserved", !.slot = s]]
  /\ UNCHANGED <<app, proc, job, prepare, maint, filling, remover, log>>

\* No candidate, or each was locked at that moment.  A probe tries again.
Misses(j) ==
  /\ dispatch[j].pc = "starting" /\ j \notin Probes
  /\ dispatch' = [dispatch EXCEPT ![j].pc = "cold"]
  /\ UNCHANGED <<slot, app, proc, job, prepare, maint, filling, remover, log>>

\* The record callback of the job's broker: once, while the job is live.  That of
\* a probe keeps the app in a variable.
Bindable(j) == job[j].status = "live" /\ job[j].app = NULL

Record(j) ==
  LET s == dispatch[j].slot IN
  /\ dispatch[j].pc = "reserved"
  /\ Bindable(j)
  /\ job' = [job EXCEPT ![j].app = s]
  /\ dispatch' = [dispatch EXCEPT ![j].pc = "recorded"]
  /\ UNCHANGED <<slot, app, proc, prepare, maint, filling, remover, log>>

Assignable(s) == slot[s].status = "reserved" /\ ~slot[s].expired

\* "ack" is FALSE when the connection breaks after the UPDATE was committed.
Assign(j, ack) ==
  LET s == dispatch[j].slot IN
  /\ dispatch[j].pc = "recorded"
  /\ Assignable(s)
  /\ slot' = [slot EXCEPT ![s] = [@ EXCEPT !.status = "assigned", !.assignment = j]]
  /\ dispatch' = [dispatch EXCEPT ![j].pc = IF ack THEN "done" ELSE "thrown"]
  /\ UNCHANGED <<app, proc, job, prepare, maint, filling, remover, log>>

\* record or the assignment is refused, or its query fails.
StartThrows(j) ==
  /\ dispatch[j].pc \in {"reserved", "recorded"}
  /\ dispatch' = [dispatch EXCEPT ![j].pc = "thrown"]
  /\ UNCHANGED <<slot, app, proc, job, prepare, maint, filling, remover, log>>

\* The "fail" of an application dispatch, and its counterpart for plan_runs: an
\* application job that has a runner has to be reconciled.
EndedNow(j) ==
  [job EXCEPT ![j].status =
    IF @ # "live" THEN @ ELSE IF j \in ApplicationJobs /\ job[j].app # NULL THEN "held" ELSE "ended"]

Withdrawn_always(s) == slot[s].status \notin {"none", "gone"}  \* mutant: a consumed one too

Withdrawn(s) == slot[s].status \notin {"none", "gone", "consumed"}

\* The catch of start(), whose query may fail ("done" is FALSE), then the caller's.
Withdraw(j, done) ==
  LET s == dispatch[j].slot IN
  /\ dispatch[j].pc = "thrown"
  /\ slot' = IF done /\ Withdrawn(s) THEN [slot EXCEPT ![s] = Retired(@)] ELSE slot
  /\ dispatch' = [dispatch EXCEPT ![j].pc = "dead"]
  /\ job' = EndedNow(j)
  /\ UNCHANGED <<app, proc, prepare, maint, filling, remover, log>>

---------------------------------------------------------------------------
(* The cold path: an app and a task for this job alone *)

BindCold(j) ==
  /\ dispatch[j].pc = "cold"
  /\ Bindable(j)
  /\ job' = [job EXCEPT ![j].app = j]
  /\ dispatch' = [dispatch EXCEPT ![j].pc = "bound"]
  /\ UNCHANGED <<slot, app, proc, prepare, maint, filling, remover, log>>

ColdFails(j) ==
  /\ dispatch[j].pc \in {"cold", "bound"}
  /\ dispatch' = [dispatch EXCEPT ![j].pc = "dead"]
  /\ job' = EndedNow(j)
  /\ UNCHANGED <<slot, app, proc, prepare, maint, filling, remover, log>>

\* The task starts, even if the answer is lost.
LaunchCold(j, ack) ==
  /\ dispatch[j].pc = "bound"
  /\ job[j].status # "cleaned"
  /\ dispatch' = [dispatch EXCEPT ![j].pc = IF ack THEN "done" ELSE "dead"]
  /\ job' = IF ack THEN job ELSE EndedNow(j)
  /\ log' = Append(log, <<j, j>>)
  /\ UNCHANGED <<slot, app, proc, prepare, maint, filling, remover>>

---------------------------------------------------------------------------
(* The warm runner *)

\* Cloud Foundry starts an instance, and again whenever it ended.
Boot(s, i) ==
  /\ app[s] = "started"
  /\ proc[<<s, i>>] = "off"
  /\ proc' = [proc EXCEPT ![<<s, i>>] = "polling"]
  /\ UNCHANGED <<slot, app, job, dispatch, prepare, maint, filling, remover, log>>

Authorized(s) ==
  slot[s].token /\ slot[s].app /\ ~slot[s].expired /\ slot[s].status \in Claimable

HeardOf(row) ==
  [row EXCEPT !.status = IF row.status = "warming" THEN "ready" ELSE row.status, !.quiet = FALSE]

\* claim() without an assignment: a heartbeat.
Heartbeat(s, i, ack) ==
  /\ proc[<<s, i>>] = "polling"
  /\ Authorized(s) /\ slot[s].status # "assigned"
  /\ slot' = [slot EXCEPT ![s] = HeardOf(@)]
  /\ proc' = IF ack THEN proc ELSE [proc EXCEPT ![<<s, i>>] = "off"]
  /\ UNCHANGED <<app, job, dispatch, prepare, maint, filling, remover, log>>

Consumed_later(row) == [row EXCEPT !.quiet = FALSE]  \* mutant: the lease keeps its assignment

Consumed(row) ==
  [row EXCEPT !.status = "consumed", !.assignment = NULL, !.token = FALSE, !.quiet = FALSE]

\* claim() hands the assignment out; a runner that misses the answer ends.
Claim(s, i, ack) ==
  /\ proc[<<s, i>>] = "polling"
  /\ Authorized(s) /\ slot[s].status = "assigned"
  /\ slot' = [slot EXCEPT ![s] = Consumed(@)]
  /\ proc' = [proc EXCEPT ![<<s, i>>] = IF ack THEN "executing" ELSE "off"]
  /\ log' = IF ack THEN Append(log, <<slot[s].assignment, s>>) ELSE log
  /\ UNCHANGED <<app, job, dispatch, prepare, maint, filling, remover>>

\* The claim is refused, the idle deadline passed, the job is done, or a crash.
ProcessEnds(s, i) ==
  /\ proc[<<s, i>>] # "off"
  /\ proc' = [proc EXCEPT ![<<s, i>>] = "off"]
  /\ UNCHANGED <<slot, app, job, dispatch, prepare, maint, filling, remover, log>>

AppGone(s) ==
  /\ app[s] = "deleting"
  /\ app' = [app EXCEPT ![s] = "deleted"]
  /\ proc' = [x \in Slots \X Instances |-> IF x[1] = s THEN "off" ELSE proc[x]]
  /\ UNCHANGED <<slot, job, dispatch, prepare, maint, filling, remover, log>>

---------------------------------------------------------------------------
(* The end of a job *)

\* Its runner reported, its owner cancelled it, its deadline passed, or it was found
\* interrupted.  A probe ends between two tries or after its assignment.
JobEnds(j) ==
  /\ job[j].status = "live"
  /\ j \in Probes => dispatch[j].pc \in {"starting", "done"}
  /\ job' = [job EXCEPT ![j].status = "ended"]
  /\ UNCHANGED <<slot, app, proc, dispatch, prepare, maint, filling, remover, log>>

JobSettled(j) ==
  /\ job[j].status = "held"
  /\ job' = [job EXCEPT ![j].status = "settled"]
  /\ UNCHANGED <<slot, app, proc, dispatch, prepare, maint, filling, remover, log>>

\* An Apply whose outcome is unknown.
JobHeld(j) ==
  /\ j \in ApplicationJobs /\ job[j].status = "live" /\ job[j].app # NULL
  /\ job' = [job EXCEPT ![j].status = "held"]
  /\ UNCHANGED <<slot, app, proc, dispatch, prepare, maint, filling, remover, log>>

Leased(j) == {s \in Slots : slot[s].job = j}

\* remove(), called by Plans.maintain for an ended run, again until it succeeds,
\* and once by probe() when it ends: the slot of the job, or the app made for it.
RemoveLeased(j) ==
  /\ j \notin ApplicationJobs
  /\ job[j].status = "ended" /\ remover[j] = NULL
  /\ \E s \in Leased(j) :
       /\ job[j].app \in {NULL, s}
       /\ app' = [app EXCEPT ![s] = Deleted(s)]
       /\ remover' = [remover EXCEPT ![j] = s]
  /\ UNCHANGED <<slot, proc, job, dispatch, prepare, maint, filling, log>>

RemoveRow(j) ==
  LET s == remover[j] IN
  /\ s # NULL
  /\ slot' = [slot EXCEPT ![s] = [NoSlot EXCEPT !.status = "gone"]]
  /\ remover' = [remover EXCEPT ![j] = NULL]
  /\ job' = [job EXCEPT ![j].status = "cleaned"]
  /\ UNCHANGED <<app, proc, dispatch, prepare, maint, filling, log>>

RemoveCold(j) ==
  /\ j \notin ApplicationJobs
  /\ job[j].status = "ended" /\ remover[j] = NULL /\ Leased(j) = {}
  /\ job' = [job EXCEPT ![j].status = "cleaned"]
  /\ UNCHANGED <<slot, app, proc, dispatch, prepare, maint, filling, remover, log>>

\* remove() fails, or its process ends; nobody repeats it for a probe.
RemoveInterrupted(j) ==
  /\ remover[j] # NULL
  /\ remover' = [remover EXCEPT ![j] = NULL]
  /\ job' = IF j \in Probes THEN [job EXCEPT ![j].status = "cleaned"] ELSE job
  /\ UNCHANGED <<slot, app, proc, dispatch, prepare, maint, filling, log>>

---------------------------------------------------------------------------
(* Time and crashes *)

Expire(s) ==
  /\ slot[s].status \in Claimable \cup {"consumed"} /\ ~slot[s].expired
  /\ slot' = [slot EXCEPT ![s].expired = TRUE]
  /\ UNCHANGED <<app, proc, job, dispatch, prepare, maint, filling, remover, log>>

GrowQuiet(s) ==
  /\ slot[s].status = "ready" /\ ~slot[s].quiet
  /\ slot' = [slot EXCEPT ![s].quiet = TRUE]
  /\ UNCHANGED <<app, proc, job, dispatch, prepare, maint, filling, remover, log>>

\* Promises, handlers and advisory locks end with the process, rows stay.
ApiCrashes(a) ==
  LET cut == {j \in Probes : dispatch[j].api = a} IN
  /\ maint' = [maint EXCEPT ![a] = Resting]
  /\ filling' = IF filling = a THEN NULL ELSE filling
  /\ prepare' = Abandoned(a)
  /\ dispatch' = [j \in Jobs |->
       IF dispatch[j].api = a /\ dispatch[j].pc # "done"
       THEN [dispatch[j] EXCEPT !.pc = "dead"] ELSE dispatch[j]]
  /\ job' = [j \in Jobs |-> IF j \in cut THEN [job[j] EXCEPT !.status = "cleaned"] ELSE job[j]]
  /\ remover' = [j \in Jobs |-> IF j \in cut THEN NULL ELSE remover[j]]
  /\ UNCHANGED <<slot, app, proc, log>>

---------------------------------------------------------------------------
Maintain(a) ==
  \/ Retire(a) \/ DeleteRow(a) \/ MaintainFails(a) \/ MaintainFills(a)
  \/ CountSlots(a) \/ StopsFilling(a) \/ MaintainReturns(a)
  \/ \E s \in Slots : RemoveApp(a, s) \/ InsertSlot(a, s)

PrepareWarm(s) ==
  \/ CreateApp(s) \/ RecordApp(s) \/ PrepareFails(s)
  \/ \E ack \in BOOLEAN : StartApp(s, ack)

Start(j) ==
  \/ Misses(j) \/ Record(j) \/ StartThrows(j) \/ BindCold(j) \/ ColdFails(j)
  \/ \E a \in Apis : Begin(j, a)
  \/ \E s \in Slots : Reserve(j, s)
  \/ \E ack \in BOOLEAN : Assign(j, ack) \/ LaunchCold(j, ack) \/ Withdraw(j, ack)

Remove(j) == RemoveLeased(j) \/ RemoveRow(j) \/ RemoveCold(j) \/ RemoveInterrupted(j)

Instance(s, i) ==
  \/ Boot(s, i) \/ ProcessEnds(s, i)
  \/ \E ack \in BOOLEAN : Heartbeat(s, i, ack) \/ Claim(s, i, ack)

Next ==
  \/ \E a \in Apis : Maintain(a) \/ ApiCrashes(a)
  \/ \E s \in Slots : PrepareWarm(s) \/ AppGone(s) \/ Expire(s) \/ GrowQuiet(s)
  \/ \E s \in Slots, i \in Instances : Instance(s, i)
  \/ \E j \in Jobs : Start(j) \/ JobEnds(j) \/ JobHeld(j) \/ JobSettled(j) \/ Remove(j)

Spec == Init /\ [][Next]_vars

(* Fairness.  The pool timer of main.ts calls maintain() every 5 seconds in each
   process, the timer of Plans.maintain every 30; time passes; every request
   ends, as it has a timeout.  A deletion that is tried for ever succeeds in
   the end: that is the one assumption about Cloud Foundry and PostgreSQL. *)
FairSpec ==
  /\ Spec
  /\ \A a \in Apis :
       /\ WF_vars(Maintain(a))
       /\ SF_vars(DeleteRow(a))
       /\ \A s \in Slots : SF_vars(RemoveApp(a, s))
  /\ \A s \in Slots : WF_vars(PrepareWarm(s)) /\ WF_vars(Expire(s))
  /\ \A j \in Jobs : SF_vars(RemoveLeased(j)) /\ SF_vars(RemoveRow(j))

---------------------------------------------------------------------------
(* Properties *)

\* Whatever is lost, restarted or raced for, a job is executed at most once and a
\* runner executes at most one job: the abstract specification OneShot.  claim()
\* takes assignment and token away in the transaction that hands them out.
Lease == INSTANCE OneShot WITH Runners <- Slots \cup Jobs
ExecutesOnce == Lease!Spec

\* No timer, catch block or second process takes the runner of a job away whose
\* outcome is open: its lease stays consumed and its app stays started until the
\* job has ended, also while an Apply waits for reconciliation.
KeptWhileExecuting ==
  \A k \in 1..Len(log) :
    LET j == log[k][1]  s == log[k][2] IN
    s \in Slots /\ j \notin Probes /\ job[j].status \in {"live", "held"} =>
      slot[s].status = "consumed" /\ slot[s].job = j /\ app[s] = "started"

\* A started warm app always has its row: once its lease is deleted nothing
\* starts it any more, so no runner polls, and costs, without anyone who removes it.
StartedIsLeased ==
  \A s \in Slots : app[s] = "started" => slot[s].status \notin {"none", "gone"}

\* Processes that fill the pool at the same time do not exceed its size.
WithinSize == Filled <= Size

\* A reservation does not hold a runner for ever, whatever happens to the process
\* that made it: the runner gets its job, or the lease is removed.
ReservationsEnd ==
  \A s \in Slots :
    slot[s].status \in {"reserved", "assigned"} ~> slot[s].status \in {"consumed", "gone"}

\* The runner of an ended job, and a retired one, is removed in the end.
RunnersReclaimed ==
  \A s \in Slots :
    \/ slot[s].status = "retiring"
    \/ \E j \in Jobs \ Probes :
         slot[s].status = "consumed" /\ slot[s].job = j /\ job[j].status \in {"ended", "settled"}
    ~> slot[s].status = "gone"
=============================================================================
