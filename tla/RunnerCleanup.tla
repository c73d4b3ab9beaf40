--------------------------- MODULE RunnerCleanup ---------------------------
(***************************************************************************)
(* The retention sweep of runner-cleanup.ts: every API process pages       *)
(* through the apps of the runners' space, and deletes the stopped, old    *)
(* ones whose job is over or that nobody knows, through the guards of      *)
(* cloud-foundry.ts and of migrations 076 to 078.  Deletion in Cloud       *)
(* Foundry is asynchronous: an intent is kept until absence is confirmed.  *)
(*                                                                         *)
(* One action is one statement of PostgreSQL or one request to Cloud       *)
(* Foundry.  The jobs, the leases and the apps change as PlatformRuns and  *)
(* RunnerPool say; here they are reduced to what the sweep looks at.  The  *)
(* pool removes apps too: a lease passes through the steps of start(),     *)
(* claim() and maintain() of runner-pool.ts one by one.                    *)
(*                                                                         *)
(* Abstractions.  The space may hold the apps of other deployments, whose  *)
(* jobs are in another database.  A name that matches no pattern, and an   *)
(* app with a route or a service binding, are apps that are never looked   *)
(* at.  An open State recovery is part of "held": migration 070 does not   *)
(* clear a job that has one.  A probe of the pool has no job and is left   *)
(* out.                                                                    *)
(***************************************************************************)
EXTENDS Naturals, FiniteSets, Sequences, SequencesExt

CONSTANTS
  Apps, CreatedAt,  \* the apps of the space, and when each was created
  PlatformJobs, ApplicationJobs, Slots,
  Runner,           \* the id in the name of an app: lzc-plan-<job>, lzc-warm-<slot>
  Owner,            \* its label lzc.runner-owner: "here", "other" or NULL
  Apis,
  PerPage,          \* per_page=50
  Batch,            \* LIMIT 50 of pending_runner_cleanups
  Foreign,          \* apps of other deployments, whose jobs are in another database
  NULL

Jobs == PlatformJobs \cup ApplicationJobs
Kind(x) == IF Runner[x] \in Jobs THEN "plan" ELSE "warm"

ASSUME CleanupAssumption ==
  /\ IsFiniteSet(Apps) /\ CreatedAt \in [Apps -> Nat] /\ IsInjective(CreatedAt)
  /\ Slots \cap Jobs = {}
  /\ Runner \in [Apps -> Jobs \cup Slots]
  /\ Owner \in [Apps -> {"here", "other", NULL}]
  /\ Foreign \subseteq Apps /\ \A x \in Foreign : Owner[x] # "here"
  /\ \A x \in Apps : Owner[x] = "other" => x \in Foreign
  /\ PerPage \in Nat \ {0} /\ Batch \in Nat \ {0}
  /\ NULL \notin Apps \cup Jobs \cup Slots \cup Apis

VARIABLES
  job,      \* lzc.plan_runs and lzc.application_dispatches
  slot,     \* lzc.runner_pool_slots
  app,      \* the apps
  pending,  \* lzc.runner_cleanup_pending, least recently checked first
  receipts, \* lzc.runner_cleanup_receipts
  sweep     \* the pass of an API process

vars == <<job, slot, app, pending, receipts, sweep>>

---------------------------------------------------------------------------
(* Values *)

\* "none" has no row here.  "recent" ended less than 30 seconds ago or has a valid
\* ticket.  "held" is recovery_required or reconciliation_required, "cleared" the second
\* with a valid clearance, "clearing" the same while a ticket is still valid.  "start" is
\* the progress of RunnerPool.start() for the job and "lease" the app it holds meanwhile;
\* "ran" is history: a warm runner claimed the job.
JobRow ==
  [status : {"none", "live", "recent", "ended", "held", "clearing", "cleared"},
   app : Apps \cup {NULL},
   start : {"new", "reserved", "recorded", "over"}, lease : Apps \cup {NULL}, ran : BOOLEAN]

\* "claimable" is warming or ready: no job has the lease yet.
Claimable == {"claimable", "reserved", "assigned"}

SlotRow ==
  [status : Claimable \cup {"none", "consumed", "retiring"}, expired : BOOLEAN,
   app : Apps \cup {NULL}, job : Jobs \cup {NULL}]

\* "starting": the process that made the app has not yet recorded or started it.
AppRow ==
  [state : {"none", "stopped", "started", "deleting", "gone"},
   old : BOOLEAN, busy : BOOLEAN, starting : BOOLEAN]

SweepRow ==
  [pc : {"idle", "confirming", "listing", "looking", "admitted", "idling", "same", "intended", "asked"},
   todo : SUBSET Apps, list : SUBSET Apps, page : Nat \ {0}]

TypeOK ==
  /\ job \in [Jobs -> JobRow]
  /\ slot \in [Slots -> SlotRow]
  /\ app \in [Apps -> AppRow]
  /\ pending \in Seq(Apps) /\ IsInjective(pending)
  /\ receipts \subseteq Apps
  /\ sweep \in [Apis -> SweepRow]

NoJob == [status |-> "none", app |-> NULL, start |-> "new", lease |-> NULL, ran |-> FALSE]

NoSlot == [status |-> "none", expired |-> FALSE, app |-> NULL, job |-> NULL]

Asleep == [pc |-> "idle", todo |-> {}, list |-> {}, page |-> 1]

Init ==
  /\ job = [j \in Jobs |-> NoJob]
  /\ slot = [s \in Slots |-> NoSlot]
  /\ app = [x \in Apps |-> [state |-> "none", old |-> FALSE, busy |-> FALSE, starting |-> FALSE]]
  /\ pending = <<>> /\ receipts = {}
  /\ sweep = [a \in Apis |-> Asleep]

---------------------------------------------------------------------------
(* lzc_auth.runner_cleanup_disposition *)

Over_held(j) == job[j].status \in {"ended", "cleared", "held"}  \* mutant: without the clearance

Over(j) == job[j].status \in {"ended", "cleared"}

\* The rows of jobs and leases that name the app or its runner.  An application job
\* has a row before it has an app; a run of a platform has one row.
JobsOf(x) == {j \in Jobs : job[j].status # "none" /\ (j = Runner[x] \/ job[j].app = x)}

SlotsOf(x) == {s \in Slots : slot[s].status # "none" /\ (s = Runner[x] \/ slot[s].app = x)}

Settled(x) ==
  /\ \A j \in JobsOf(x) :
       job[j].app = x /\ Over(j) /\ (Kind(x) = "plan" => j = Runner[x])
  /\ \A s \in SlotsOf(x) :
       /\ slot[s].app = x /\ slot[s].expired /\ slot[s].status \notin Claimable
       /\ Kind(x) = "warm" => s = Runner[x]
       /\ slot[s].status = "consumed" => job[slot[s].job].app = x

Known(x) == JobsOf(x) \cup SlotsOf(x) # {}

\* The closure "eligible" of maintain(): an orphan must carry this deployment's label.
Eligible_unlabelled(x) == Settled(x)  \* mutant: any orphan

Eligible(x) == Settled(x) /\ (Known(x) \/ Owner[x] = "here")

---------------------------------------------------------------------------
(* maintain() of one API process; "running" makes it single-flight *)

\* order_by=created_at
Before(x, y) == CreatedAt[x] <= CreatedAt[y]

Present == {x \in Apps : app[x].state \notin {"none", "gone"}}

PageOf(p) ==
  {x \in Present :
    Cardinality({y \in Present : Before(y, x)}) \in (p - 1) * PerPage + 1 .. p * PerPage}

\* last_checked_at=clock_timestamp(): the batch moves to the end of the queue.
Requeued(n) == SubSeq(pending, n + 1, Len(pending)) \o SubSeq(pending, 1, n)

\* pending_runner_cleanups
TakePending(a) ==
  LET n == IF Batch < Len(pending) THEN Batch ELSE Len(pending) IN
  /\ sweep[a].pc = "idle"
  /\ pending' = Requeued(n)
  /\ sweep' = [sweep EXCEPT ![a] =
       [@ EXCEPT !.pc = "confirming", !.todo = ToSet(SubSeq(pending, 1, n))]]
  /\ UNCHANGED <<job, slot, app, receipts>>

\* confirm_runner_cleanup: a receipt only for what was pending.
Confirmed(x) ==
  /\ receipts' = receipts \cup ({x} \cap ToSet(pending))
  /\ \/ \E i \in DOMAIN pending : pending[i] = x /\ pending' = RemoveAt(pending, i)
     \/ x \notin ToSet(pending) /\ pending' = pending

Absent(x) == app[x].state = "gone"

ConfirmPending(a, x) ==
  /\ sweep[a].pc = "confirming" /\ x \in sweep[a].todo
  /\ Absent(x)
  /\ Confirmed(x)
  /\ sweep' = [sweep EXCEPT ![a].todo = @ \ {x}]
  /\ UNCHANGED <<job, slot, app>>

\* Still there, or the request or the confirmation failed: the next one.
LeavePending(a, x) ==
  /\ sweep[a].pc = "confirming" /\ x \in sweep[a].todo
  /\ sweep' = [sweep EXCEPT ![a].todo = @ \ {x}]
  /\ UNCHANGED <<job, slot, app, pending, receipts>>

\* Cloud Foundry reports STOPPED while it deletes.
Stopped(x) == app[x].state \in {"stopped", "deleting"}

Aged_any(x) == TRUE  \* mutant: without the age of one day

Aged(x) == app[x].old

NextPage_ever(p) == IF p < 3 THEN p + 1 ELSE p  \* mutant: never back to the first page

NextPage(p) == IF Cardinality(Present) > p * PerPage THEN p + 1 ELSE 1

\* cleanupPage, and the filter on state, age and label that needs no further request.
ListPage(a) ==
  LET p == sweep[a].page IN
  /\ sweep[a].pc = "confirming" /\ sweep[a].todo = {}
  /\ sweep' = [sweep EXCEPT ![a] =
       [@ EXCEPT !.pc = "looking", !.page = NextPage(p),
                 !.list = {x \in PageOf(p) :
                            Stopped(x) /\ Aged(x) /\ Owner[x] \in {"here", NULL}}]]
  /\ UNCHANGED <<job, slot, app, pending, receipts>>

SweepFails(a) ==
  /\ sweep[a].pc = "confirming" /\ sweep[a].todo = {}
  /\ sweep' = [sweep EXCEPT ![a].pc = "idle"]
  /\ UNCHANGED <<job, slot, app, pending, receipts>>

SweepEnds(a) ==
  /\ sweep[a].pc = "looking" /\ sweep[a].list = {}
  /\ sweep' = [sweep EXCEPT ![a].pc = "idle"]
  /\ UNCHANGED <<job, slot, app, pending, receipts>>

\* The app that the sweep looks at: the oldest one left of its page.
Handles(a, x) == x \in sweep[a].list /\ \A y \in sweep[a].list : Before(x, y)

Moves(a, from, to) == sweep[a].pc = from /\ sweep' = [sweep EXCEPT ![a].pc = to]

Proceeds(a, x) ==
  sweep' = [sweep EXCEPT ![a].pc = "looking", ![a].list = sweep[a].list \ {x}]

Admit(a, x) ==
  /\ Handles(a, x) /\ Eligible(x)
  /\ Moves(a, "looking", "admitted")
  /\ UNCHANGED <<job, slot, app, pending, receipts>>

\* deleteStoppedRunner: unchanged() and no task or process that may run.
Inspect(a, x) ==
  /\ Handles(a, x) /\ Stopped(x) /\ ~app[x].busy
  /\ Moves(a, "admitted", "idling")
  /\ UNCHANGED <<job, slot, app, pending, receipts>>

\* unchanged() again
LookAgain(a, x) ==
  /\ Handles(a, x) /\ Stopped(x)
  /\ Moves(a, "idling", "same")
  /\ UNCHANGED <<job, slot, app, pending, receipts>>

Intended_late(x) == pending  \* mutant: not before the request

\* A row that is there stays; last_checked_at NULLS FIRST.
Intended(x) == IF x \in ToSet(pending) THEN pending ELSE <<x>> \o pending

\* eligible() again, and the disposition that record_runner_cleanup_intent computes
\* once more before it inserts.
RecordIntent(a, x) ==
  /\ Handles(a, x) /\ Eligible(x)
  /\ Moves(a, "same", "intended")
  /\ pending' = Intended(x)
  /\ UNCHANGED <<job, slot, app, receipts>>

Deleted(x) == [app EXCEPT ![x].state = IF @ \in {"stopped", "started"} THEN "deleting" ELSE @]

\* The request may have been served although its answer was lost ("ack" is FALSE).
RequestDeletion(a, x, ack) ==
  /\ sweep[a].pc = "intended" /\ Handles(a, x) /\ app[x].state # "gone"
  /\ app' = Deleted(x)
  /\ IF ack THEN Moves(a, "intended", "asked") ELSE Proceeds(a, x)
  /\ UNCHANGED <<job, slot, pending, receipts>>

ConfirmDeletion(a, x) ==
  /\ sweep[a].pc = "asked" /\ Handles(a, x)
  /\ Absent(x)
  /\ Confirmed(x)
  /\ Proceeds(a, x)
  /\ UNCHANGED <<job, slot, app>>

\* Not eligible, not stopped, busy, not gone after six looks, or an error: the next app.
PassOver(a, x) ==
  /\ sweep[a].pc \in {"looking", "admitted", "idling", "same", "intended", "asked"}
  /\ Handles(a, x)
  /\ Proceeds(a, x)
  /\ UNCHANGED <<job, slot, app, pending, receipts>>

ApiRestarts(a) ==
  /\ sweep[a].pc # "idle"
  /\ sweep' = [sweep EXCEPT ![a] = Asleep]
  /\ UNCHANGED <<job, slot, app, pending, receipts>>

---------------------------------------------------------------------------
(* Cloud Foundry, the pool and the brokers *)

Gone(x) ==
  /\ app[x].state = "deleting"
  /\ app' = [app EXCEPT ![x].state = "gone", ![x].busy = FALSE]
  /\ UNCHANGED <<job, slot, pending, receipts, sweep>>

\* Ids are random: no job of this deployment has the id of a foreign app.
Begin(j) ==
  /\ job[j].status = "none" /\ \A x \in Foreign : Runner[x] # j
  /\ job' = [job EXCEPT ![j].status = "live"]
  /\ UNCHANGED <<slot, app, pending, receipts, sweep>>

\* createSlot, and the runner's own lease.
Lease(s) ==
  /\ slot[s].status = "none" /\ \A x \in Apps : Runner[x] = s => app[x].state = "none"
  /\ slot' = [slot EXCEPT ![s].status = "claimable"]
  /\ UNCHANGED <<job, app, pending, receipts, sweep>>

\* The app of another deployment has no row here.  A job that the pool serves gets no app
\* of its own; a lease may have been retired since it was inserted.
Create(x) ==
  LET r == Runner[x] IN
  /\ app[x].state = "none"
  /\ \/ x \in Foreign
     \/ r \in Jobs /\ job[r].status = "live" /\ job[r].start = "new"
     \/ r \in Slots /\ slot[r].status \in {"claimable", "retiring"}
  /\ \A y \in Apps : Runner[y] = r /\ y # x => app[y].state \in {"none", "gone"}
  /\ app' = [app EXCEPT ![x].state = "stopped", ![x].starting = x \notin Foreign]
  /\ UNCHANGED <<job, slot, pending, receipts, sweep>>

\* The broker keeps the GUID, once and while the job is live; the pool while warming.
Record(x) ==
  LET r == Runner[x] IN
  /\ app[x].starting
  /\ \/ /\ r \in Jobs /\ job[r].status = "live" /\ job[r].app = NULL
        /\ job' = [job EXCEPT ![r].app = x] /\ UNCHANGED slot
     \/ /\ r \in Slots /\ slot[r].status = "claimable" /\ slot[r].app = NULL
        /\ slot' = [slot EXCEPT ![r].app = x] /\ UNCHANGED job
  /\ UNCHANGED <<app, pending, receipts, sweep>>

\* A task for a job of its own, a started process for a warm runner; or the process
\* that made the app gives up.
Launch(x) ==
  /\ app[x].starting
  /\ \/ /\ app[x].state = "stopped"
        /\ (Runner[x] \in Jobs => job[Runner[x]].app = x) /\ (Runner[x] \in Slots => slot[Runner[x]].app = x)
        /\ app' = [app EXCEPT ![x] = [@ EXCEPT !.starting = FALSE, !.busy = TRUE,
                     !.state = IF Kind(x) = "plan" THEN "stopped" ELSE "started"]]
     \/ app' = [app EXCEPT ![x].starting = FALSE]
  /\ UNCHANGED <<job, slot, pending, receipts, sweep>>

\* A task ends; a warm app is stopped by an operator or by Cloud Foundry.
Stops(x) ==
  /\ app[x].busy /\ app[x].state \in {"stopped", "started"}
  /\ app' = [app EXCEPT ![x].busy = FALSE, ![x].state = "stopped"]
  /\ UNCHANGED <<job, slot, pending, receipts, sweep>>

\* A dispatch takes no day, all its requests have time limits; a lease takes minutes.
Age(x) ==
  /\ app[x].state \in {"stopped", "started"} /\ ~app[x].old /\ ~app[x].starting
  /\ \A s \in Slots : slot[s].app = x => slot[s].expired
  /\ \A j \in Jobs : job[j].lease # x
  /\ app' = [app EXCEPT ![x].old = TRUE]
  /\ UNCHANGED <<job, slot, pending, receipts, sweep>>

---------------------------------------------------------------------------
(* A lease of the pool *)

\* start() reserves a ready lease for a job, once; it is renewed for 30 seconds.
Reserve(s, j) ==
  LET x == slot[s].app IN
  /\ slot[s].status = "claimable" /\ x # NULL /\ ~slot[s].expired
  /\ app[x].state = "started"
  /\ job[j].status = "live" /\ job[j].start = "new"
  /\ \A y \in Apps : Runner[y] = j => app[y].state = "none"
  /\ \A t \in Slots : slot[t].job # j
  /\ slot' = [slot EXCEPT ![s] = [@ EXCEPT !.status = "reserved", !.job = j]]
  /\ job' = [job EXCEPT ![j] = [@ EXCEPT !.start = "reserved", !.lease = x]]
  /\ UNCHANGED <<app, pending, receipts, sweep>>

\* record(): the broker keeps the GUID, once and while the job is live.  It does not look
\* at the lease, which may be retired or removed by now.
Bind(j) ==
  /\ job[j].start = "reserved" /\ job[j].status = "live" /\ job[j].app = NULL
  /\ job' = [job EXCEPT ![j] = [@ EXCEPT !.app = job[j].lease, !.start = "recorded"]]
  /\ UNCHANGED <<slot, app, pending, receipts, sweep>>

\* start() returns, or its answer is lost and it throws ("ack" is FALSE).
Assign(j, ack) ==
  LET s == Runner[job[j].lease] IN
  /\ job[j].start = "recorded"
  /\ slot[s].status = "reserved" /\ ~slot[s].expired
  /\ slot' = [slot EXCEPT ![s].status = "assigned"]
  /\ job' = IF ack THEN [job EXCEPT ![j] = [@ EXCEPT !.start = "over", !.lease = NULL]] ELSE job
  /\ UNCHANGED <<app, pending, receipts, sweep>>

\* start() throws or its process ends.  The catch retires the lease unless it is consumed,
\* if that query is reached and served; the broker then ends or holds the job.
GiveUp(j) ==
  LET s == Runner[job[j].lease] IN
  /\ job[j].start \in {"reserved", "recorded"}
  /\ job' = [job EXCEPT ![j] = [@ EXCEPT !.start = "over", !.lease = NULL]]
  /\ \/ UNCHANGED slot
     \/ /\ slot[s].status \notin {"none", "consumed"}
        /\ slot' = [slot EXCEPT ![s].status = "retiring"]
  /\ UNCHANGED <<app, pending, receipts, sweep>>

\* claim() of the runner
Claim(s) ==
  /\ slot[s].status = "assigned" /\ ~slot[s].expired
  /\ app[slot[s].app].state = "started"
  /\ slot' = [slot EXCEPT ![s].status = "consumed"]
  /\ job' = [job EXCEPT ![slot[s].job].ran = TRUE]
  /\ UNCHANGED <<app, pending, receipts, sweep>>

Expire(s) ==
  /\ slot[s].status # "none" /\ ~slot[s].expired
  /\ slot' = [slot EXCEPT ![s].expired = TRUE]
  /\ UNCHANGED <<job, app, pending, receipts, sweep>>

\* retire_completed_application_runners waits neither 30 seconds nor for the tickets of a
\* job that succeeded or failed.
Completed(s) ==
  LET j == slot[s].job IN
  /\ slot[s].status = "consumed" /\ j \in ApplicationJobs
  /\ job[j].app = slot[s].app /\ job[j].status \in {"recent", "ended", "cleared"}

\* maintain(), or the catch of a launch; a ready lease also when its runner is silent.
Retire(s) ==
  /\ \/ slot[s].status = "claimable"
     \/ slot[s].status \in Claimable /\ slot[s].expired
     \/ Completed(s)
  /\ slot' = [slot EXCEPT ![s].status = "retiring"]
  /\ UNCHANGED <<job, app, pending, receipts, sweep>>

\* What the pool removes: a retired lease, or, asked by Plans.maintain, that of an ended run.
Removable(s) ==
  LET j == slot[s].job IN
  \/ slot[s].status = "retiring"
  \/ /\ slot[s].status # "none" /\ j \in PlatformJobs
     /\ Over(j) /\ job[j].app \in {NULL, slot[s].app}

\* removeNamed: whatever app has the name by now.  Nobody waits for this deletion, so that it
\* is over at once.
Named(r) == {x \in Apps \ Foreign : Runner[x] = r /\ app[x].state \in {"stopped", "started"}}

Removed(r) ==
  [x \in Apps |->
    IF x \in Named(r) THEN [app[x] EXCEPT !.state = "gone", !.busy = FALSE] ELSE app[x]]

RemoveWarm(s) ==
  /\ Removable(s)
  /\ slot[s].app # NULL => Named(s) \subseteq {slot[s].app}
  /\ app' = Removed(s)
  /\ UNCHANGED <<job, slot, pending, receipts, sweep>>

\* Plans.maintain, for a run without a lease
RemoveCold(j) ==
  /\ j \in PlatformJobs /\ Over(j) /\ \A s \in Slots : slot[s].job # j
  /\ job[j].app # NULL => Named(j) \subseteq {job[j].app}
  /\ app' = Removed(j)
  /\ UNCHANGED <<job, slot, pending, receipts, sweep>>

\* The row goes after the app; one that was made meanwhile, and not recorded, stays.
ForgetLease(s) ==
  /\ Removable(s)
  /\ slot[s].app # NULL => app[slot[s].app].state \notin {"stopped", "started"}
  /\ slot' = [slot EXCEPT ![s] = NoSlot]
  /\ UNCHANGED <<job, app, pending, receipts, sweep>>

---------------------------------------------------------------------------
(* The jobs *)

JobMoves(j, from, to) ==
  /\ job[j].status = from
  /\ job' = [job EXCEPT ![j].status = to]
  /\ UNCHANGED <<slot, app, pending, receipts, sweep>>

End(j) == JobMoves(j, "live", "recent")
Mature(j) == JobMoves(j, "recent", "ended")
Hold(j) == JobMoves(j, "live", "held")

\* A clearance needs the stopped app: isStopped asks Cloud Foundry for it.
Clear(j) ==
  /\ job[j].app # NULL => app[job[j].app].state \in {"stopped", "started"} /\ ~app[job[j].app].busy
  /\ JobMoves(j, "held", IF j \in ApplicationJobs THEN "clearing" ELSE "recent")

TicketsExpire(j) == JobMoves(j, "clearing", "cleared")

\* The runner saves its errored.tfstate after all: the clearance is not valid any more.
LateRecovery(j) == JobMoves(j, "clearing", "held")

Look(a, x) ==
  \/ ConfirmPending(a, x) \/ LeavePending(a, x)
  \/ Admit(a, x) \/ Inspect(a, x) \/ LookAgain(a, x) \/ RecordIntent(a, x)
  \/ ConfirmDeletion(a, x) \/ PassOver(a, x)
  \/ \E ack \in BOOLEAN : RequestDeletion(a, x, ack)

Sweep(a) ==
  \/ TakePending(a) \/ ListPage(a) \/ SweepFails(a) \/ SweepEnds(a)
  \/ \E x \in Apps : Look(a, x)

Environment ==
  \/ \E x \in Apps : Gone(x) \/ Create(x) \/ Record(x) \/ Launch(x) \/ Stops(x) \/ Age(x)
  \/ \E j \in Jobs : Begin(j) \/ End(j) \/ Mature(j) \/ Hold(j) \/ Clear(j) \/ TicketsExpire(j) \/ LateRecovery(j) \/ RemoveCold(j)
  \/ \E s \in Slots : Lease(s) \/ Expire(s) \/ Claim(s) \/ Retire(s) \/ RemoveWarm(s) \/ ForgetLease(s)
  \/ \E j \in Jobs : Bind(j) \/ GiveUp(j) \/ (\E s \in Slots : Reserve(s, j)) \/ \E ack \in BOOLEAN : Assign(j, ack)

Next == (\E a \in Apis : Sweep(a) \/ ApiRestarts(a)) \/ Environment

Spec == Init /\ [][Next]_vars

\* The timer keeps running, the process is not restarted for ever (the end of a sweep on
\* page 1 leaves the same state as a restart and is not excluded), and neither Cloud
\* Foundry nor the database refuses the same request for ever.
FairSpec ==
  /\ Spec
  /\ <>[][\A a \in Apis : ApiRestarts(a) => SweepEnds(a) \/ SweepFails(a)]_vars
  /\ \A x \in Apps : WF_vars(Gone(x))
  /\ \A a \in Apis :
       /\ WF_vars(Sweep(a))
       /\ SF_vars(ListPage(a))
       /\ SF_vars(\E x \in Apps : Inspect(a, x)) /\ SF_vars(\E x \in Apps : LookAgain(a, x))
       /\ SF_vars(\E x \in Apps : RecordIntent(a, x))
       /\ SF_vars(\E x \in Apps : RequestDeletion(a, x, TRUE))
       /\ \A x \in Apps : SF_vars(ConfirmPending(a, x)) /\ SF_vars(Admit(a, x))

---------------------------------------------------------------------------
(* Properties *)

\* What the sweep deletes is stopped, runs nothing and serves no job that is not over,
\* although all of that was looked up in other requests before: the age of a day and
\* the order of the checks make what they saw final.
DeletedAtRest ==
  [][\A x \in Apps : app[x].state # "deleting" /\ app'[x].state = "deleting" =>
       /\ app[x].state = "stopped" /\ ~app[x].busy /\ ~app[x].starting
       /\ \A j \in Jobs : job[j].app = x => job[j].status \in {"ended", "cleared"}]_vars

\* Whether its process ends, its lease expires or an answer of start() is lost: the app of a
\* job that a runner took stays, for isStopped() asks Cloud Foundry for it when somebody
\* clears the job.  Neither the sweep nor the pool takes it away before.
EvidenceKept ==
  \A j \in Jobs :
    LET x == job[j].app IN
    /\ job[j].status \in {"live", "held"} /\ x # NULL
    /\ Kind(x) = "warm" => job[j].ran
    => app[x].state \notin {"deleting", "gone"}

\* docs/plan-execution.md:35: the runners of "`reconciliation_required` cases are retained".
\* Not those whose start failed after record(): the pool retires and removes their lease.
HeldRetained ==
  \A j \in ApplicationJobs :
    job[j].status = "held" /\ job[j].app # NULL => app[job[j].app].state \notin {"deleting", "gone"}

\* An app of another deployment that shares the space is left alone, labelled or not.
ForeignKept == \A x \in Foreign : app[x].state \notin {"deleting", "gone"}

\* Whatever the sweep asked to delete is in the durable queue until it is gone, also
\* after lost answers and restarts.
DeletionIsPending == \A x \in Apps : app[x].state = "deleting" => x \in ToSet(pending)

\* Every deletion that was asked for is confirmed by some later pass.
DeletionsConfirmed == \A x \in Apps : app[x].state = "deleting" ~> x \in receipts

\* An old app of this deployment whose job is over does not stay: deletions that move
\* apps to other pages do not hide it.
RetiredAppsGo ==
  \A x \in Apps :
    (app[x].state = "stopped" /\ app[x].old /\ ~app[x].busy /\ Owner[x] = "here" /\ Eligible(x))
      ~> app[x].state = "gone"

=============================================================================
