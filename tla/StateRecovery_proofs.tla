------------------------ MODULE StateRecovery_proofs ------------------------
(* Theorems about StateRecovery, for every number of proposals and reviewers. *)
EXTENDS StateRecovery, TLAPS

---------------------------------------------------------------------------
(* Types. *)

LEMMA TaskOf ==
  ASSUME NEW t \in Tasks
  PROVE  t = <<t[1], t[2]>> /\ t[1] \in Recoveries /\ t[2] \in Modes
BY DEF Tasks

LEMMA TasksOf ==
  ASSUME NEW n \in Recoveries
  PROVE  <<n, "prepare">> \in Tasks /\ <<n, "commit">> \in Tasks
BY DEF Tasks, Modes

LEMMA TypeInit == Init => TypeOK
<1> SUFFICES ASSUME Init PROVE TypeOK
  OBVIOUS
<1>1. /\ phase \in [Recoveries -> Phases] /\ aged \subseteq Recoveries
      /\ review \in [Recoveries -> Review \cup {NoReview}]
      /\ task \in [Tasks -> Task] /\ intent \in [Recoveries -> SUBSET Steps]
  BY DEF Init, Phases, Task
<1>2. /\ request \in [Reviewers -> Request \cup {NoRequest}] /\ call \subseteq Call
      /\ worker \in [Tasks -> WorkerStates] /\ old \in {"running", "stopped"}
  BY DEF Init, WorkerStates
<1>3. <<"start", 0>> \in Writers
  BY DEF Writers
<1>4. s3 \in [state : State, lock : Locks] /\ cloud \in Cloud
  BY <1>3 DEF Init, State, Locks, Cloud
<1>5. QED
  BY <1>1, <1>2, <1>4 DEF Init, TypeOK

LEMMA ProposeType ==
  ASSUME TypeOK, NEW n \in Recoveries, Propose(n)
  PROVE  TypeOK'
<1>1. CASE RequestRecovery(n)
  BY <1>1 DEF TypeOK, RequestRecovery, Phases
<1>2. CASE Expire(n)
  BY <1>2 DEF TypeOK, Expire
<1>3. CASE BlockAssessment(n)
  BY <1>3 DEF TypeOK, BlockAssessment, Phases
<1>4. QED
  BY <1>1, <1>2, <1>3 DEF Propose

LEMMA LookedType ==
  ASSUME TypeOK, NEW a \in Reviewers, NEW op \in {"begin", "inspect"}, NEW t \in Tasks,
         NEW seen \in Review \cup {NoReview}, NEW released \in BOOLEAN, NEW to \in Phases,
         Looked(a, op, t, seen, released, to)
  PROVE  TypeOK'
<1>1. [op |-> op, task |-> t, pc |-> "looked", seen |-> seen, released |-> released, to |-> to] \in Request
  BY DEF Request
<1>2. request' \in [Reviewers -> Request \cup {NoRequest}]
  BY <1>1 DEF TypeOK, Looked
<1>3. QED
  BY <1>2 DEF TypeOK, Looked, db

LEMMA ReviewerType ==
  ASSUME TypeOK, NEW a \in Reviewers, Reviewer(a)
  PROVE  TypeOK'
<1>1. ASSUME NEW n \in Recoveries, LookToAssess(a, n) PROVE TypeOK'
  <2>1. [original |-> s3.state, lock |-> s3.lock, inventory |-> cloud] \in Review
    BY <1>1 DEF LookToAssess, TypeOK, Review
  <2>2. QED
    BY <1>1, <2>1, LookedType, TasksOf DEF LookToAssess, Phases
<1>2. ASSUME NEW n \in Recoveries, LookToCommit(a, n) PROVE TypeOK'
  <2>1. review[n] \in Review \cup {NoReview}
    BY DEF TypeOK
  <2>2. QED
    BY <1>2, <2>1, LookedType, TasksOf DEF LookToCommit, Phases
<1>3. ASSUME NEW n \in Recoveries, LookToInspect(a, n) PROVE TypeOK'
  <2>1. PICK t \in Tasks : t = LastTask(n)
    BY TasksOf DEF LastTask
  <2>2. task[t].released \in BOOLEAN /\ Concluded(n, t[2], task[t].released) \in Phases
    BY DEF TypeOK, Task, Concluded, Phases
  <2>3. QED
    BY <1>3, <2>1, <2>2, LookedType DEF LookToInspect
<1>4. ASSUME request[a] # NoRequest
      PROVE  /\ request[a] \in Request /\ request[a].task \in Tasks
             /\ request[a].to \in Phases /\ request[a].seen \in Review \cup {NoReview}
             /\ \A pc \in {"begun", "bound"} : [request[a] EXCEPT !.pc = pc] \in Request
  BY <1>4 DEF TypeOK, Request
<1>5. CASE BeginTask(a)
  <2>1. /\ phase' \in [Recoveries -> Phases] /\ review' \in [Recoveries -> Review \cup {NoReview}]
        /\ task' \in [Tasks -> Task]
    BY <1>4, <1>5 DEF BeginTask, TypeOK, Task
  <2>2. request' \in [Reviewers -> Request \cup {NoRequest}]
    BY <1>4, <1>5 DEF BeginTask, TypeOK
  <2>3. QED
    BY <1>5, <2>1, <2>2 DEF BeginTask, TypeOK
<1>6. CASE BindTask(a)
  <2>1. task' \in [Tasks -> Task]
    BY <1>4, <1>6 DEF BindTask, TypeOK, Task
  <2>2. request' \in [Reviewers -> Request \cup {NoRequest}]
    BY <1>4, <1>6 DEF BindTask, TypeOK
  <2>3. QED
    BY <1>6, <2>1, <2>2 DEF BindTask, TypeOK
<1>7. CASE LaunchTask(a)
  BY <1>7 DEF LaunchTask, TypeOK, WorkerStates, db
<1>8. CASE GiveUp(a)
  BY <1>8 DEF GiveUp, TypeOK, db
<1>9. CASE InspectTask(a)
  <2>1. phase' \in [Recoveries -> Phases] /\ task' \in [Tasks -> Task]
    BY <1>4, <1>9 DEF InspectTask, Recorded, TypeOK, Task
  <2>2. QED
    BY <1>9, <2>1 DEF InspectTask, Recorded, TypeOK
<1>10. QED
  BY <1>1, <1>2, <1>3, <1>5, <1>6, <1>7, <1>8, <1>9 DEF Reviewer

LEMMA AsksType ==
  ASSUME TypeOK, NEW t \in Tasks, NEW pc, NEW kind \in {"input", "result"} \cup Steps, NEW to \in Phases,
         NEW then \in WorkerStates, Asks(t, pc, kind, to, then)
  PROVE  TypeOK'
<1>1. [task |-> t, kind |-> kind, to |-> to] \in Call
  BY DEF Call
<1>2. QED
  BY <1>1 DEF TypeOK, Asks, db

LEMMA RunnerType ==
  ASSUME TypeOK, NEW t \in Tasks, Runner(t),
         worker[t] = "locked" => review[t[1]] \in Review
  PROVE  TypeOK'
<1>1. "waiting" \in WorkerStates /\ "ended" \in WorkerStates
  BY DEF WorkerStates
<1>2. CASE AskInput(t)
  BY <1>1, <1>2, AsksType DEF AskInput, Phases
<1>3. CASE AskFence(t)
  <2>1. PICK x \in {<<"ready", "revoke">>, <<"revoked", "unlock">>, <<"unlocked", "publish">>} :
           Asks(t, x[1], x[2], "none", "waiting")
    BY <1>3 DEF AskFence
  <2>2. x[2] \in Steps
    BY DEF Steps
  <2>3. QED
    BY <1>1, <2>1, <2>2, AsksType DEF Phases
<1>4. CASE ReportPrepared(t)
  BY <1>1, <1>4, AsksType DEF ReportPrepared, Phases
<1>5. CASE ReportEnd(t)
  <2>1. PICK to \in Phases, pc \in {"done", "failed"} : Asks(t, pc, "result", to, "ended")
    BY <1>5 DEF ReportEnd, Phases
  <2>2. QED
    BY <1>1, <2>1, AsksType
<1>6. CASE ForceUnlock(t)
  BY <1>6 DEF ForceUnlock, TypeOK, WorkerStates, Locks, db
<1>7. CASE PushLocks(t)
  BY <1>7 DEF PushLocks, TypeOK, WorkerStates, Locks, db
<1>8. CASE PushWrites(t)
  <2>1. t[1] \in Recoveries /\ review[t[1]].original.serial \in Nat
    BY <1>8, TaskOf DEF PushWrites, Review, State
  <2>2. Candidate(t[1]) \in State
    BY <2>1 DEF Candidate, State, Writers
  <2>3. s3' \in [state : State, lock : Locks]
    BY <1>8, <2>2 DEF PushWrites, TypeOK
  <2>4. QED
    BY <1>8, <2>1, <2>3 DEF PushWrites, TypeOK, WorkerStates, db
<1>9. CASE PushEnds(t)
  BY <1>9 DEF PushEnds, TypeOK, WorkerStates, Locks, db
<1>10. CASE WorkerFails(t) \/ WorkerDies(t)
  BY <1>10 DEF WorkerFails, WorkerDies, TypeOK, WorkerStates, db
<1>11. QED
  BY <1>2, <1>3, <1>4, <1>5, <1>6, <1>7, <1>8, <1>9, <1>10 DEF Runner

LEMMA BrokerType ==
  ASSUME TypeOK, NEW c \in call, Broker(c)
  PROVE  TypeOK'
<1>1. c \in Call /\ c.task \in Tasks /\ c.task[1] \in Recoveries
  BY TaskOf DEF TypeOK, Call
<1>2. ASSUME NEW then \in WorkerStates, Answered(c, then)
      PROVE  call' \subseteq Call /\ worker' \in [Tasks -> WorkerStates]
  BY <1>2 DEF TypeOK, Answered
<1>3. CASE ReleaseInput(c)
  <2>1. call' \subseteq Call /\ worker' \in [Tasks -> WorkerStates]
    BY <1>2, <1>3 DEF ReleaseInput, WorkerStates
  <2>2. task' \in [Tasks -> Task]
    BY <1>1, <1>3 DEF ReleaseInput, TypeOK, Task
  <2>3. QED
    BY <1>3, <2>1, <2>2 DEF ReleaseInput, TypeOK
<1>4. CASE Fence(c)
  <2>1. call' \subseteq Call /\ worker' \in [Tasks -> WorkerStates]
    <3>1. CASE c.kind = "revoke"
      <4>1. [c EXCEPT !.kind = "revoking"] \in Call
        BY <1>1 DEF Call
      <4>2. QED
        BY <1>4, <3>1, <4>1 DEF Fence, TypeOK
    <3>2. CASE c.kind # "revoke"
      BY <1>2, <1>4, <3>2 DEF Fence, WorkerStates
    <3>3. QED
      BY <3>1, <3>2
  <2>2. intent' \in [Recoveries -> SUBSET Steps]
    BY <1>1, <1>4 DEF Fence, TypeOK
  <2>3. QED
    BY <1>4, <2>1, <2>2 DEF Fence, TypeOK
<1>5. CASE RevokeKey(c)
  <2>1. call' \subseteq Call /\ worker' \in [Tasks -> WorkerStates]
    BY <1>2, <1>5 DEF RevokeKey, WorkerStates
  <2>2. cloud' \in Cloud
    BY <1>5 DEF RevokeKey, TypeOK, Cloud
  <2>3. QED
    BY <1>5, <2>1, <2>2 DEF RevokeKey, TypeOK, db
<1>6. CASE CallFails(c)
  <2>1. call' \subseteq Call /\ worker' \in [Tasks -> WorkerStates]
    BY <1>2, <1>6 DEF CallFails, WorkerStates
  <2>2. QED
    BY <1>6, <2>1 DEF CallFails, TypeOK, db
<1>7. CASE FinishTask(c)
  <2>1. phase' \in [Recoveries -> Phases] /\ task' \in [Tasks -> Task]
    BY <1>1, <1>7 DEF FinishTask, Recorded, TypeOK, Task, Call
  <2>2. QED
    BY <1>7, <2>1 DEF FinishTask, Recorded, TypeOK
<1>8. QED
  BY <1>3, <1>4, <1>5, <1>6, <1>7 DEF Broker

LEMMA OthersType ==
  ASSUME TypeOK, Others
  PROVE  TypeOK'
<1>1. CASE OldWrites
  <2>1. [by |-> <<"old", 0>>, serial |-> s3.state.serial + 1] \in State
    BY DEF TypeOK, State, Writers
  <2>2. s3' = [s3 EXCEPT !.state = [by |-> <<"old", 0>>, serial |-> s3.state.serial + 1]]
    BY <1>1 DEF OldWrites
  <2>3. QED
    BY <1>1, <2>1, <2>2 DEF OldWrites, TypeOK, db
<1>2. CASE OldEnds \/ UserLocks \/ UserUnlocks
  BY <1>2 DEF OldEnds, UserLocks, UserUnlocks, TypeOK, Locks, db
<1>3. CASE UserEnds
  <2>1. [by |-> <<"user", 0>>, serial |-> s3.state.serial + 1] \in State
    BY DEF TypeOK, State, Writers
  <2>2. QED
    BY <1>3, <2>1 DEF UserEnds, TypeOK, Locks, db
<1>4. CASE CloudChanges
  <2>1. cloud.edition + 1 \in Nat
    BY DEF TypeOK, Cloud
  <2>2. PICK edition \in Nat, key \in BOOLEAN :
           cloud' = [cloud EXCEPT !.edition = edition] \/ cloud' = [cloud EXCEPT !.key = key]
    BY <1>4, <2>1 DEF CloudChanges
  <2>3. QED
    BY <1>4, <2>2 DEF CloudChanges, TypeOK, Cloud, db
<1>5. CASE NewJob \/ ClearByHand
  BY <1>5 DEF NewJob, ClearByHand, TypeOK
<1>6. QED
  BY <1>1, <1>2, <1>3, <1>4, <1>5 DEF Others

---------------------------------------------------------------------------
(* The inductive invariant. *)

\* State is still the reviewed one, or has moved to a higher serial.
Kept(reviewed) ==
    /\ reviewed \in Review
    /\ s3.state = reviewed.original \/ s3.state.serial > reviewed.original.serial

\* The phase of a proposal tells which of its two tasks was made and is not over.
TaskOK(n) ==
    LET prepare == task[<<n, "prepare">>]  commit == task[<<n, "commit">>] IN
    /\ phase[n] \in {"none", "requested"} => ~prepare.made
    /\ phase[n] = "prepared" \/ commit.made => prepare.made
    /\ phase[n] = "reconciliation-required" => commit.made
    /\ phase[n] = "assessing" <=> prepare.made /\ ~prepare.finished
    /\ phase[n] \in {"none", "requested", "assessing", "prepared"} => ~commit.made
    /\ phase[n] = "committing" <=> commit.made /\ ~commit.finished
    /\ phase[n] = "blocked" => ~StateIntent(n)
    /\ intent[n] # {} => commit.released
    /\ n \in pushed => "publish" \in intent[n]
    /\ "publish" \in intent[n] => "unlock" \in intent[n]
    /\ StateIntent(n) => RevocationsAbsent(n)
    /\ prepare.made => Kept(review[n])

TaskInv == \A n \in Recoveries : TaskOK(n)

OneOpen == \A m, n \in Recoveries : phase[m] \in Open /\ phase[n] \in Open => m = n

\* A worker that may touch State or its lock has the intent for it on record.
WorkerOK(t) ==
    /\ task[t].released => task[t].made /\ worker[t] # "none"
    /\ worker[t] # "none" => task[t].made /\ task[t].app
    /\ task[t].app \/ task[t].finished => task[t].made
    /\ worker[t] \in {"unlocking", "unlocked"} => t[2] = "commit" /\ "unlock" \in intent[t[1]]
    /\ worker[t] \in {"pushing", "locked", "written"} => t[2] = "commit" /\ "publish" \in intent[t[1]]

WorkerInv == \A t \in Tasks : WorkerOK(t)

\* What the API has seen before the transaction of a runner's request.
CallOK(c) ==
    /\ task[c.task].made /\ worker[c.task] # "none"
    /\ c.kind \in Steps => c.task[2] = "commit"
    /\ c.kind \in {"unlock", "publish"} => RevocationsAbsent(c.task[1])
    /\ c.kind = "result" =>
          /\ worker[c.task] = "ended"
          /\ c.to \in IF c.task[2] = "prepare" THEN {"prepared", "blocked"}
                      ELSE {"blocked", "committed", "reconciliation-required"}
          /\ c.to = "committed" => c.task[1] \in pushed

CallInv == \A c \in call : CallOK(c)

\* What a reviewer's request has seen before its last transaction.
RequestOK(a) == request[a] # NoRequest =>
    LET q == request[a]  n == q.task[1] IN
    /\ q.op = "begin" =>
          /\ q.to = IF q.task[2] = "prepare" THEN "assessing" ELSE "committing"
          /\ Kept(q.seen)
          /\ q.task[2] = "commit" => task[<<n, "prepare">>].made /\ q.seen = review[n]
    /\ q.op = "inspect" =>
          /\ q.pc = "looked"
          /\ q.to \in {"blocked", "committed", "reconciliation-required"}
          /\ q.to = "committed" => n \in pushed /\ worker[q.task] = "ended"
    /\ q.pc \in {"begun", "bound"} => task[q.task].made
    /\ q.pc = "bound" =>
          /\ task[q.task].app /\ worker[q.task] = "none"
          /\ \A b \in Reviewers \ {a} :
                request[b] # NoRequest /\ request[b].pc = "bound" => request[b].task # q.task

RequestInv == \A a \in Reviewers : RequestOK(a)

\* Whose candidate State is, was pushed.
PushedInv == \A n \in Recoveries : s3.state.by = <<"push", n>> => n \in pushed

IInv ==
    /\ TypeOK /\ TaskInv /\ OneOpen /\ WorkerInv /\ CallInv /\ RequestInv /\ PushedInv
    /\ CommittedIsPublished /\ NoWriteBesideJob

\* What every step keeps: State moves to higher serials only, the key does not come back,
\* what was made stays made, a worker is launched once, and what was reviewed stays.
Onward ==
    /\ s3'.state = s3.state \/ s3'.state.serial > s3.state.serial
    /\ cloud'.key => cloud.key
    /\ pushed \subseteq pushed'
    /\ \A t \in Tasks :
          /\ task[t].made => task'[t].made
          /\ task[t].app => task'[t].app
          /\ task[t].released => task'[t].released
          /\ worker[t] # "none" => worker'[t] # "none"
          /\ worker[t] = "ended" => worker'[t] = "ended"
    /\ \A n \in Recoveries :
          /\ task[<<n, "prepare">>].made => review'[n] = review[n]
          /\ intent[n] \subseteq intent'[n]

\* The requests of a runner, and where they leave it.
Requests(t) == AskInput(t) \/ AskFence(t) \/ ReportPrepared(t) \/ ReportEnd(t)

LEMMA RequestsAre ==
  ASSUME NEW t, Requests(t)
  PROVE  /\ worker[t] \in {"started", "ready", "revoked", "unlocked", "done", "failed"}
         /\ \/ worker' = [worker EXCEPT ![t] = "waiting"]
            \/ worker' = [worker EXCEPT ![t] = "ended"]
         /\ UNCHANGED <<db, request, old, s3, cloud, pushed>>
<1>1. CASE AskInput(t) \/ ReportPrepared(t)
  BY <1>1 DEF AskInput, ReportPrepared, Asks
<1>2. CASE AskFence(t)
  <2>1. PICK x \in {<<"ready", "revoke">>, <<"revoked", "unlock">>, <<"unlocked", "publish">>} :
           Asks(t, x[1], x[2], "none", "waiting")
    BY <1>2 DEF AskFence
  <2>2. x[1] \in {"ready", "revoked", "unlocked"}
    OBVIOUS
  <2>3. QED
    BY <2>1, <2>2 DEF Asks
<1>3. CASE ReportEnd(t)
  BY <1>3 DEF ReportEnd, Asks
<1>4. QED
  BY <1>1, <1>2, <1>3 DEF Requests

\* A worker that pushes has a review to push for.
LEMMA Reviewed ==
  ASSUME TaskInv, WorkerInv, NEW t \in Tasks, worker[t] \in {"pushing", "locked", "written"}
  PROVE  /\ t = <<t[1], "commit">> /\ t[1] \in Recoveries /\ "publish" \in intent[t[1]]
         /\ Kept(review[t[1]]) /\ review[t[1]].original.serial \in Nat
         /\ Candidate(t[1]) \in State /\ Candidate(t[1]).serial = review[t[1]].original.serial + 1
<1>1. t = <<t[1], "commit">> /\ t[1] \in Recoveries /\ "publish" \in intent[t[1]]
  BY TaskOf DEF WorkerInv, WorkerOK
<1>2. task[t].released
  BY <1>1 DEF TaskInv, TaskOK
<1>3. task[t].made
  BY <1>2 DEF WorkerInv, WorkerOK
<1>4. Kept(review[t[1]])
  BY <1>1, <1>3 DEF TaskInv, TaskOK
<1>5. review[t[1]].original.serial \in Nat
  BY <1>4 DEF Kept, Review, State
<1>6. QED
  BY <1>1, <1>4, <1>5 DEF Candidate, State, Writers

LEMMA OnwardStep ==
  ASSUME IInv, [Next]_vars
  PROVE  Onward
<1> USE DEF Onward
<1>1. /\ phase \in [Recoveries -> Phases] /\ review \in [Recoveries -> Review \cup {NoReview}]
      /\ task \in [Tasks -> Task] /\ intent \in [Recoveries -> SUBSET Steps]
      /\ worker \in [Tasks -> WorkerStates]
      /\ s3 \in [state : State, lock : Locks] /\ cloud \in Cloud
      /\ s3.state.serial \in Nat
  BY DEF IInv, TypeOK, State
<1>2. TaskInv /\ WorkerInv /\ RequestInv
  BY DEF IInv
<1>3. ASSUME NEW a \in Reviewers, Reviewer(a) PROVE Onward
  <2>1. request[a] # NoRequest => request[a].task \in Tasks /\ request[a].task[1] \in Recoveries
        /\ request[a].op \in {"begin", "inspect"}
        /\ request[a].task[2] \in {"prepare", "commit"}
        /\ request[a].task = <<request[a].task[1], request[a].task[2]>>
    BY TaskOf DEF IInv, TypeOK, Request, Modes
  <2>2. CASE BeginTask(a)
    <3>1. ASSUME NEW n \in Recoveries, task[<<n, "prepare">>].made PROVE review'[n] = review[n]
      <4>1. CASE request[a].task[1] # n
        BY <1>1, <2>2, <4>1 DEF BeginTask
      <4>2. CASE request[a].task[1] = n /\ request[a].task[2] = "prepare"
        BY <1>2, <2>2, <3>1, <4>2 DEF BeginTask, TaskInv, TaskOK
      <4>3. CASE request[a].task[1] = n /\ request[a].task[2] = "commit"
        BY <1>1, <1>2, <2>2, <4>3 DEF BeginTask, RequestInv, RequestOK
      <4>4. QED
        BY <2>1, <2>2, <4>1, <4>2, <4>3 DEF BeginTask
    <3>2. QED
      BY <1>1, <2>2, <3>1 DEF BeginTask, Task
  <2>3. CASE BindTask(a)
    BY <1>1, <2>1, <2>3 DEF BindTask, Task
  <2>4. CASE LaunchTask(a)
    <3>1. worker[request[a].task] = "none" /\ request[a].task \in Tasks
      BY <1>2, <2>1, <2>4 DEF LaunchTask, RequestInv, RequestOK
    <3>2. QED
      BY <1>1, <2>4, <3>1 DEF LaunchTask, db
  <2>5. CASE InspectTask(a)
    BY <1>1, <2>1, <2>5 DEF InspectTask, Recorded, Task
  <2>6. CASE UNCHANGED <<db, worker, s3, cloud, pushed>>
    BY <2>6 DEF db
  <2>7. QED
    BY <1>3, <2>2, <2>3, <2>4, <2>5, <2>6 DEF Reviewer, LookToAssess, LookToCommit, LookToInspect, Looked, GiveUp
<1>4. ASSUME NEW t \in Tasks, Runner(t) PROVE Onward
  <2>1. CASE Requests(t)
    BY <1>1, <2>1, RequestsAre DEF db
  <2>2. CASE ForceUnlock(t) \/ PushLocks(t) \/ PushEnds(t)
    BY <1>1, <2>2 DEF ForceUnlock, PushLocks, PushEnds, db
  <2>3. CASE PushWrites(t)
    <3>1. Candidate(t[1]).serial \in Nat
      BY <1>2, <2>3, Reviewed DEF PushWrites
    <3>2. s3'.state = Candidate(t[1]) /\ s3.state.serial < Candidate(t[1]).serial
      BY <1>1, <2>3 DEF PushWrites
    <3>3. s3'.state.serial > s3.state.serial
      BY <1>1, <3>1, <3>2
    <3>4. QED
      BY <1>1, <2>3, <3>3 DEF PushWrites, db
  <2>4. CASE WorkerFails(t) \/ WorkerDies(t)
    BY <1>1, <2>4 DEF WorkerFails, WorkerDies, db
  <2>5. QED
    BY <1>4, <2>1, <2>2, <2>3, <2>4 DEF Runner, Requests
<1>5. ASSUME NEW c \in call, Broker(c) PROVE Onward
  <2>1. c.task \in Tasks /\ c.task[1] \in Recoveries
    BY TaskOf DEF IInv, TypeOK, Call
  <2>2. ASSUME NEW then \in WorkerStates \ {"none"}, Answered(c, then)
        PROVE  \A t \in Tasks : /\ worker[t] # "none" => worker'[t] # "none"
                                /\ worker[t] = "ended" => worker'[t] = "ended"
    BY <1>1, <2>1, <2>2 DEF Answered
  <2>3. CASE ReleaseInput(c)
    BY <1>1, <2>1, <2>2, <2>3 DEF ReleaseInput, Task, WorkerStates
  <2>4. CASE Fence(c)
    BY <1>1, <2>1, <2>2, <2>4 DEF Fence, WorkerStates
  <2>5. CASE RevokeKey(c)
    BY <1>1, <2>1, <2>2, <2>5 DEF RevokeKey, Cloud, WorkerStates, db
  <2>6. CASE CallFails(c)
    BY <1>1, <2>1, <2>2, <2>6 DEF CallFails, WorkerStates, db
  <2>7. CASE FinishTask(c)
    BY <1>1, <2>1, <2>7 DEF FinishTask, Recorded, Task
  <2>8. QED
    BY <1>5, <2>3, <2>4, <2>5, <2>6, <2>7 DEF Broker
<1>6. CASE Others
  <2>1. CASE OldWrites
    <3>1. s3'.state.serial = s3.state.serial + 1
      BY <1>1, <2>1 DEF OldWrites, State
    <3>2. QED
      BY <1>1, <2>1, <3>1 DEF OldWrites, db
  <2>2. CASE UserEnds
    BY <1>1, <2>2 DEF UserEnds, State, db
  <2>3. CASE OldEnds \/ UserLocks \/ UserUnlocks \/ CloudChanges
    BY <1>1, <2>3 DEF OldEnds, UserLocks, UserUnlocks, CloudChanges, Cloud, db
  <2>4. CASE NewJob \/ ClearByHand
    BY <2>4 DEF NewJob, ClearByHand
  <2>5. QED
    BY <1>6, <2>1, <2>2, <2>3, <2>4 DEF Others
<1>7. ASSUME NEW n \in Recoveries, Propose(n) PROVE Onward
  BY <1>7 DEF Propose, RequestRecovery, Expire, BlockAssessment
<1>8. CASE UNCHANGED vars
  BY <1>8 DEF vars, db
<1>9. QED
  BY <1>3, <1>4, <1>5, <1>6, <1>7, <1>8 DEF Next

LEMMA TypeStep ==
  ASSUME IInv, [Next]_vars
  PROVE  TypeOK'
<1>1. ASSUME NEW t \in Tasks, Runner(t) PROVE TypeOK'
  <2>1. worker[t] = "locked" => review[t[1]] \in Review
    BY Reviewed DEF IInv, Kept
  <2>2. QED
    BY <1>1, <2>1, RunnerType DEF IInv
<1>2. CASE UNCHANGED vars
  BY <1>2 DEF IInv, TypeOK, vars, db
<1>3. QED
  BY <1>1, <1>2, ProposeType, ReviewerType, BrokerType, OthersType DEF IInv, Next

---------------------------------------------------------------------------
(* Who changes what. *)

LEMMA CallsOf ==
  ASSUME [Next]_vars, NEW c \in call', c \notin call
  PROVE  \/ \E t \in Tasks : Requests(t)
         \/ \E d \in call : Fence(d)
<1>1. ASSUME NEW a \in Reviewers, Reviewer(a) PROVE FALSE
  BY <1>1 DEF Reviewer, LookToAssess, LookToCommit, LookToInspect, Looked, BeginTask, BindTask, LaunchTask,
     GiveUp, InspectTask
<1>2. ASSUME NEW t \in Tasks, ForceUnlock(t) \/ PushLocks(t) \/ PushWrites(t) \/ PushEnds(t)
                              \/ WorkerFails(t) \/ WorkerDies(t)
      PROVE  FALSE
  BY <1>2 DEF ForceUnlock, PushLocks, PushWrites, PushEnds, WorkerFails, WorkerDies
<1>3. ASSUME NEW d \in call, ReleaseInput(d) \/ RevokeKey(d) \/ CallFails(d) \/ FinishTask(d) PROVE FALSE
  BY <1>3 DEF ReleaseInput, RevokeKey, CallFails, FinishTask, Answered
<1>4. ASSUME NEW n \in Recoveries, Propose(n) PROVE FALSE
  BY <1>4 DEF Propose, RequestRecovery, Expire, BlockAssessment
<1>5. CASE Others
  BY <1>5 DEF Others, OldWrites, OldEnds, UserLocks, UserEnds, UserUnlocks, CloudChanges, NewJob, ClearByHand
<1>6. QED
  BY <1>1, <1>2, <1>3, <1>4, <1>5 DEF Next, Runner, Requests, Broker, vars

LEMMA RequestsOf ==
  ASSUME [Next]_vars, request' # request
  PROVE  \E a \in Reviewers : Reviewer(a)
<1>1. ASSUME NEW t \in Tasks, Runner(t) PROVE FALSE
  BY <1>1, RequestsAre DEF Runner, Requests, ForceUnlock, PushLocks, PushWrites, PushEnds, WorkerFails, WorkerDies
<1>2. ASSUME NEW d \in call, Broker(d) PROVE FALSE
  BY <1>2 DEF Broker, ReleaseInput, Fence, RevokeKey, CallFails, FinishTask
<1>3. ASSUME NEW n \in Recoveries, Propose(n) PROVE FALSE
  BY <1>3 DEF Propose, RequestRecovery, Expire, BlockAssessment
<1>4. CASE Others
  BY <1>4 DEF Others, OldWrites, OldEnds, UserLocks, UserEnds, UserUnlocks, CloudChanges, NewJob, ClearByHand
<1>5. QED
  BY <1>1, <1>2, <1>3, <1>4 DEF Next, vars

\* Only LaunchTask starts a worker.
LEMMA WorkerStarts ==
  ASSUME IInv, [Next]_vars, NEW t \in Tasks, worker[t] = "none", worker'[t] # "none"
  PROVE  \E a \in Reviewers : LaunchTask(a) /\ request[a].task = t
<1>1. worker \in [Tasks -> WorkerStates]
  BY DEF IInv, TypeOK
<1>2. ASSUME NEW a \in Reviewers, Reviewer(a), ~LaunchTask(a) PROVE FALSE
  BY <1>2 DEF Reviewer, LookToAssess, LookToCommit, LookToInspect, Looked, BeginTask, BindTask, GiveUp, InspectTask
<1>3. ASSUME NEW a \in Reviewers, LaunchTask(a) PROVE request[a].task = t
  BY <1>1, <1>3 DEF LaunchTask
<1>4. ASSUME NEW u \in Tasks, Runner(u) PROVE FALSE
  <2>1. CASE Requests(u)
    BY <1>1, <2>1, RequestsAre
  <2>2. QED
    BY <1>1, <1>4, <2>1
    DEF Runner, Requests, ForceUnlock, PushLocks, PushWrites, PushEnds, WorkerFails, WorkerDies
<1>5. ASSUME NEW d \in call, Broker(d) PROVE FALSE
  <2>1. ASSUME NEW then, Answered(d, then) PROVE FALSE
    BY <1>1, <2>1 DEF Answered
  <2>2. CASE Fence(d)
    BY <2>1, <2>2 DEF Fence
  <2>3. CASE ReleaseInput(d) \/ FinishTask(d)
    BY <2>1, <2>3 DEF ReleaseInput, FinishTask
  <2>4. CASE RevokeKey(d) \/ CallFails(d)
    BY <2>1, <2>4 DEF RevokeKey, CallFails
  <2>5. QED
    BY <1>5, <2>2, <2>3, <2>4 DEF Broker
<1>6. ASSUME NEW n \in Recoveries, Propose(n) PROVE FALSE
  BY <1>6 DEF Propose, RequestRecovery, Expire, BlockAssessment
<1>7. CASE Others
  BY <1>7 DEF Others, OldWrites, OldEnds, UserLocks, UserEnds, UserUnlocks, CloudChanges, NewJob, ClearByHand
<1>8. QED
  BY <1>2, <1>3, <1>4, <1>5, <1>6, <1>7 DEF Next, vars

---------------------------------------------------------------------------
(* The steps, one invariant at a time. *)

LEMMA KeptOn ==
  ASSUME TypeOK, TypeOK', Onward
  PROVE  \A r : Kept(r) => Kept(r)'
<1>1. s3.state.serial \in Nat /\ s3'.state.serial \in Nat
  BY DEF TypeOK, State
<1>2. \A r \in Review : r.original.serial \in Nat
  BY DEF Review, State
<1>3. QED
  BY <1>1, <1>2 DEF Kept, Onward

\* What was reviewed stays, and so does what follows from it.
LEMMA ReviewStays ==
  ASSUME TypeOK, TypeOK', Onward, TaskInv, NEW n \in Recoveries, task[<<n, "prepare">>].made
  PROVE  /\ review'[n] = review[n]
         /\ Kept(review[n])'
         /\ RevocationsAbsent(n) => RevocationsAbsent(n)'
<1>1. review'[n] = review[n]
  BY DEF Onward
<1>2. Kept(review[n])
  BY DEF TaskInv, TaskOK
<1>3. Kept(review[n])'
  BY <1>1, <1>2, KeptOn DEF Kept
<1>4. QED
  BY <1>1, <1>3 DEF Onward, RevocationsAbsent

LEMMA TicketMade ==
  ASSUME TaskInv, NEW t \in Tasks, TicketOpen(t)
  PROVE  task[t].made
BY TaskOf DEF TaskInv, TaskOK, TicketOpen, Modes

LEMMA CallStep ==
  ASSUME IInv, [Next]_vars
  PROVE  CallInv'
<1>1. /\ TypeOK /\ TypeOK' /\ Onward /\ TaskInv /\ CallInv /\ PushedInv
  BY TypeStep, OnwardStep DEF IInv
<1>2. SUFFICES ASSUME NEW c \in call' PROVE CallOK(c)'
  BY DEF CallInv
<1>3. c \in Call /\ c.task \in Tasks /\ c.task[1] \in Recoveries /\ c.task = <<c.task[1], c.task[2]>>
  BY <1>1, TaskOf DEF TypeOK, Call
<1>4. CASE c \in call
  <2>1. CallOK(c)
    BY <1>1, <1>4 DEF CallInv
  <2>2. c.task[2] = "commit" /\ RevocationsAbsent(c.task[1]) => RevocationsAbsent(c.task[1])'
    <3>1. c.task[2] = "commit" => task[<<c.task[1], "prepare">>].made
      BY <1>1, <1>3, <2>1 DEF CallOK, TaskInv, TaskOK
    <3>2. QED
      BY <1>1, <1>3, <3>1, ReviewStays
  <2>3. QED
    BY <1>1, <1>3, <2>1, <2>2 DEF CallOK, Onward, Steps
<1>5. ASSUME NEW t \in Tasks, Requests(t), c \notin call PROVE CallOK(c)'
  <2>1. /\ UNCHANGED <<db, cloud, pushed>>
        /\ worker \in [Tasks -> WorkerStates] /\ worker'[t] # "none"
    BY <1>1, <1>5, RequestsAre DEF TypeOK
  <2>2. CASE AskInput(t)
    <3>1. c = [task |-> t, kind |-> "input", to |-> "none"] /\ TicketOpen(t)
      BY <1>5, <2>2 DEF AskInput, Asks
    <3>2. QED
      BY <1>1, <2>1, <3>1, TicketMade DEF CallOK, Steps, db
  <2>3. CASE AskFence(t)
    <3>1. PICK x \in {<<"ready", "revoke">>, <<"revoked", "unlock">>, <<"unlocked", "publish">>} :
             t[2] = "commit" /\ Asks(t, x[1], x[2], "none", "waiting") /\ FenceLooks(t[1], x[2])
      BY <2>3 DEF AskFence
    <3>2. c = [task |-> t, kind |-> x[2], to |-> "none"] /\ TicketOpen(t)
      BY <1>5, <3>1 DEF Asks
    <3>3. x[2] # "revoke" => RevocationsAbsent(t[1])'
      BY <2>1, <3>1 DEF FenceLooks, RevocationsAbsent, db
    <3>4. x[2] \in Steps
      BY DEF Steps
    <3>5. QED
      BY <1>1, <2>1, <3>1, <3>2, <3>3, <3>4, TicketMade DEF CallOK, Steps, db
  <2>4. CASE ReportPrepared(t)
    <3>1. /\ c = [task |-> t, kind |-> "result", to |-> "prepared"] /\ TicketOpen(t)
          /\ t[2] = "prepare" /\ worker'[t] = "ended"
      BY <1>5, <2>1, <2>4 DEF ReportPrepared, Asks
    <3>2. QED
      BY <1>1, <2>1, <3>1, TicketMade DEF CallOK, Steps, db
  <2>5. CASE ReportEnd(t)
    <3>1. PICK pc \in {"done", "failed"} :
             Asks(t, pc, "result", IF t[2] = "prepare" \/ ~task[t].released THEN "blocked"
                  ELSE IF Published(t[1]) THEN "committed" ELSE "reconciliation-required", "ended")
      BY <2>5 DEF ReportEnd
    <3>2. /\ c = [task |-> t, kind |-> "result", to |-> c.to] /\ TicketOpen(t) /\ worker'[t] = "ended"
          /\ c.to \in {"blocked", "committed", "reconciliation-required"}
          /\ t[2] = "prepare" => c.to = "blocked"
          /\ c.to = "committed" => Published(t[1])
      BY <1>5, <2>1, <3>1 DEF Asks
    <3>3. c.to = "committed" => t[1] \in pushed
      BY <1>1, <3>2, TaskOf DEF Published, PushedInv
    <3>4. QED
      BY <1>1, <1>3, <2>1, <3>2, <3>3, TicketMade DEF CallOK, Steps, db
  <2>6. QED
    BY <1>5, <2>2, <2>3, <2>4, <2>5 DEF Requests
<1>6. ASSUME NEW d \in call, Fence(d), c \notin call PROVE CallOK(c)'
  <2>1. c = [d EXCEPT !.kind = "revoking"] /\ d.task \in Tasks /\ d \in Call
    BY <1>1, <1>6 DEF Fence, Answered, TypeOK, Call
  <2>2. c.task = d.task /\ c.kind = "revoking"
    BY <2>1 DEF Call
  <2>3. CallOK(d)
    BY <1>1 DEF CallInv
  <2>4. QED
    BY <1>1, <2>1, <2>2, <2>3 DEF CallOK, Onward, Steps
<1>7. QED
  BY <1>4, <1>5, <1>6, CallsOf

LEMMA RequestChanges ==
  ASSUME TypeOK, [Next]_vars, NEW a \in Reviewers, request'[a] # request[a]
  PROVE  Reviewer(a)
<1>1. PICK b \in Reviewers : Reviewer(b)
  BY RequestsOf
<1>2. request \in [Reviewers -> Request \cup {NoRequest}]
  BY DEF TypeOK
<1>3. b = a
  BY <1>1, <1>2 DEF Reviewer, LookToAssess, LookToCommit, LookToInspect, Looked, BeginTask, BindTask, LaunchTask,
     GiveUp, InspectTask
<1>4. QED
  BY <1>1, <1>3

\* Only BindTask binds a request.
LEMMA Binds ==
  ASSUME TypeOK, [Next]_vars, NEW a \in Reviewers, request'[a] # request[a],
         request'[a] # NoRequest, request'[a].pc = "bound"
  PROVE  BindTask(a) /\ request'[a].task = request[a].task
<1>1. Reviewer(a) /\ request \in [Reviewers -> Request \cup {NoRequest}]
  BY RequestChanges DEF TypeOK
<1>2. request[a] # NoRequest => [request[a] EXCEPT !.pc = "begun"].pc = "begun"
  BY <1>1 DEF Request
<1>3. ~BeginTask(a) /\ ~LaunchTask(a) /\ ~GiveUp(a) /\ ~InspectTask(a)
  <2>1. ~LaunchTask(a) /\ ~GiveUp(a) /\ ~InspectTask(a)
    BY <1>1 DEF LaunchTask, GiveUp, InspectTask
  <2>2. BeginTask(a) => request[a] # NoRequest /\ request'[a] = [request[a] EXCEPT !.pc = "begun"]
    BY <1>1 DEF BeginTask
  <2>3. QED
    BY <1>2, <2>1, <2>2
<1>4. ASSUME NEW n \in Recoveries, LookToAssess(a, n) \/ LookToCommit(a, n) \/ LookToInspect(a, n) PROVE FALSE
  <2>1. PICK op, t, seen, released, to : Looked(a, op, t, seen, released, to)
    BY <1>4 DEF LookToAssess, LookToCommit, LookToInspect
  <2>2. request'[a] = [op |-> op, task |-> t, pc |-> "looked", seen |-> seen, released |-> released, to |-> to]
    BY <1>1, <2>1 DEF Looked
  <2>3. request'[a].pc = "looked"
    BY <2>2
  <2>4. QED
    BY <2>3
<1>5. BindTask(a)
  BY <1>1, <1>3, <1>4 DEF Reviewer
<1>6. QED
  BY <1>1, <1>5 DEF BindTask, Request

\* A request that goes on unchanged.
LEMMA RequestKept ==
  ASSUME IInv, [Next]_vars, NEW a \in Reviewers, request'[a] = request[a], request[a] # NoRequest
  PROVE  RequestOK(a)'
<1>1. TypeOK /\ TypeOK' /\ Onward /\ TaskInv /\ RequestInv /\ RequestOK(a)
  BY TypeStep, OnwardStep DEF IInv, RequestInv
<1> DEFINE q == request[a]
<1>2. /\ q \in Request /\ q.task \in Tasks /\ q.task[1] \in Recoveries
      /\ q.task = <<q.task[1], q.task[2]>>
  BY <1>1, TaskOf DEF TypeOK, Request
<1>3. q.op = "begin" => Kept(q.seen)'
  BY <1>1, KeptOn DEF RequestOK, Kept
<1>4. q.op = "begin" /\ q.task[2] = "commit" =>
          task'[<<q.task[1], "prepare">>].made /\ q.seen = review'[q.task[1]]
  BY <1>1, <1>2, TasksOf DEF RequestOK, Onward
<1>5. q.op = "inspect" /\ q.to = "committed" => q.task[1] \in pushed' /\ worker'[q.task] = "ended"
  BY <1>1, <1>2 DEF RequestOK, Onward
<1>6. q.pc \in {"begun", "bound"} => task'[q.task].made
  BY <1>1, <1>2 DEF RequestOK, Onward
<1>7. CASE q.pc = "bound"
  <2>1. task'[q.task].app
    BY <1>1, <1>2, <1>7 DEF RequestOK, Onward
  <2>2. worker'[q.task] = "none"
    <3>1. SUFFICES ASSUME worker'[q.task] # "none" PROVE FALSE
      OBVIOUS
    <3>2. worker[q.task] = "none"
      BY <1>1, <1>7 DEF RequestOK
    <3>3. PICK b \in Reviewers : LaunchTask(b) /\ request[b].task = q.task
      BY <1>2, <3>1, <3>2, WorkerStarts
    <3>4. b # a
      BY <1>1, <3>3 DEF LaunchTask, TypeOK
    <3>5. QED
      BY <1>1, <1>7, <3>3, <3>4 DEF RequestOK, LaunchTask
  <2>3. ASSUME NEW b \in Reviewers \ {a}, request'[b] # NoRequest, request'[b].pc = "bound"
        PROVE  request'[b].task # q.task
    <3>1. CASE request'[b] = request[b]
      BY <1>1, <1>7, <2>3, <3>1 DEF RequestOK
    <3>2. CASE request'[b] # request[b]
      <4>1. BindTask(b) /\ request'[b].task = request[b].task
        BY <1>1, <2>3, <3>2, Binds
      <4>2. QED
        BY <1>1, <1>7, <4>1 DEF RequestOK, BindTask
    <3>3. QED
      BY <3>1, <3>2
  <2>4. QED
    BY <1>1, <1>3, <1>4, <1>5, <1>6, <1>7, <2>1, <2>2, <2>3 DEF RequestOK
<1>8. CASE q.pc # "bound"
  BY <1>1, <1>3, <1>4, <1>5, <1>6, <1>8 DEF RequestOK
<1>9. QED
  BY <1>7, <1>8

\* What an inspection concludes.
LEMMA Concludes ==
  ASSUME NEW n \in Recoveries, NEW mode, NEW released
  PROVE  /\ Concluded(n, mode, released) \in {"blocked", "committed", "reconciliation-required"}
         /\ Concluded(n, mode, released) = "committed" => released /\ Published(n)
BY DEF Concluded

LEMMA RequestMoves ==
  ASSUME IInv, [Next]_vars, NEW a \in Reviewers, request'[a] # request[a], request'[a] # NoRequest
  PROVE  RequestOK(a)'
<1>1. /\ TypeOK /\ TypeOK' /\ Onward /\ TaskInv /\ WorkerInv /\ RequestInv /\ PushedInv /\ Reviewer(a)
      /\ request \in [Reviewers -> Request \cup {NoRequest}]
  BY TypeStep, OnwardStep, RequestChanges DEF IInv, TypeOK
<1>2. request[a] # NoRequest =>
         /\ request[a] \in Request /\ request[a].task \in Tasks /\ request[a].task[1] \in Recoveries
         /\ request[a].task = <<request[a].task[1], request[a].task[2]>>
         /\ request[a].task[2] \in Modes
  BY <1>1, TaskOf DEF TypeOK, Request
<1>3. ASSUME NEW n \in Recoveries, LookToAssess(a, n) PROVE RequestOK(a)'
  <2>1. [original |-> s3.state, lock |-> s3.lock, inventory |-> cloud] \in Review
    BY <1>1, <1>3 DEF LookToAssess, TypeOK, Review
  <2>2. s3' = s3
    BY <1>3 DEF LookToAssess, Looked
  <2>3. QED
    BY <1>1, <1>3, <2>1, <2>2 DEF LookToAssess, Looked, RequestOK, Kept
<1>4. ASSUME NEW n \in Recoveries, LookToCommit(a, n) PROVE RequestOK(a)'
  <2>1. task[<<n, "prepare">>].made /\ Kept(review[n])
    BY <1>1, <1>4 DEF LookToCommit, TaskInv, TaskOK
  <2>2. UNCHANGED <<s3, task, review>>
    BY <1>4 DEF LookToCommit, Looked, db
  <2>3. QED
    BY <1>1, <1>4, <2>1, <2>2 DEF LookToCommit, Looked, RequestOK, Kept
<1>5. ASSUME NEW n \in Recoveries, LookToInspect(a, n) PROVE RequestOK(a)'
  <2>1. PICK t \in Tasks : t = LastTask(n) /\ t[1] = n
    BY TasksOf DEF LastTask
  <2>2. PICK to : /\ to = Concluded(n, t[2], task[t].released)
                  /\ to \in {"blocked", "committed", "reconciliation-required"}
                  /\ to = "committed" => task[t].released /\ Published(n)
    BY Concludes
  <2>3. to = "committed" => n \in pushed /\ worker[t] = "ended"
    BY <1>1, <1>5, <2>1, <2>2 DEF LookToInspect, RunnerStopped, Published, PushedInv, WorkerInv, WorkerOK
  <2>4. /\ request'[a] = [op |-> "inspect", task |-> t, pc |-> "looked", seen |-> NoReview,
                          released |-> task[t].released, to |-> to]
        /\ UNCHANGED <<worker, pushed>>
    BY <1>1, <1>5, <2>1, <2>2 DEF LookToInspect, Looked
  <2>5. QED
    BY <2>1, <2>2, <2>3, <2>4 DEF RequestOK
<1>6. CASE BeginTask(a)
  <2>1. /\ request'[a] = [request[a] EXCEPT !.pc = "begun"] /\ UNCHANGED s3
        /\ task' = [task EXCEPT ![request[a].task].made = TRUE]
        /\ review' = [review EXCEPT ![request[a].task[1]] = request[a].seen]
    BY <1>1, <1>6 DEF BeginTask
  <2>2. RequestOK(a) /\ request[a] # NoRequest /\ request[a].op = "begin"
    BY <1>1, <1>6 DEF BeginTask, RequestInv
  <2>3. Kept(request[a].seen)'
    BY <1>1, <2>1, <2>2, KeptOn DEF RequestOK, Kept, Request
  <2>4. task'[request[a].task].made /\ \A t \in Tasks : task[t].made => task'[t].made
    BY <1>1, <1>2, <2>1, <2>2 DEF Onward, TypeOK, Task
  <2>5. review'[request[a].task[1]] = request[a].seen
    BY <1>1, <1>2, <2>1, <2>2 DEF TypeOK
  <2>6. /\ request'[a].op = "begin" /\ request'[a].task = request[a].task /\ request'[a].pc = "begun"
        /\ request'[a].seen = request[a].seen /\ request'[a].to = request[a].to
    BY <1>2, <2>1, <2>2 DEF Request
  <2>7. QED
    BY <1>2, <2>2, <2>3, <2>4, <2>5, <2>6, TasksOf DEF RequestOK, Kept
<1>7. CASE BindTask(a)
  <2>1. /\ request'[a] = [request[a] EXCEPT !.pc = "bound"] /\ UNCHANGED <<s3, review, worker>>
        /\ task' = [task EXCEPT ![request[a].task].app = TRUE]
        /\ request[a] # NoRequest /\ request[a].pc = "begun" /\ ~task[request[a].task].app
        /\ \A b \in Reviewers \ {a} : request'[b] = request[b]
    BY <1>1, <1>7 DEF BindTask
  <2>2. RequestOK(a)
    BY <1>1 DEF RequestInv
  <2>3. /\ request'[a].op = request[a].op /\ request'[a].task = request[a].task /\ request'[a].pc = "bound"
        /\ request'[a].seen = request[a].seen /\ request'[a].to = request[a].to
    BY <1>2, <2>1 DEF Request
  <2>4. request[a].op = "begin" /\ task[request[a].task].made
    BY <1>2, <2>1, <2>2 DEF RequestOK, Request
  <2>5. task'[request[a].task].app /\ \A t \in Tasks : task[t].made => task'[t].made
    BY <1>1, <1>2, <2>1 DEF Onward, TypeOK, Task
  <2>6. worker[request[a].task] = "none"
    BY <1>1, <1>2, <2>1 DEF WorkerInv, WorkerOK
  <2>7. ASSUME NEW b \in Reviewers \ {a}, request'[b] # NoRequest, request'[b].pc = "bound"
        PROVE  request'[b].task # request[a].task
    <3>1. RequestOK(b) /\ request'[b] = request[b]
      BY <1>1, <2>1 DEF RequestInv
    <3>2. task[request[b].task].app
      BY <2>7, <3>1 DEF RequestOK
    <3>3. QED
      BY <2>1, <3>1, <3>2
  <2>8. QED
    BY <1>2, <2>1, <2>2, <2>3, <2>4, <2>5, <2>6, <2>7, TasksOf DEF RequestOK, Kept
<1>8. QED
  BY <1>1, <1>3, <1>4, <1>5, <1>6, <1>7 DEF Reviewer, LaunchTask, GiveUp, InspectTask

LEMMA RequestStep ==
  ASSUME IInv, [Next]_vars
  PROVE  RequestInv'
<1>1. SUFFICES ASSUME NEW a \in Reviewers, request'[a] # NoRequest PROVE RequestOK(a)'
  BY DEF RequestInv, RequestOK
<1>2. QED
  BY <1>1, RequestKept, RequestMoves

\* The steps that leave the rows of the tasks, the intents and the workers alone.
LEMMA Quiet ==
  ASSUME (\E n \in Recoveries : Propose(n)) \/ Others \/ UNCHANGED vars
  PROVE  UNCHANGED <<task, intent, worker, review, pushed, request, call>>
<1>1. CASE \E n \in Recoveries : Propose(n)
  BY <1>1 DEF Propose, RequestRecovery, Expire, BlockAssessment
<1>2. CASE OldWrites \/ OldEnds \/ UserLocks \/ UserEnds
  BY <1>2 DEF OldWrites, OldEnds, UserLocks, UserEnds, db
<1>3. CASE UserUnlocks \/ CloudChanges \/ NewJob \/ ClearByHand
  BY <1>3 DEF UserUnlocks, CloudChanges, NewJob, ClearByHand, db
<1>4. QED
  BY <1>1, <1>2, <1>3 DEF Others, vars, db

LEMMA WorkerStep ==
  ASSUME IInv, [Next]_vars
  PROVE  WorkerInv'
<1>1. /\ TypeOK /\ TypeOK' /\ Onward /\ TaskInv /\ WorkerInv /\ CallInv /\ RequestInv
      /\ worker \in [Tasks -> WorkerStates] /\ task \in [Tasks -> Task]
      /\ intent \in [Recoveries -> SUBSET Steps]
  BY TypeStep, OnwardStep DEF IInv, TypeOK
<1> SUFFICES ASSUME NEW t \in Tasks PROVE WorkerOK(t)'
  BY DEF WorkerInv
<1>2. WorkerOK(t) /\ t[1] \in Recoveries /\ intent[t[1]] \subseteq intent'[t[1]]
  BY <1>1, TaskOf DEF WorkerInv, Onward
<1>3. ASSUME NEW a \in Reviewers, Reviewer(a) PROVE WorkerOK(t)'
  <2>1. RequestOK(a) /\ (request[a] # NoRequest => request[a].task \in Tasks /\ request[a] \in Request)
    BY <1>1 DEF RequestInv, TypeOK, Request
  <2>2. CASE BeginTask(a)
    BY <1>1, <1>2, <2>1, <2>2 DEF BeginTask, WorkerOK, Task
  <2>3. CASE BindTask(a)
    BY <1>1, <1>2, <2>1, <2>3 DEF BindTask, WorkerOK, Task, RequestOK
  <2>4. CASE LaunchTask(a)
    BY <1>1, <1>2, <2>1, <2>4 DEF LaunchTask, WorkerOK, RequestOK, db
  <2>5. CASE InspectTask(a)
    <3>1. task[request[a].task].made
      <4>1. request[a].task = <<request[a].task[1], request[a].task[2]>> /\ request[a].task[1] \in Recoveries
        BY <2>1, <2>5, TaskOf DEF InspectTask
      <4>2. QED
        BY <1>1, <2>5, <4>1 DEF InspectTask, TaskInv, TaskOK
    <3>2. /\ task' = [task EXCEPT ![request[a].task].finished = TRUE]
          /\ UNCHANGED <<worker, intent>>
      BY <2>5 DEF InspectTask, Recorded
    <3>3. QED
      BY <1>1, <1>2, <2>1, <3>1, <3>2 DEF WorkerOK, Task
  <2>6. CASE UNCHANGED <<task, worker, intent>>
    BY <1>2, <2>6 DEF WorkerOK
  <2>7. QED
    BY <1>3, <2>2, <2>3, <2>4, <2>5, <2>6
    DEF Reviewer, LookToAssess, LookToCommit, LookToInspect, Looked, GiveUp, db
<1>4. ASSUME NEW u \in Tasks, Runner(u) PROVE WorkerOK(t)'
  <2>1. WorkerOK(u)
    BY <1>1 DEF WorkerInv
  <2>2. CASE Requests(u)
    BY <1>1, <1>2, <2>1, <2>2, RequestsAre DEF WorkerOK, db
  <2>3. CASE ForceUnlock(u) \/ PushLocks(u) \/ PushWrites(u) \/ PushEnds(u)
    BY <1>1, <1>2, <2>1, <2>3 DEF ForceUnlock, PushLocks, PushWrites, PushEnds, WorkerOK, db
  <2>4. CASE WorkerFails(u) \/ WorkerDies(u)
    BY <1>1, <1>2, <2>1, <2>4 DEF WorkerFails, WorkerDies, WorkerOK, db
  <2>5. QED
    BY <1>4, <2>2, <2>3, <2>4 DEF Runner, Requests
<1>5. ASSUME NEW c \in call, Broker(c) PROVE WorkerOK(t)'
  <2>1. CallOK(c) /\ c.task \in Tasks /\ c.task[1] \in Recoveries
    BY <1>1, TaskOf DEF CallInv, TypeOK, Call
  <2>2. CASE ReleaseInput(c)
    <3>1. PICK then \in {"revoked", "ready"} : Answered(c, then)
      BY <2>2 DEF ReleaseInput
    <3>2. /\ task' = [task EXCEPT ![c.task].released = TRUE] /\ UNCHANGED intent
          /\ worker' = worker \/ worker' = [worker EXCEPT ![c.task] = then]
      BY <2>2, <3>1 DEF ReleaseInput, Answered
    <3>3. QED
      BY <1>1, <1>2, <2>1, <3>2 DEF WorkerOK, CallOK, Task
  <2>3. CASE Fence(c)
    <3>1. c.kind \in Steps /\ c.task[2] = "commit" /\ intent' = [intent EXCEPT ![c.task[1]] = @ \cup {c.kind}]
          /\ UNCHANGED task
      BY <2>1, <2>3 DEF Fence, CallOK
    <3>2. c.kind \in intent'[c.task[1]]
      BY <1>1, <2>1, <3>1
    <3>3. \/ worker' = worker
          \/ c.kind = "unlock" /\ worker' = [worker EXCEPT ![c.task] = "unlocking"]
          \/ c.kind = "publish" /\ worker' = [worker EXCEPT ![c.task] = "pushing"]
      BY <2>3, <3>1 DEF Fence, Answered, Steps
    <3>4. WorkerOK(c.task)
      BY <1>1, <2>1 DEF WorkerInv
    <3>5. CASE worker' = worker
      BY <1>1, <1>2, <3>1, <3>5 DEF WorkerOK
    <3>6. CASE t = c.task
      BY <1>1, <1>2, <2>1, <3>1, <3>2, <3>3, <3>4, <3>6 DEF WorkerOK, CallOK
    <3>7. CASE t # c.task
      BY <1>1, <1>2, <2>1, <3>1, <3>3, <3>7 DEF WorkerOK
    <3>8. QED
      BY <3>6, <3>7
  <2>4. CASE RevokeKey(c) \/ CallFails(c)
    BY <1>1, <1>2, <2>1, <2>4 DEF RevokeKey, CallFails, Answered, WorkerOK, db
  <2>5. CASE FinishTask(c)
    BY <1>1, <1>2, <2>1, <2>5 DEF FinishTask, Recorded, WorkerOK, CallOK, Task
  <2>6. QED
    BY <1>5, <2>2, <2>3, <2>4, <2>5 DEF Broker
<1>6. CASE (\E n \in Recoveries : Propose(n)) \/ Others \/ UNCHANGED vars
  BY <1>2, <1>6, Quiet DEF WorkerOK
<1>7. QED
  BY <1>3, <1>4, <1>5, <1>6 DEF Next

LEMMA PushedStep ==
  ASSUME IInv, [Next]_vars
  PROVE  PushedInv'
<1>1. TypeOK /\ TypeOK' /\ Onward /\ PushedInv
  BY TypeStep, OnwardStep DEF IInv
<1>2. CASE s3'.state = s3.state
  BY <1>1, <1>2 DEF PushedInv, Onward
<1>3. ASSUME NEW t \in Tasks, PushWrites(t) PROVE PushedInv'
  <2>1. s3'.state = Candidate(t[1]) /\ t[1] \in pushed'
    BY <1>1, <1>3 DEF PushWrites, TypeOK
  <2>2. s3'.state.by = <<"push", t[1]>>
    BY <2>1 DEF Candidate
  <2>3. QED
    BY <2>1, <2>2 DEF PushedInv
<1>4. CASE OldWrites \/ UserEnds
  <2>1. s3'.state = s3.state \/ s3'.state.by \in {<<"old", 0>>, <<"user", 0>>}
    BY <1>1, <1>4 DEF OldWrites, UserEnds, TypeOK
  <2>2. QED
    BY <1>2, <2>1 DEF PushedInv
<1>5. ASSUME NEW t \in Tasks, Runner(t), ~PushWrites(t) PROVE s3'.state = s3.state
  BY <1>1, <1>5, RequestsAre DEF Runner, Requests, ForceUnlock, PushLocks, PushEnds, WorkerFails, WorkerDies, TypeOK
<1>6. ASSUME NEW a \in Reviewers, Reviewer(a) PROVE s3' = s3
  BY <1>6 DEF Reviewer, LookToAssess, LookToCommit, LookToInspect, Looked, BeginTask, BindTask, LaunchTask,
     GiveUp, InspectTask
<1>7. ASSUME NEW c \in call, Broker(c) PROVE s3' = s3
  BY <1>7 DEF Broker, ReleaseInput, Fence, RevokeKey, CallFails, FinishTask
<1>8. ASSUME NEW n \in Recoveries, Propose(n) PROVE s3' = s3
  BY <1>8 DEF Propose, RequestRecovery, Expire, BlockAssessment
<1>9. CASE OldEnds \/ UserLocks \/ UserUnlocks \/ CloudChanges \/ NewJob \/ ClearByHand
  <2>1. s3'.state = s3.state
    BY <1>1, <1>9 DEF OldEnds, UserLocks, UserUnlocks, CloudChanges, NewJob, ClearByHand, TypeOK
  <2>2. QED
    BY <1>2, <2>1
<1>10. QED
  BY <1>2, <1>3, <1>4, <1>5, <1>6, <1>7, <1>8, <1>9 DEF Next, Others, vars

\* An intent is on record only once the commit task was released.
LEMMA IntentMade ==
  ASSUME TaskInv, WorkerInv, NEW n \in Recoveries, intent[n] # {}
  PROVE  task[<<n, "commit">>].made /\ task[<<n, "prepare">>].made
BY TasksOf DEF TaskInv, TaskOK, WorkerInv, WorkerOK

\* A step that only moves what the proposal does not depend on.
LEMMA TaskFrame ==
  ASSUME TypeOK, TypeOK', Onward, TaskInv, WorkerInv, NEW n \in Recoveries,
         phase'[n] = phase[n], intent'[n] = intent[n],
         \A mode \in Modes : /\ task'[<<n, mode>>].made = task[<<n, mode>>].made
                             /\ task'[<<n, mode>>].finished = task[<<n, mode>>].finished,
         n \in pushed' => n \in pushed \/ "publish" \in intent[n]
  PROVE  TaskOK(n)'
<1>1. TaskOK(n) /\ "prepare" \in Modes /\ "commit" \in Modes
  BY DEF TaskInv, Modes
<1>2. StateIntent(n)' = StateIntent(n)
  BY DEF StateIntent
<1>3. StateIntent(n) => RevocationsAbsent(n)'
  <2>1. StateIntent(n) => task[<<n, "prepare">>].made
    BY IntentMade DEF StateIntent
  <2>2. QED
    BY <1>1, <2>1, ReviewStays DEF TaskOK
<1>4. task[<<n, "prepare">>].made => Kept(review[n])'
  BY ReviewStays
<1>5. intent'[n] # {} => task'[<<n, "commit">>].released
  BY <1>1, TasksOf DEF TaskOK, Onward
<1>6. QED
  BY <1>1, <1>2, <1>3, <1>4, <1>5 DEF TaskOK

\* A proposal whose commit task was not made has no intent.
LEMMA NoIntent ==
  ASSUME TaskInv, WorkerInv, NEW n \in Recoveries, ~task[<<n, "commit">>].made
  PROVE  intent[n] = {} /\ ~StateIntent(n) /\ n \notin pushed
<1>1. intent[n] = {}
  BY IntentMade
<1>2. QED
  BY <1>1 DEF StateIntent, TaskInv, TaskOK

LEMMA TaskPropose ==
  ASSUME IInv, [Next]_vars, NEW m \in Recoveries, Propose(m), NEW n \in Recoveries
  PROVE  TaskOK(n)'
<1>1. /\ TypeOK /\ TypeOK' /\ Onward /\ TaskInv /\ WorkerInv /\ TaskOK(n)
      /\ UNCHANGED <<task, intent, review, pushed, s3, cloud>>
  BY TypeStep, OnwardStep DEF IInv, TaskInv, Propose, RequestRecovery, Expire, BlockAssessment
<1>2. CASE phase'[n] = phase[n]
  BY <1>1, <1>2, TaskFrame
<1>3. CASE phase'[n] # phase[n]
  <2>1. \/ phase[n] = "none" /\ phase'[n] = "requested"
        \/ phase[n] \in {"requested", "prepared"} /\ phase'[n] = "blocked"
    BY <1>1, <1>3 DEF Propose, RequestRecovery, Expire, BlockAssessment, TypeOK
  <2>2. ~task[<<n, "commit">>].made
    BY <1>1, <2>1 DEF TaskOK
  <2>3. intent'[n] = {} /\ ~StateIntent(n)' /\ n \notin pushed'
    BY <1>1, <2>2, NoIntent DEF StateIntent
  <2>4. task[<<n, "prepare">>].made => Kept(review[n])'
    BY <1>1, ReviewStays
  <2>5. QED
    BY <1>1, <2>1, <2>2, <2>3, <2>4 DEF TaskOK
<1>4. QED
  BY <1>2, <1>3

LEMMA TaskBegin ==
  ASSUME IInv, [Next]_vars, NEW a \in Reviewers, BeginTask(a), NEW n \in Recoveries
  PROVE  TaskOK(n)'
<1>1. /\ TypeOK /\ TypeOK' /\ Onward /\ TaskInv /\ WorkerInv /\ RequestOK(a) /\ TaskOK(n)
      /\ phase \in [Recoveries -> Phases] /\ task \in [Tasks -> Task]
      /\ review \in [Recoveries -> Review \cup {NoReview}]
  BY TypeStep, OnwardStep DEF IInv, TaskInv, RequestInv, TypeOK
<1> DEFINE q == request[a]
<1>2. /\ q # NoRequest /\ q.op = "begin" /\ q.task \in Tasks /\ q.task[1] \in Recoveries
      /\ q.task = <<q.task[1], q.task[2]>> /\ q.task[2] \in {"prepare", "commit"}
  BY <1>1, TaskOf DEF BeginTask, TypeOK, Request, Modes
<1>3. /\ phase' = [phase EXCEPT ![q.task[1]] = q.to]
      /\ review' = [review EXCEPT ![q.task[1]] = q.seen]
      /\ task' = [task EXCEPT ![q.task].made = TRUE]
      /\ phase[q.task[1]] = IF q.task[2] = "prepare" THEN "requested" ELSE "prepared"
      /\ UNCHANGED <<intent, pushed, s3, cloud>>
  BY DEF BeginTask
<1>4. \A t \in Tasks : task'[t].finished = task[t].finished /\ task'[t].released = task[t].released
                       /\ (t # q.task => task'[t].made = task[t].made)
  BY <1>1, <1>2, <1>3 DEF Task
<1>5. CASE q.task[1] # n
  <2>1. \A mode \in Modes : <<n, mode>> \in Tasks /\ <<n, mode>> # q.task
    BY <1>2, <1>5 DEF Tasks
  <2>2. phase'[n] = phase[n]
    BY <1>1, <1>3, <1>5
  <2>3. QED
    BY <1>1, <1>3, <1>4, <2>1, <2>2, TaskFrame
<1>6. CASE q.task[1] = n
  <2>1. phase'[n] = q.to /\ q.to = (IF q.task[2] = "prepare" THEN "assessing" ELSE "committing")
        /\ review'[n] = q.seen
    BY <1>1, <1>2, <1>3, <1>6 DEF RequestOK
  <2>2. ~task[<<n, "commit">>].made
    BY <1>1, <1>2, <1>3, <1>6 DEF TaskOK
  <2>3. intent'[n] = {} /\ ~StateIntent(n)' /\ n \notin pushed'
    BY <1>1, <1>3, <2>2, NoIntent DEF StateIntent
  <2>4. Kept(q.seen) /\ Kept(review[n])'
    BY <1>1, <1>2, <1>3, <2>1, KeptOn DEF RequestOK, Kept
  <2>5. <<n, "prepare">> \in Tasks /\ <<n, "commit">> \in Tasks /\ <<n, "prepare">> # <<n, "commit">>
    BY TasksOf
  <2>6. task'[q.task].made
    BY <1>1, <1>2, <1>3 DEF Task
  <2>7. ~task[<<n, "commit">>].finished
        /\ (~task[<<n, "prepare">>].made => ~task[<<n, "prepare">>].finished)
    BY <1>1, <2>2, <2>5 DEF WorkerInv, WorkerOK
  <2>8. CASE q.task[2] = "prepare"
    <3>1. q.task = <<n, "prepare">> /\ ~task[<<n, "prepare">>].made
      BY <1>1, <1>2, <1>3, <1>6, <2>8 DEF TaskOK
    <3>2. QED
      BY <1>4, <2>1, <2>2, <2>3, <2>4, <2>5, <2>6, <2>7, <2>8, <3>1 DEF TaskOK
  <2>9. CASE q.task[2] = "commit"
    <3>1. q.task = <<n, "commit">> /\ task[<<n, "prepare">>].made /\ task[<<n, "prepare">>].finished
      BY <1>1, <1>2, <1>3, <1>6, <2>9 DEF TaskOK
    <3>2. QED
      BY <1>4, <2>1, <2>3, <2>4, <2>5, <2>6, <2>7, <2>9, <3>1 DEF TaskOK
  <2>10. QED
    BY <1>2, <2>8, <2>9
<1>7. QED
  BY <1>5, <1>6

\* The end of a task, as InspectTask and FinishTask record it.
LEMMA TaskRecorded ==
  ASSUME IInv, [Next]_vars, NEW n \in Recoveries, NEW mode \in Modes, NEW to \in Phases, NEW m \in Recoveries,
         Recorded(n, <<n, mode>>, to), UNCHANGED <<intent, pushed>>,
         \/ mode = "prepare" /\ phase[n] = "assessing" /\ to \in {"prepared", "blocked"}
         \/ /\ mode = "commit" /\ phase[n] \in {"committing", "reconciliation-required"}
            /\ to \in {"blocked", "committed", "reconciliation-required"}
            /\ to = "blocked" => ~StateIntent(n)
  PROVE  TaskOK(m)'
<1>1. /\ TypeOK /\ TypeOK' /\ Onward /\ TaskInv /\ WorkerInv /\ TaskOK(n)
      /\ phase \in [Recoveries -> Phases] /\ task \in [Tasks -> Task]
  BY TypeStep, OnwardStep DEF IInv, TaskInv, TypeOK
<1>2. /\ phase' = [phase EXCEPT ![n] = to]
      /\ task' = [task EXCEPT ![<<n, mode>>].finished = TRUE]
  BY DEF Recorded
<1>3. /\ \A t \in Tasks : task'[t].made = task[t].made /\ task'[t].released = task[t].released
                          /\ (t # <<n, mode>> => task'[t].finished = task[t].finished)
      /\ <<n, mode>> \in Tasks /\ task'[<<n, mode>>].finished
  BY <1>1, <1>2 DEF Task, Tasks
<1>4. CASE m # n
  <2>1. \A x \in Modes : <<m, x>> \in Tasks /\ <<m, x>> # <<n, mode>>
    BY <1>4 DEF Tasks
  <2>2. phase'[m] = phase[m]
    BY <1>1, <1>2, <1>4
  <2>3. QED
    BY <1>1, <1>3, <2>1, <2>2, TaskFrame
<1>5. CASE m = n
  <2>1. phase'[n] = to /\ <<n, "prepare">> \in Tasks /\ <<n, "commit">> \in Tasks
    BY <1>1, <1>2, TasksOf
  <2>2. task[<<n, "prepare">>].made
    BY <1>1 DEF TaskOK
  <2>3. Kept(review[n])' /\ (RevocationsAbsent(n) => RevocationsAbsent(n)') /\ StateIntent(n)' = StateIntent(n)
    BY <1>1, <2>2, ReviewStays DEF StateIntent
  <2>4. CASE mode = "prepare"
    <3>1. ~task[<<n, "commit">>].made
      BY <1>1, <2>4 DEF TaskOK
    <3>2. intent[n] = {} /\ ~StateIntent(n) /\ n \notin pushed
      BY <1>1, <3>1, NoIntent
    <3>3. QED
      BY <1>1, <1>3, <1>5, <2>1, <2>2, <2>3, <2>4, <3>1, <3>2 DEF TaskOK
  <2>5. CASE mode = "commit"
    <3>1. task[<<n, "commit">>].made
      BY <1>1, <2>5 DEF TaskOK
    <3>2. task[<<n, "prepare">>].finished
      BY <1>1, <2>2, <2>5 DEF TaskOK
    <3>3. QED
      BY <1>1, <1>3, <1>5, <2>1, <2>2, <2>3, <2>5, <3>1, <3>2 DEF TaskOK
  <2>6. QED
    BY <2>4, <2>5 DEF Modes
<1>6. QED
  BY <1>4, <1>5

\* What FinishTask records, by what its request has seen.
LEMMA FinishRecords ==
  ASSUME IInv, NEW c \in call, FinishTask(c)
  PROVE  /\ c.task \in Tasks /\ c.task[1] \in Recoveries /\ c.task[2] \in Modes /\ c.to \in Phases
         /\ c.task = <<c.task[1], c.task[2]>>
         /\ \/ c.task[2] = "prepare" /\ phase[c.task[1]] = "assessing" /\ c.to \in {"prepared", "blocked"}
            \/ /\ c.task[2] = "commit" /\ phase[c.task[1]] = "committing"
               /\ c.to \in {"blocked", "committed", "reconciliation-required"}
               /\ c.to = "blocked" => ~StateIntent(c.task[1])
               /\ c.to = "committed" => c.task[1] \in pushed /\ worker[c.task] = "ended"
<1>1. CallOK(c) /\ c \in Call /\ TaskInv
  BY DEF IInv, CallInv, TypeOK
<1>2. c.task \in Tasks /\ c.task[1] \in Recoveries /\ c.task[2] \in Modes /\ c.to \in Phases
      /\ c.task = <<c.task[1], c.task[2]>>
  BY <1>1, TaskOf DEF Call
<1>3. task[c.task].made /\ ~task[c.task].finished /\ TaskOK(c.task[1])
  BY <1>1, <1>2 DEF FinishTask, CallOK, TaskInv
<1>4. CASE c.task[2] = "prepare"
  BY <1>1, <1>2, <1>3, <1>4 DEF TaskOK, CallOK, FinishTask
<1>5. CASE c.task[2] = "commit"
  BY <1>1, <1>2, <1>3, <1>5 DEF TaskOK, CallOK, FinishTask, StateIntent
<1>6. QED
  BY <1>2, <1>4, <1>5 DEF Modes

\* What InspectTask records, by what its looks have concluded.
LEMMA InspectRecords ==
  ASSUME IInv, NEW a \in Reviewers, InspectTask(a)
  PROVE  LET q == request[a] IN
         /\ q.task \in Tasks /\ q.task[1] \in Recoveries /\ q.task[2] \in Modes /\ q.to \in Phases
         /\ q.task = <<q.task[1], q.task[2]>>
         /\ \/ q.task[2] = "prepare" /\ phase[q.task[1]] = "assessing" /\ q.to \in {"prepared", "blocked"}
            \/ /\ q.task[2] = "commit" /\ phase[q.task[1]] \in {"committing", "reconciliation-required"}
               /\ q.to \in {"blocked", "committed", "reconciliation-required"}
               /\ q.to = "blocked" => ~StateIntent(q.task[1])
         /\ q.to = "committed" => q.task[2] = "commit" /\ q.task[1] \in pushed /\ worker[q.task] = "ended"
<1>1. RequestOK(a) /\ request[a] \in Request /\ TaskInv /\ WorkerInv
  BY DEF IInv, RequestInv, TypeOK, InspectTask
<1> DEFINE q == request[a]
<1>2. q.task \in Tasks /\ q.task[1] \in Recoveries /\ q.task[2] \in Modes /\ q.to \in Phases
      /\ q.task = <<q.task[1], q.task[2]>>
  BY <1>1, TaskOf DEF Request
<1>3. q # NoRequest /\ q.op = "inspect"
  BY DEF InspectTask
<1>4. q.to \in {"blocked", "committed", "reconciliation-required"}
      /\ (q.to = "committed" => q.task[1] \in pushed /\ worker[q.task] = "ended")
  BY <1>1, <1>3 DEF RequestOK
<1>5. q.task[2] = "commit" /\ ~task[q.task].released => ~StateIntent(q.task[1])
  BY <1>1, <1>2 DEF TaskInv, TaskOK, StateIntent
<1>6. QED
  BY <1>2, <1>4, <1>5 DEF InspectTask

LEMMA TaskBroker ==
  ASSUME IInv, [Next]_vars, NEW c \in call, Broker(c), NEW n \in Recoveries
  PROVE  TaskOK(n)'
<1>1. /\ TypeOK /\ TypeOK' /\ Onward /\ TaskInv /\ WorkerInv /\ CallOK(c) /\ TaskOK(n) /\ WorkerOK(c.task)
      /\ c.task \in Tasks /\ c.task[1] \in Recoveries /\ c.task = <<c.task[1], c.task[2]>>
      /\ task \in [Tasks -> Task] /\ intent \in [Recoveries -> SUBSET Steps]
  BY TypeStep, OnwardStep, TaskOf DEF IInv, TaskInv, CallInv, WorkerInv, TypeOK, Call
<1>2. \A mode \in Modes : <<n, mode>> \in Tasks
  BY DEF Tasks
<1>3. CASE ReleaseInput(c)
  <2>1. \A t \in Tasks : task'[t].made = task[t].made /\ task'[t].finished = task[t].finished
    BY <1>1, <1>3 DEF ReleaseInput, Task
  <2>2. QED
    BY <1>1, <1>2, <1>3, <2>1, TaskFrame DEF ReleaseInput
<1>4. CASE Fence(c)
  <2>1. /\ intent' = [intent EXCEPT ![c.task[1]] = intent[c.task[1]] \cup {c.kind}]
        /\ UNCHANGED <<phase, task, review, pushed, cloud, s3>>
    BY <1>4 DEF Fence
  <2>2. CASE n # c.task[1]
    <3>1. intent'[n] = intent[n]
      BY <1>1, <2>1, <2>2
    <3>2. QED
      BY <1>1, <2>1, <3>1, TaskFrame
  <2>3. CASE n = c.task[1]
    <3>1. c.task = <<n, "commit">> /\ task[<<n, "commit">>].released /\ ~task[<<n, "commit">>].finished
          /\ (c.kind = "publish" => "unlock" \in intent[n])
      BY <1>1, <1>4, <2>3 DEF Fence, FenceOpen, CallOK
    <3>2. task[<<n, "commit">>].made /\ task[<<n, "prepare">>].made
      BY <1>1, <3>1 DEF WorkerOK, TaskOK
    <3>3. phase[n] = "committing"
      BY <1>1, <3>1, <3>2 DEF TaskOK
    <3>4. intent'[n] = intent[n] \cup {c.kind}
      BY <1>1, <2>1, <2>3
    <3>5. StateIntent(n)' => RevocationsAbsent(n)'
      <4>1. StateIntent(n)' => StateIntent(n) \/ c.kind \in {"unlock", "publish"}
        BY <3>4 DEF StateIntent
      <4>2. c.kind \in {"unlock", "publish"} => RevocationsAbsent(n)
        BY <1>1, <2>3 DEF CallOK
      <4>3. QED
        BY <1>1, <3>2, <4>1, <4>2, ReviewStays DEF TaskOK
    <3>6. Kept(review[n])'
      BY <1>1, <3>2, ReviewStays
    <3>7. QED
      BY <1>1, <2>1, <3>1, <3>2, <3>3, <3>4, <3>5, <3>6 DEF TaskOK
  <2>4. QED
    BY <2>2, <2>3
<1>5. CASE RevokeKey(c) \/ CallFails(c)
  BY <1>1, <1>5, TaskFrame DEF RevokeKey, CallFails, db
<1>6. CASE FinishTask(c)
  <2>1. /\ Recorded(c.task[1], <<c.task[1], c.task[2]>>, c.to) /\ UNCHANGED <<intent, pushed>>
    BY <1>1, <1>6 DEF FinishTask
  <2>2. QED
    BY <1>6, <2>1, FinishRecords, TaskRecorded
<1>7. QED
  BY <1>3, <1>4, <1>5, <1>6 DEF Broker

LEMMA TaskStep ==
  ASSUME IInv, [Next]_vars
  PROVE  TaskInv'
<1>1. /\ TypeOK /\ TypeOK' /\ Onward /\ TaskInv /\ WorkerInv /\ task \in [Tasks -> Task]
  BY TypeStep, OnwardStep DEF IInv, TypeOK
<1> SUFFICES ASSUME NEW n \in Recoveries PROVE TaskOK(n)'
  BY DEF TaskInv
<1>2. \A mode \in Modes : <<n, mode>> \in Tasks
  BY DEF Tasks
<1>3. CASE UNCHANGED <<phase, task, intent, pushed>>
  BY <1>1, <1>3, TaskFrame
<1>4. ASSUME NEW a \in Reviewers, Reviewer(a) PROVE TaskOK(n)'
  <2>1. CASE BeginTask(a)
    BY <2>1, TaskBegin
  <2>2. CASE BindTask(a)
    <3>1. \A t \in Tasks : task'[t].made = task[t].made /\ task'[t].finished = task[t].finished
      BY <1>1, <2>2 DEF BindTask, Task, TypeOK
    <3>2. QED
      BY <1>1, <1>2, <2>2, <3>1, TaskFrame DEF BindTask
  <2>3. CASE InspectTask(a)
    <3>1. /\ Recorded(request[a].task[1], request[a].task, request[a].to) /\ UNCHANGED <<intent, pushed>>
      BY <2>3 DEF InspectTask
    <3>2. PICK k \in Recoveries, mode \in Modes, to \in Phases :
            k = request[a].task[1] /\ mode = request[a].task[2] /\ to = request[a].to
            /\ request[a].task = <<k, mode>>
      BY <2>3, InspectRecords
    <3>3. QED
      BY <2>3, <3>1, <3>2, InspectRecords, TaskRecorded
  <2>4. QED
    BY <1>3, <1>4, <2>1, <2>2, <2>3
    DEF Reviewer, LookToAssess, LookToCommit, LookToInspect, Looked, LaunchTask, GiveUp, db
<1>5. ASSUME NEW t \in Tasks, Runner(t) PROVE TaskOK(n)'
  <2>1. CASE PushWrites(t)
    <3>1. UNCHANGED <<phase, task, intent>> /\ pushed' = pushed \cup {t[1]} /\ "publish" \in intent[t[1]]
      BY <1>1, <2>1, Reviewed DEF PushWrites, db
    <3>2. QED
      BY <1>1, <3>1, TaskFrame
  <2>2. CASE ~PushWrites(t)
    BY <1>3, <1>5, <2>2, RequestsAre
    DEF Runner, Requests, ForceUnlock, PushLocks, PushEnds, WorkerFails, WorkerDies, db
  <2>3. QED
    BY <2>1, <2>2
<1>6. CASE Others \/ UNCHANGED vars
  BY <1>3, <1>6 DEF Others, OldWrites, OldEnds, UserLocks, UserEnds, UserUnlocks, CloudChanges, NewJob,
     ClearByHand, vars, db
<1>7. QED
  BY <1>4, <1>5, <1>6, TaskBroker, TaskPropose DEF Next

\* Which step moves a proposal, and from where.
LEMMA PhaseMoves ==
  ASSUME IInv, [Next]_vars, phase' # phase
  PROVE  \/ \E m \in Recoveries : RequestRecovery(m) \/ BlockAssessment(m)
         \/ \E a \in Reviewers : BeginTask(a) \/ InspectTask(a)
         \/ \E c \in call : FinishTask(c)
<1>1. ASSUME NEW a \in Reviewers, Reviewer(a), ~BeginTask(a), ~InspectTask(a) PROVE FALSE
  BY <1>1 DEF Reviewer, LookToAssess, LookToCommit, LookToInspect, Looked, BindTask, LaunchTask, GiveUp, db
<1>2. ASSUME NEW t \in Tasks, Runner(t) PROVE FALSE
  BY <1>2, RequestsAre DEF Runner, Requests, ForceUnlock, PushLocks, PushWrites, PushEnds, WorkerFails, WorkerDies, db
<1>3. ASSUME NEW c \in call, Broker(c), ~FinishTask(c) PROVE FALSE
  BY <1>3 DEF Broker, ReleaseInput, Fence, RevokeKey, CallFails, db
<1>4. CASE Others
  BY <1>4 DEF Others, OldWrites, OldEnds, UserLocks, UserEnds, UserUnlocks, CloudChanges, NewJob, ClearByHand, db
<1>5. ASSUME NEW m \in Recoveries, Expire(m) PROVE FALSE
  BY <1>5 DEF Expire
<1>6. QED
  BY <1>1, <1>2, <1>3, <1>4, <1>5 DEF Next, Propose, vars, db

\* A proposal that is over stays as it is, and only a request opens a new one.
LEMMA PhaseOnward ==
  ASSUME IInv, [Next]_vars, NEW n \in Recoveries, phase'[n] # phase[n]
  PROVE  \/ phase[n] \in Open
         \/ /\ phase[n] = "none" /\ phase'[n] = "requested"
            /\ \A m \in Recoveries : phase'[m] \in Open => m = n
<1>1. phase \in [Recoveries -> Phases] /\ phase' # phase /\ IInv
  BY DEF IInv, TypeOK
<1>2. ASSUME NEW m \in Recoveries, RequestRecovery(m) PROVE phase[n] \in Open \/ m = n
  BY <1>1, <1>2 DEF RequestRecovery
<1>3. CASE RequestRecovery(n)
  BY <1>1, <1>3 DEF RequestRecovery, Open
<1>4. ASSUME NEW m \in Recoveries, BlockAssessment(m) PROVE phase[n] \in Open
  BY <1>1, <1>4 DEF BlockAssessment, Open
<1>5. ASSUME NEW a \in Reviewers, BeginTask(a) PROVE phase[n] \in Open
  BY <1>1, <1>5 DEF BeginTask, Open
<1>6. ASSUME NEW a \in Reviewers, InspectTask(a) PROVE phase[n] \in Open
  <2>1. phase' = [phase EXCEPT ![request[a].task[1]] = request[a].to]
    BY <1>6 DEF InspectTask, Recorded
  <2>2. phase[request[a].task[1]] \in Open
    BY <1>6, InspectRecords DEF Open
  <2>3. QED
    BY <1>1, <2>1, <2>2
<1>7. ASSUME NEW c \in call, FinishTask(c) PROVE phase[n] \in Open
  <2>1. phase' = [phase EXCEPT ![c.task[1]] = c.to]
    BY <1>7 DEF FinishTask, Recorded
  <2>2. phase[c.task[1]] \in Open
    BY <1>7, FinishRecords DEF Open
  <2>3. QED
    BY <1>1, <2>1, <2>2
<1>8. QED
  BY <1>1, <1>2, <1>3, <1>4, <1>5, <1>6, <1>7, PhaseMoves

LEMMA OpenStep ==
  ASSUME IInv, [Next]_vars
  PROVE  OneOpen'
<1>1. OneOpen
  BY DEF IInv
<1>2. CASE \A n \in Recoveries : phase'[n] \in Open => phase[n] \in Open
  BY <1>1, <1>2 DEF OneOpen
<1>3. ASSUME NEW n \in Recoveries, phase'[n] \in Open, phase[n] \notin Open PROVE OneOpen'
  BY <1>3, PhaseOnward DEF OneOpen
<1>4. QED
  BY <1>2, <1>3

\* The clearance is recorded with the phase, or by hand.
LEMMA ClearedBy ==
  ASSUME [Next]_vars, cleared' # cleared
  PROVE  \/ ClearByHand
         \/ \E a \in Reviewers : InspectTask(a) /\ request[a].to = "committed"
         \/ \E c \in call : FinishTask(c) /\ c.to = "committed"
<1>1. ASSUME NEW a \in Reviewers, Reviewer(a) PROVE InspectTask(a) /\ request[a].to = "committed"
  BY <1>1 DEF Reviewer, LookToAssess, LookToCommit, LookToInspect, Looked, BeginTask, BindTask, LaunchTask,
     GiveUp, InspectTask, Recorded, db
<1>2. ASSUME NEW t \in Tasks, Runner(t) PROVE FALSE
  BY <1>2, RequestsAre DEF Runner, Requests, ForceUnlock, PushLocks, PushWrites, PushEnds, WorkerFails, WorkerDies, db
<1>3. ASSUME NEW c \in call, Broker(c) PROVE FinishTask(c) /\ c.to = "committed"
  BY <1>3 DEF Broker, ReleaseInput, Fence, RevokeKey, CallFails, FinishTask, Recorded, db
<1>4. CASE Others
  BY <1>4 DEF Others, OldWrites, OldEnds, UserLocks, UserEnds, UserUnlocks, CloudChanges, NewJob, ClearByHand, db
<1>5. ASSUME NEW m \in Recoveries, Propose(m) PROVE FALSE
  BY <1>5 DEF Propose, RequestRecovery, Expire, BlockAssessment
<1>6. QED
  BY <1>1, <1>2, <1>3, <1>4, <1>5 DEF Next, vars, db

LEMMA CommittedStep ==
  ASSUME IInv, [Next]_vars
  PROVE  CommittedIsPublished'
<1>1. TypeOK /\ Onward /\ CommittedIsPublished /\ phase \in [Recoveries -> Phases]
  BY OnwardStep DEF IInv, TypeOK
<1>2. \A n \in Recoveries : phase[n] = "committed" => phase'[n] = "committed"
  BY PhaseOnward DEF Open
<1>3. cleared = "guided" => cleared' = "guided"
  BY ClearedBy DEF ClearByHand, InspectTask, FinishTask, ContextOK
<1>4. ASSUME NEW n \in Recoveries, phase'[n] = "committed", phase[n] # "committed"
      PROVE  n \in pushed' /\ cleared' = "guided"
  <2>1. ASSUME NEW m \in Recoveries, RequestRecovery(m) \/ BlockAssessment(m) PROVE FALSE
    BY <1>1, <1>4, <2>1 DEF RequestRecovery, BlockAssessment
  <2>2. ASSUME NEW a \in Reviewers, BeginTask(a) PROVE FALSE
    <3>1. RequestOK(a) /\ request[a] \in Request
      BY <2>2 DEF IInv, RequestInv, BeginTask, TypeOK
    <3>2. request[a].to \in {"assessing", "committing"}
      BY <2>2, <3>1 DEF BeginTask, RequestOK
    <3>3. QED
      BY <1>1, <1>4, <2>2, <3>2 DEF BeginTask
  <2>3. ASSUME NEW a \in Reviewers, InspectTask(a) PROVE n \in pushed' /\ cleared' = "guided"
    <3>1. phase' = [phase EXCEPT ![request[a].task[1]] = request[a].to]
          /\ cleared' = IF request[a].to = "committed" THEN "guided" ELSE cleared
      BY <2>3 DEF InspectTask, Recorded
    <3>2. request[a].task[1] = n /\ request[a].to = "committed"
      BY <1>1, <1>4, <3>1
    <3>3. QED
      BY <1>1, <2>3, <3>1, <3>2, InspectRecords DEF Onward
  <2>4. ASSUME NEW c \in call, FinishTask(c) PROVE n \in pushed' /\ cleared' = "guided"
    <3>1. phase' = [phase EXCEPT ![c.task[1]] = c.to]
          /\ cleared' = IF c.to = "committed" THEN "guided" ELSE cleared
      BY <2>4 DEF FinishTask, Recorded
    <3>2. c.task[1] = n /\ c.to = "committed"
      BY <1>1, <1>4, <3>1
    <3>3. QED
      BY <1>1, <2>4, <3>1, <3>2, FinishRecords DEF Onward
  <2>5. phase' # phase
    BY <1>4
  <2>6. QED
    BY <2>1, <2>2, <2>3, <2>4, <2>5, PhaseMoves
<1>5. ASSUME cleared' = "guided", cleared # "guided"
      PROVE  \E n \in Recoveries : phase'[n] = "committed"
  <2>1. ~ClearByHand
    BY <1>5 DEF ClearByHand
  <2>2. ASSUME NEW a \in Reviewers, InspectTask(a), request[a].to = "committed"
        PROVE  \E n \in Recoveries : phase'[n] = "committed"
    BY <1>1, <2>2, InspectRecords DEF InspectTask, Recorded
  <2>3. ASSUME NEW c \in call, FinishTask(c), c.to = "committed"
        PROVE  \E n \in Recoveries : phase'[n] = "committed"
    BY <1>1, <2>3, FinishRecords DEF FinishTask, Recorded
  <2>4. QED
    BY <1>5, <2>1, <2>2, <2>3, ClearedBy
<1>6. QED
  BY <1>1, <1>2, <1>3, <1>4, <1>5 DEF CommittedIsPublished, Onward

\* A worker that may still touch State belongs to a proposal that is open, or committed.
LEMMA WriterOpen ==
  ASSUME TypeOK, TaskInv, WorkerInv, NEW t \in Tasks,
         worker[t] \in {"unlocking", "unlocked", "pushing", "locked", "written"}
  PROVE  /\ t = <<t[1], "commit">> /\ t[1] \in Recoveries
         /\ phase[t[1]] \in {"committing", "reconciliation-required", "committed"}
<1>1. t = <<t[1], "commit">> /\ t[1] \in Recoveries /\ StateIntent(t[1])
  BY TaskOf DEF WorkerInv, WorkerOK, StateIntent
<1>2. task[<<t[1], "commit">>].made
  BY <1>1, IntentMade DEF StateIntent
<1>3. phase[t[1]] \in Phases /\ TaskOK(t[1])
  BY <1>1 DEF TypeOK, TaskInv
<1>4. QED
  BY <1>1, <1>2, <1>3 DEF TaskOK, Phases

LEMMA NoWriteStep ==
  ASSUME IInv, [Next]_vars
  PROVE  NoWriteBesideJob'
<1> DEFINE Writing == {"unlocking", "unlocked", "pushing", "locked", "written"}
<1>1. /\ TypeOK /\ TaskInv /\ WorkerInv /\ OneOpen /\ CommittedIsPublished /\ NoWriteBesideJob
      /\ worker \in [Tasks -> WorkerStates]
  BY DEF IInv, TypeOK
<1>2. SUFFICES ASSUME later' \/ cleared' # "no", NEW t \in Tasks, worker'[t] \in Writing PROVE FALSE
  BY DEF NoWriteBesideJob
<1>3. CASE later \/ cleared # "no"
  <2>1. worker[t] \notin Writing
    BY <1>1, <1>3 DEF NoWriteBesideJob
  <2>2. ASSUME NEW a \in Reviewers, Reviewer(a) PROVE FALSE
    BY <1>1, <1>2, <2>1, <2>2 DEF Reviewer, LookToAssess, LookToCommit, LookToInspect, Looked, BeginTask,
       BindTask, LaunchTask, GiveUp, InspectTask
  <2>3. ASSUME NEW u \in Tasks, Runner(u) PROVE FALSE
    <3>1. worker[u] \notin Writing
      BY <1>1, <1>3 DEF NoWriteBesideJob
    <3>2. CASE Requests(u)
      BY <1>1, <1>2, <2>1, <3>2, RequestsAre
    <3>3. QED
      BY <1>1, <1>2, <2>1, <2>3, <3>1, <3>2
      DEF Runner, Requests, ForceUnlock, PushLocks, PushWrites, PushEnds, WorkerFails, WorkerDies
  <2>4. ASSUME NEW c \in call, Broker(c) PROVE FALSE
    <3>1. ~ReleaseInput(c) /\ ~Fence(c) /\ ~FinishTask(c)
      BY <1>3 DEF ReleaseInput, Fence, FenceOpen, FinishTask, ContextOK
    <3>2. CASE RevokeKey(c) \/ CallFails(c)
      BY <1>1, <1>2, <2>1, <3>2 DEF RevokeKey, CallFails, Answered
    <3>3. QED
      BY <2>4, <3>1, <3>2 DEF Broker
  <2>5. CASE (\E n \in Recoveries : Propose(n)) \/ Others \/ UNCHANGED vars
    BY <1>2, <2>1, <2>5, Quiet
  <2>6. QED
    BY <2>2, <2>3, <2>4, <2>5 DEF Next
<1>4. CASE ~later /\ cleared = "no"
  <2>1. ASSUME worker' = worker PROVE t = <<t[1], "commit">> /\ t[1] \in Recoveries
              /\ phase[t[1]] \in {"committing", "reconciliation-required"}
    BY <1>1, <1>2, <1>4, <2>1, WriterOpen DEF CommittedIsPublished
  <2>2. CASE NewJob \/ ClearByHand
    BY <2>1, <2>2 DEF NewJob, ClearByHand, NothingOpen, Open
  <2>3. ASSUME NEW a \in Reviewers, InspectTask(a), request[a].to = "committed" PROVE FALSE
    <3>1. worker' = worker
      BY <2>3 DEF InspectTask
    <3>2. request[a].task = <<t[1], "commit">>
      BY <1>1, <2>1, <2>3, <3>1, InspectRecords DEF OneOpen, Open
    <3>3. QED
      BY <1>2, <2>1, <2>3, <3>1, <3>2, InspectRecords
  <2>4. ASSUME NEW c \in call, FinishTask(c), c.to = "committed" PROVE FALSE
    <3>1. worker' = worker
      BY <2>4 DEF FinishTask
    <3>2. c.task = <<t[1], "commit">>
      BY <1>1, <2>1, <2>4, <3>1, FinishRecords DEF OneOpen, Open
    <3>3. QED
      BY <1>2, <2>1, <2>4, <3>1, <3>2, FinishRecords
  <2>5. CASE cleared' # "no"
    BY <1>4, <2>2, <2>3, <2>4, <2>5, ClearedBy
  <2>6. CASE later' # later
    <3>1. ASSUME NEW a \in Reviewers, Reviewer(a) PROVE FALSE
      BY <2>6, <3>1 DEF Reviewer, LookToAssess, LookToCommit, LookToInspect, Looked, BeginTask, BindTask,
         LaunchTask, GiveUp, InspectTask, db
    <3>2. ASSUME NEW u \in Tasks, Runner(u) PROVE FALSE
      BY <2>6, <3>2, RequestsAre DEF Runner, Requests, ForceUnlock, PushLocks, PushWrites, PushEnds, WorkerFails,
         WorkerDies, db
    <3>3. ASSUME NEW c \in call, Broker(c) PROVE FALSE
      BY <2>6, <3>3 DEF Broker, ReleaseInput, Fence, RevokeKey, CallFails, FinishTask, db
    <3>4. ASSUME NEW m \in Recoveries, Propose(m) PROVE FALSE
      BY <2>6, <3>4 DEF Propose, RequestRecovery, Expire, BlockAssessment
    <3>5. CASE Others
      BY <2>2, <2>6, <3>5 DEF Others, OldWrites, OldEnds, UserLocks, UserEnds, UserUnlocks, CloudChanges, db
    <3>6. QED
      BY <2>6, <3>1, <3>2, <3>3, <3>4, <3>5 DEF Next, vars, db
  <2>7. QED
    BY <1>2, <1>4, <2>5, <2>6
<1>5. QED
  BY <1>3, <1>4

---------------------------------------------------------------------------
(* The theorems. *)

LEMMA IInvInit == Init => IInv
<1> SUFFICES ASSUME Init PROVE IInv
  OBVIOUS
<1>1. TypeOK
  BY TypeInit
<1>2. TaskInv
  BY TasksOf DEF Init, TaskInv, TaskOK, StateIntent
<1>3. WorkerInv /\ CallInv /\ RequestInv
  BY DEF Init, WorkerInv, WorkerOK, CallInv, RequestInv, RequestOK
<1>4. OneOpen /\ PushedInv /\ CommittedIsPublished
  BY DEF Init, OneOpen, Open, PushedInv, CommittedIsPublished
<1>5. NoWriteBesideJob
  BY DEF Init, NoWriteBesideJob
<1>6. QED
  BY <1>1, <1>2, <1>3, <1>4, <1>5 DEF IInv

LEMMA IInvStep == IInv /\ [Next]_vars => IInv'
BY TypeStep, TaskStep, OpenStep, WorkerStep, CallStep, RequestStep, PushedStep, CommittedStep, NoWriteStep DEF IInv

LEMMA Inductive == Spec => []IInv
BY IInvInit, IInvStep, PTL DEF Spec

\* Every state of the rows, requests and runners has its type.
THEOREM TypeCorrect == Spec => []TypeOK
<1>1. IInv => TypeOK
  BY DEF IInv
<1>2. QED
  BY <1>1, Inductive, PTL

\* A proposal recorded as committed was published and is the reason of the clearance,
\* whichever of the runner's own report and the reviewer's inspection came first.
THEOREM CommittedCorrect == Spec => []CommittedIsPublished
<1>1. IInv => CommittedIsPublished
  BY DEF IInv
<1>2. QED
  BY <1>1, Inductive, PTL

\* A blocked proposal has neither written State nor an intent to do so.
THEOREM BlockedCorrect == Spec => []BlockedUntouched
<1>1. IInv => BlockedUntouched
  <2> SUFFICES ASSUME IInv, NEW n \in Recoveries, phase[n] = "blocked"
               PROVE  n \notin pushed /\ intent[n] \cap {"unlock", "publish"} = {}
    BY DEF BlockedUntouched
  <2>1. TaskOK(n) /\ ~StateIntent(n)
    BY DEF IInv, TaskInv, TaskOK
  <2>2. QED
    BY <2>1 DEF TaskOK, StateIntent
<1>2. QED
  BY <1>1, Inductive, PTL

\* After a later job or a clearance no recovery runner is left that may unlock or write.
THEOREM NoWriteCorrect == Spec => []NoWriteBesideJob
<1>1. IInv => NoWriteBesideJob
  BY DEF IInv
<1>2. QED
  BY <1>1, Inductive, PTL

\* The lost key is gone before a State is published that does not name it.
THEOREM KeysCorrect == Spec => []KeysGoBeforeState
<1>1. IInv => KeysGoBeforeState
  <2> SUFFICES ASSUME IInv, NEW n \in pushed
               PROVE  review[n].inventory.key => ~cloud.key
    BY DEF KeysGoBeforeState
  <2>1. n \in Recoveries /\ TaskOK(n)
    BY DEF IInv, TypeOK, TaskInv
  <2>2. StateIntent(n)
    BY <2>1 DEF TaskOK, StateIntent
  <2>3. QED
    BY <2>1, <2>2 DEF TaskOK, RevocationsAbsent
<1>2. QED
  BY <1>1, Inductive, PTL

\* Only PushWrites publishes.
LEMMA PushedBy ==
  ASSUME [Next]_vars, NEW n \in pushed' \ pushed
  PROVE  \E t \in Tasks : PushWrites(t) /\ t[1] = n
<1>1. ASSUME NEW t \in Tasks, Runner(t) PROVE PushWrites(t) /\ t[1] = n
  BY <1>1, RequestsAre DEF Runner, Requests, ForceUnlock, PushLocks, PushWrites, PushEnds, WorkerFails, WorkerDies
<1>2. ASSUME NEW a \in Reviewers, Reviewer(a) PROVE FALSE
  BY <1>2 DEF Reviewer, LookToAssess, LookToCommit, LookToInspect, Looked, BeginTask, BindTask, LaunchTask,
     GiveUp, InspectTask
<1>3. ASSUME NEW c \in call, Broker(c) PROVE FALSE
  BY <1>3 DEF Broker, ReleaseInput, Fence, RevokeKey, CallFails, FinishTask
<1>4. CASE (\E m \in Recoveries : Propose(m)) \/ Others \/ UNCHANGED vars
  BY <1>4, Quiet
<1>5. QED
  BY <1>1, <1>2, <1>3, <1>4 DEF Next

\* What a publication overwrites is the State that was reviewed.
THEOREM PublishesCorrect == Spec => PublishesOverReviewed
<1>1. IInv /\ [Next]_vars => [\A n \in pushed' \ pushed : s3.state = review[n].original]_vars
  <2> SUFFICES ASSUME IInv, [Next]_vars, NEW n \in pushed' \ pushed
               PROVE  s3.state = review[n].original
    OBVIOUS
  <2>1. PICK t \in Tasks : PushWrites(t) /\ t[1] = n
    BY PushedBy
  <2>2. /\ Kept(review[n]) /\ review[n].original.serial \in Nat
        /\ Candidate(n).serial = review[n].original.serial + 1
    BY <2>1, Reviewed DEF IInv, PushWrites
  <2>3. s3.state.serial < Candidate(n).serial /\ s3.state.serial \in Nat
    BY <2>1 DEF PushWrites, IInv, TypeOK, State
  <2>4. QED
    BY <2>2, <2>3 DEF Kept
<1>2. QED
  BY <1>1, Inductive, PTL DEF Spec, PublishesOverReviewed
===========================================================================
