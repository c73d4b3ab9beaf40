------------------------- MODULE RunnerPool_proofs -------------------------
(* Theorems about RunnerPool, for every value of its constants. *)
EXTENDS RunnerPool, FiniteSetTheorems, TLAPS

---------------------------------------------------------------------------
(* What a step does to a lease *)

Out == {"retiring", "gone"}                               \* given up for good
Late == {"reserved", "assigned", "consumed"} \cup Out     \* was handed to a job

\* The row keeps its job and its assignment; its status changes from st to next.
Turned(s, st, next) ==
  /\ slot[s].status = st /\ slot'[s].status = next
  /\ slot'[s].assignment = slot[s].assignment /\ slot'[s].job = slot[s].job

\* The leases of a row only move forward, and each move is one of these.
SlotMove(s) ==
  \/ Turned(s, slot[s].status, slot[s].status)
  \/ Turned(s, "none", "warming") /\ \E a \in Apis : InsertSlot(a, s)
  \/ Turned(s, "warming", "ready")
  \/ \E j \in Jobs :
       /\ Reserve(j, s) /\ slot'[s].status = "reserved"
       /\ slot'[s].assignment = slot[s].assignment /\ slot'[s].job = j
  \/ \E j \in Jobs, ack \in BOOLEAN :
       /\ Assign(j, ack) /\ dispatch[j].slot = s /\ slot'[s].status = "assigned"
       /\ slot'[s].assignment = j /\ slot'[s].job = slot[s].job
  \/ \E i \in Instances, ack \in BOOLEAN :
       /\ Claim(s, i, ack) /\ slot'[s].status = "consumed"
       /\ slot'[s].assignment = NULL /\ slot'[s].job = slot[s].job
  \/ /\ slot[s].status \notin {"none", "gone"} /\ slot'[s].status = "retiring"
     /\ slot'[s].assignment = NULL /\ slot'[s].job = slot[s].job
     /\ slot[s].status = "consumed" => Completed(s) \/ slot[s].job \in Probes
  \/ /\ slot'[s].status = "gone" /\ slot'[s].assignment = NULL /\ slot'[s].job = NULL
     /\ \/ \E a \in Apis : DeleteRow(a) /\ maint[a].removed = s
        \/ \E j \in Jobs : RemoveRow(j) /\ remover[j] = s

SlotsMove == slot' \in [Slots -> SlotRow] /\ \A s \in Slots : SlotMove(s)

LEMMA SlotKept ==
  ASSUME TypeOK, NEW s \in Slots, slot'[s] = slot[s]
  PROVE  SlotMove(s)
BY DEF SlotMove, Turned

LEMMA OtherSlots ==
  ASSUME TypeOK, NEW s \in Slots, NEW row \in SlotRow, slot' = [slot EXCEPT ![s] = row],
         slot'[s] = row => SlotMove(s)
  PROVE  SlotsMove
<1>1. slot \in [Slots -> SlotRow]
  BY DEF TypeOK
<1>2. slot' \in [Slots -> SlotRow] /\ slot'[s] = row
  BY <1>1
<1>3. \A x \in Slots \ {s} : SlotMove(x)
  BY <1>1, SlotKept
<1>4. QED
  BY <1>2, <1>3 DEF SlotsMove

LEMMA RetiredRow ==
  ASSUME NEW row \in SlotRow
  PROVE  /\ Retired(row) \in SlotRow /\ Retired(row).status = "retiring"
         /\ Retired(row).assignment = NULL /\ Retired(row).job = row.job
BY DEF Retired, SlotRow

LEMMA GoneRow ==
  LET row == [NoSlot EXCEPT !.status = "gone"]
  IN  /\ row \in SlotRow /\ row.status = "gone" /\ row.assignment = NULL /\ row.job = NULL
BY DEF NoSlot, SlotRow

LEMMA MaintainSlots ==
  ASSUME TypeOK, NEW a \in Apis, Maintain(a)
  PROVE  SlotsMove
<1>1. slot \in [Slots -> SlotRow]
  BY DEF TypeOK
<1>2. CASE Retire(a)
  <2>1. \A s \in Slots : slot'[s] = IF Completed(s) \/ Unneeded(slot[s]) THEN Retired(slot[s]) ELSE slot[s]
    BY <1>2 DEF Retire
  <2>2. slot' \in [Slots -> SlotRow]
    BY <1>1, <1>2, RetiredRow DEF Retire
  <2>3. ASSUME NEW s \in Slots PROVE SlotMove(s)
    <3>1. CASE Completed(s) \/ Unneeded(slot[s])
      <4>1. slot'[s] = Retired(slot[s])
        BY <2>1, <3>1
      <4>2. slot[s].status \notin {"none", "gone"}
        BY <3>1 DEF Completed, Unneeded, Claimable, Capacity
      <4>3. slot[s].status = "consumed" => Completed(s) \/ slot[s].job \in Probes
        BY <3>1 DEF Unneeded, Claimable, Capacity
      <4>4. QED
        BY <1>1, <4>1, <4>2, <4>3, RetiredRow DEF SlotMove
    <3>2. CASE ~(Completed(s) \/ Unneeded(slot[s]))
      BY <2>1, <3>2, SlotKept
    <3>3. QED
      BY <3>1, <3>2
  <2>4. QED
    BY <2>2, <2>3 DEF SlotsMove
<1>3. CASE DeleteRow(a)
  <2>1. PICK s \in Slots : s = maint[a].removed
    BY <1>3 DEF DeleteRow, TypeOK, MaintRow
  <2>2. slot' = [slot EXCEPT ![s] = [NoSlot EXCEPT !.status = "gone"]]
    BY <1>3, <2>1 DEF DeleteRow
  <2>3. slot'[s] = [NoSlot EXCEPT !.status = "gone"] => SlotMove(s)
    BY <1>3, <2>1, GoneRow DEF SlotMove
  <2>4. QED
    BY <2>2, <2>3, GoneRow, OtherSlots
<1>4. ASSUME NEW s \in Slots, InsertSlot(a, s) PROVE SlotsMove
  <2>1. PICK row : row = [slot[s] EXCEPT !.status = "warming", !.token = TRUE]
    OBVIOUS
  <2>2. row \in SlotRow /\ row.status = "warming" /\ row.assignment = slot[s].assignment
        /\ row.job = slot[s].job
    BY <1>1, <2>1 DEF SlotRow, Claimable
  <2>3. slot' = [slot EXCEPT ![s] = row] /\ slot[s].status = "none"
    BY <1>4, <2>1 DEF InsertSlot, Fresh
  <2>4. slot'[s] = row => SlotMove(s)
    BY <1>4, <2>2, <2>3 DEF SlotMove, Turned
  <2>5. QED
    BY <2>2, <2>3, <2>4, OtherSlots
<1>5. ASSUME slot' = slot PROVE SlotsMove
  BY <1>1, <1>5, SlotKept DEF SlotsMove
<1>6. QED
  BY <1>2, <1>3, <1>4, <1>5
  DEF Maintain, MaintainFails, MaintainFills, CountSlots, StopsFilling, MaintainReturns, RemoveApp

LEMMA PrepareSlots ==
  ASSUME TypeOK, NEW s \in Slots, PrepareWarm(s)
  PROVE  SlotsMove
<1>1. slot \in [Slots -> SlotRow] /\ slot[s] \in SlotRow
      /\ (slot[s].status = "assigned" <=> slot[s].assignment # NULL)
  BY DEF TypeOK
<1>2. ASSUME slot' = slot PROVE SlotsMove
  BY <1>1, <1>2, SlotKept DEF SlotsMove
<1>3. CASE RecordApp(s)
  <2>1. PICK b \in BOOLEAN : b = (slot[s].status # "gone")
    OBVIOUS
  <2>2. PICK row : row = [slot[s] EXCEPT !.app = b]
    OBVIOUS
  <2>3. row \in SlotRow /\ row.status = slot[s].status
        /\ row.assignment = slot[s].assignment /\ row.job = slot[s].job
    BY <1>1, <2>2 DEF SlotRow
  <2>4. slot' = [slot EXCEPT ![s] = row]
    BY <1>3, <2>1, <2>2 DEF RecordApp
  <2>5. slot'[s] = row => SlotMove(s)
    BY <2>3 DEF SlotMove, Turned
  <2>6. QED
    BY <2>3, <2>4, <2>5, OtherSlots
<1>4. ASSUME slot[s].status \in Capacity,
             slot' = [slot EXCEPT ![s] = [@ EXCEPT !.status = "retiring", !.token = FALSE]]
      PROVE  SlotsMove
  <2>1. PICK row : row = [slot[s] EXCEPT !.status = "retiring", !.token = FALSE]
    OBVIOUS
  <2>2. row \in SlotRow /\ row.status = "retiring"
        /\ row.assignment = slot[s].assignment /\ row.job = slot[s].job
    BY <1>1, <2>1 DEF SlotRow
  <2>3. slot' = [slot EXCEPT ![s] = row] /\ slot[s].assignment = NULL
    BY <1>1, <1>4, <2>1 DEF Capacity
  <2>4. slot'[s] = row => SlotMove(s)
    BY <1>4, <2>2, <2>3 DEF SlotMove, Capacity
  <2>5. QED
    BY <2>2, <2>3, <2>4, OtherSlots
<1>5. QED
  BY <1>2, <1>3, <1>4 DEF PrepareWarm, CreateApp, StartApp, PrepareFails

LEMMA StartSlots ==
  ASSUME TypeOK, NEW j \in Jobs, Start(j)
  PROVE  SlotsMove
<1>1. slot \in [Slots -> SlotRow] /\ j # NULL
  BY ConstantsAssumption DEF TypeOK
<1>2. ASSUME slot' = slot PROVE SlotsMove
  BY <1>1, <1>2, SlotKept DEF SlotsMove
<1>3. ASSUME NEW s \in Slots, Reserve(j, s) PROVE SlotsMove
  <2>1. PICK row : row = [slot[s] EXCEPT !.status = "reserved", !.job = j]
    OBVIOUS
  <2>2. row \in SlotRow /\ row.status = "reserved"
        /\ row.assignment = slot[s].assignment /\ row.job = j
    BY <1>1, <2>1 DEF SlotRow, Claimable
  <2>3. slot' = [slot EXCEPT ![s] = row]
    BY <1>3, <2>1 DEF Reserve
  <2>4. slot'[s] = row => SlotMove(s)
    BY <1>3, <2>2 DEF SlotMove
  <2>5. QED
    BY <2>2, <2>3, <2>4, OtherSlots
<1>4. ASSUME NEW ack \in BOOLEAN, Assign(j, ack) PROVE SlotsMove
  <2>1. CASE dispatch[j].slot \in Slots
    <3>1. PICK s \in Slots : s = dispatch[j].slot
      BY <2>1
    <3>2. PICK row : row = [slot[s] EXCEPT !.status = "assigned", !.assignment = j]
      OBVIOUS
    <3>3. row \in SlotRow /\ row.status = "assigned" /\ row.assignment = j /\ row.job = slot[s].job
      BY <1>1, <3>2 DEF SlotRow, Claimable
    <3>4. slot' = [slot EXCEPT ![s] = row]
      BY <1>4, <3>1, <3>2 DEF Assign
    <3>5. slot'[s] = row => SlotMove(s)
      BY <1>4, <3>1, <3>3 DEF SlotMove
    <3>6. QED
      BY <3>3, <3>4, <3>5, OtherSlots
  <2>2. CASE dispatch[j].slot \notin Slots
    BY <1>1, <1>2, <1>4, <2>2 DEF Assign
  <2>3. QED
    BY <2>1, <2>2
<1>5. ASSUME NEW done \in BOOLEAN, Withdraw(j, done) PROVE SlotsMove
  <2>1. CASE dispatch[j].slot \in Slots /\ done /\ Withdrawn(dispatch[j].slot)
    <3>1. PICK s \in Slots : s = dispatch[j].slot
      BY <2>1
    <3>2. slot' = [slot EXCEPT ![s] = Retired(slot[s])]
      BY <1>5, <2>1, <3>1 DEF Withdraw
    <3>3. Retired(slot[s]) \in SlotRow
      BY <1>1, RetiredRow
    <3>4. slot'[s] = Retired(slot[s]) => SlotMove(s)
      BY <1>1, <2>1, <3>1, RetiredRow DEF SlotMove, Withdrawn
    <3>5. QED
      BY <3>2, <3>3, <3>4, OtherSlots
  <2>2. CASE ~(dispatch[j].slot \in Slots /\ done /\ Withdrawn(dispatch[j].slot))
    BY <1>1, <1>2, <1>5, <2>2 DEF Withdraw
  <2>3. QED
    BY <2>1, <2>2
<1>6. QED
  BY <1>2, <1>3, <1>4, <1>5
  DEF Start, Misses, Record, StartThrows, BindCold, ColdFails, Begin, LaunchCold

LEMMA InstanceSlots ==
  ASSUME TypeOK, NEW s \in Slots, NEW i \in Instances, Instance(s, i)
  PROVE  SlotsMove
<1>1. slot \in [Slots -> SlotRow]
  BY DEF TypeOK
<1>2. ASSUME slot' = slot PROVE SlotsMove
  BY <1>1, <1>2, SlotKept DEF SlotsMove
<1>3. ASSUME NEW ack \in BOOLEAN, Heartbeat(s, i, ack) PROVE SlotsMove
  <2>1. PICK st : st = IF slot[s].status = "warming" THEN "ready" ELSE slot[s].status
    OBVIOUS
  <2>2. PICK row : row = [slot[s] EXCEPT !.status = st, !.quiet = FALSE]
    OBVIOUS
  <2>3. row \in SlotRow /\ row.status = st
        /\ row.assignment = slot[s].assignment /\ row.job = slot[s].job
    BY <1>1, <2>1, <2>2 DEF SlotRow, Claimable
  <2>4. slot' = [slot EXCEPT ![s] = row]
    BY <1>3, <2>1, <2>2 DEF Heartbeat, HeardOf
  <2>5. slot'[s] = row => SlotMove(s)
    BY <2>1, <2>3 DEF SlotMove, Turned
  <2>6. QED
    BY <2>3, <2>4, <2>5, OtherSlots
<1>4. ASSUME NEW ack \in BOOLEAN, Claim(s, i, ack) PROVE SlotsMove
  <2>1. PICK row : row = Consumed(slot[s])
    OBVIOUS
  <2>2. row \in SlotRow /\ row.status = "consumed"
        /\ row.assignment = NULL /\ row.job = slot[s].job
    BY <1>1, <2>1 DEF SlotRow, Consumed
  <2>3. slot' = [slot EXCEPT ![s] = row]
    BY <1>4, <2>1 DEF Claim
  <2>4. slot'[s] = row => SlotMove(s)
    BY <1>4, <2>2 DEF SlotMove
  <2>5. QED
    BY <2>2, <2>3, <2>4, OtherSlots
<1>5. QED
  BY <1>2, <1>3, <1>4 DEF Instance, Boot, ProcessEnds

LEMMA TimeSlots ==
  ASSUME TypeOK, NEW s \in Slots, Expire(s) \/ GrowQuiet(s)
  PROVE  SlotsMove
<1>1. slot[s] \in SlotRow
  BY DEF TypeOK
<1>2. ASSUME NEW row \in SlotRow, row.status = slot[s].status, row.job = slot[s].job,
             row.assignment = slot[s].assignment, slot' = [slot EXCEPT ![s] = row]
      PROVE  SlotsMove
  <2>1. slot'[s] = row => SlotMove(s)
    BY <1>2 DEF SlotMove, Turned
  <2>2. QED
    BY <1>2, <2>1, OtherSlots
<1>3. CASE Expire(s)
  <2>1. PICK row : row = [slot[s] EXCEPT !.expired = TRUE]
    OBVIOUS
  <2>2. row \in SlotRow /\ row.status = slot[s].status
        /\ row.assignment = slot[s].assignment /\ row.job = slot[s].job
    BY <1>1, <2>1 DEF SlotRow
  <2>3. slot' = [slot EXCEPT ![s] = row]
    BY <1>3, <2>1 DEF Expire
  <2>4. QED
    BY <1>2, <2>2, <2>3
<1>4. CASE GrowQuiet(s)
  <2>1. PICK row : row = [slot[s] EXCEPT !.quiet = TRUE]
    OBVIOUS
  <2>2. row \in SlotRow /\ row.status = slot[s].status
        /\ row.assignment = slot[s].assignment /\ row.job = slot[s].job
    BY <1>1, <2>1 DEF SlotRow
  <2>3. slot' = [slot EXCEPT ![s] = row]
    BY <1>4, <2>1 DEF GrowQuiet
  <2>4. QED
    BY <1>2, <2>2, <2>3
<1>5. QED
  BY <1>3, <1>4

LEMMA RemoveSlots ==
  ASSUME TypeOK, NEW j \in Jobs, Remove(j)
  PROVE  SlotsMove
<1>1. slot \in [Slots -> SlotRow]
  BY DEF TypeOK
<1>2. ASSUME slot' = slot PROVE SlotsMove
  BY <1>1, <1>2, SlotKept DEF SlotsMove
<1>3. CASE RemoveRow(j)
  <2>1. PICK s \in Slots : s = remover[j]
    BY <1>3 DEF RemoveRow, TypeOK
  <2>2. slot' = [slot EXCEPT ![s] = [NoSlot EXCEPT !.status = "gone"]]
    BY <1>3, <2>1 DEF RemoveRow
  <2>3. slot'[s] = [NoSlot EXCEPT !.status = "gone"] => SlotMove(s)
    BY <1>3, <2>1, GoneRow DEF SlotMove
  <2>4. QED
    BY <2>2, <2>3, GoneRow, OtherSlots
<1>4. QED
  BY <1>2, <1>3 DEF Remove, RemoveLeased, RemoveCold, RemoveInterrupted

LEMMA SlotStep ==
  ASSUME TypeOK, [Next]_vars
  PROVE  SlotsMove
<1>1. ASSUME slot' = slot PROVE SlotsMove
  BY <1>1, SlotKept DEF SlotsMove, TypeOK
<1>2. QED
  BY <1>1, MaintainSlots, PrepareSlots, StartSlots, InstanceSlots, TimeSlots, RemoveSlots
  DEF Next, vars, ApiCrashes, AppGone, JobEnds, JobHeld, JobSettled

---------------------------------------------------------------------------
(* What a step does to a job, its dispatch and its removal *)

Over == {"ended", "settled", "cleaned"}
Past == {"done", "thrown", "dead"}      \* start() handed the assignment out or gave up

\* A job begins once, may be held, and once it is over it stays so.
JobMove(j) ==
  \/ job'[j].status = job[j].status
  \/ dispatch[j].pc = "new" /\ dispatch'[j].pc # "new" /\ job'[j].status = "live"
  \/ job[j].status \in {"live", "held"} /\ job'[j].status \in {"held"} \cup Over
  \/ /\ job'[j].status = "cleaned"
     /\ job[j].status = "ended" \/ remover[j] # NULL \/ dispatch[j].api # NULL

JobsMove == job' \in [Jobs -> JobRow] /\ \A j \in Jobs : JobMove(j)

LEMMA OtherJobs ==
  ASSUME TypeOK, NEW j \in Jobs, NEW row \in JobRow, job' = [job EXCEPT ![j] = row],
         job'[j] = row => JobMove(j)
  PROVE  JobsMove
<1>1. job \in [Jobs -> JobRow]
  BY DEF TypeOK
<1>2. job' \in [Jobs -> JobRow] /\ job'[j] = row /\ \A x \in Jobs \ {j} : job'[x] = job[x]
  BY <1>1
<1>3. QED
  BY <1>2 DEF JobsMove, JobMove

LEMMA JobKept ==
  ASSUME TypeOK, job' = job
  PROVE  JobsMove
BY DEF TypeOK, JobsMove, JobMove

\* A new status, or a runner that was recorded.
LEMMA JobStatus ==
  ASSUME TypeOK, NEW j \in Jobs, NEW st \in {"live", "held", "settled", "ended", "cleaned"},
         job' = [job EXCEPT ![j].status = st],
         \/ dispatch[j].pc = "new" /\ dispatch'[j].pc # "new" /\ st = "live"
         \/ job[j].status \in {"live", "held"} /\ st \in {"held"} \cup Over
         \/ st = "cleaned" /\ (job[j].status = "ended" \/ remover[j] # NULL)
         \/ st = job[j].status
  PROVE  JobsMove
<1>1. job \in [Jobs -> JobRow]
  BY DEF TypeOK
<1>2. PICK row : row = [job[j] EXCEPT !.status = st]
  OBVIOUS
<1>3. row \in JobRow /\ row.status = st /\ job' = [job EXCEPT ![j] = row]
  BY <1>1, <1>2 DEF JobRow
<1>4. job'[j] = row => JobMove(j)
  BY <1>3 DEF JobMove
<1>5. QED
  BY <1>3, <1>4, OtherJobs

LEMMA JobEnded ==
  ASSUME TypeOK, NEW j \in Jobs, job' = EndedNow(j)
  PROVE  JobsMove
<1>1. CASE job[j].status # "live"
  <2>1. job' = [job EXCEPT ![j].status = job[j].status] /\ job[j] \in JobRow
    BY <1>1 DEF EndedNow, TypeOK
  <2>2. job' = job
    BY <2>1 DEF TypeOK, JobRow
  <2>3. QED
    BY <2>2, JobKept
<1>2. CASE job[j].status = "live"
  <2>1. PICK st \in {"held", "ended"} :
          st = IF j \in ApplicationJobs /\ job[j].app # NULL THEN "held" ELSE "ended"
    OBVIOUS
  <2>2. job' = [job EXCEPT ![j].status = st]
    BY <1>2, <2>1 DEF EndedNow
  <2>3. QED
    BY <1>2, <2>2, JobStatus DEF Over
<1>3. QED
  BY <1>1, <1>2

LEMMA JobRecorded ==
  ASSUME TypeOK, NEW j \in Jobs, NEW r \in Slots \cup Jobs \cup {NULL},
         job' = [job EXCEPT ![j].app = r]
  PROVE  JobsMove
<1>1. PICK row : row = [job[j] EXCEPT !.app = r]
  OBVIOUS
<1>2. row \in JobRow /\ row.status = job[j].status /\ job' = [job EXCEPT ![j] = row]
  BY <1>1 DEF TypeOK, JobRow
<1>3. job'[j] = row => JobMove(j)
  BY <1>2 DEF JobMove
<1>4. QED
  BY <1>2, <1>3, OtherJobs

LEMMA StartJobs ==
  ASSUME TypeOK, NEW j \in Jobs, Start(j)
  PROVE  JobsMove
<1>1. ASSUME NEW a \in Apis, Begin(j, a) PROVE JobsMove
  <2>1. dispatch'[j].pc = "starting"
    BY <1>1 DEF Begin, TypeOK, DispatchRow
  <2>2. QED
    BY <1>1, <2>1, JobStatus DEF Begin
<1>2. CASE Record(j)
  BY <1>2, JobRecorded DEF Record, TypeOK, DispatchRow
<1>3. CASE BindCold(j)
  BY <1>3, JobRecorded DEF BindCold
<1>4. CASE ColdFails(j) \/ \E done \in BOOLEAN : Withdraw(j, done)
  BY <1>4, JobEnded DEF ColdFails, Withdraw
<1>5. ASSUME NEW ack \in BOOLEAN, LaunchCold(j, ack) PROVE JobsMove
  BY <1>5, JobEnded, JobKept DEF LaunchCold
<1>6. QED
  BY <1>1, <1>2, <1>3, <1>4, <1>5, JobKept DEF Start, Misses, StartThrows, Reserve, Assign

LEMMA RemoveJobs ==
  ASSUME TypeOK, NEW j \in Jobs, Remove(j)
  PROVE  JobsMove
<1>1. CASE RemoveRow(j)
  <2>1. remover[j] # NULL
    BY <1>1, ConstantsAssumption DEF RemoveRow
  <2>2. QED
    BY <1>1, <2>1, JobStatus DEF RemoveRow
<1>2. CASE RemoveCold(j)
  BY <1>2, JobStatus DEF RemoveCold
<1>3. CASE RemoveInterrupted(j)
  BY <1>3, JobStatus, JobKept DEF RemoveInterrupted
<1>4. QED
  BY <1>1, <1>2, <1>3, JobKept DEF Remove, RemoveLeased

LEMMA CrashJobs ==
  ASSUME TypeOK, NEW a \in Apis, ApiCrashes(a)
  PROVE  JobsMove
<1>1. job \in [Jobs -> JobRow] /\ a # NULL
  BY ConstantsAssumption DEF TypeOK
<1>2. \A j \in Jobs : [job[j] EXCEPT !.status = "cleaned"] \in JobRow
  BY <1>1 DEF JobRow
<1>3. \A j \in Jobs : \/ job'[j] = job[j]
                      \/ dispatch[j].api = a /\ job'[j] = [job[j] EXCEPT !.status = "cleaned"]
  BY DEF ApiCrashes
<1>4. job' \in [Jobs -> JobRow]
  BY <1>1, <1>2 DEF ApiCrashes
<1>5. ASSUME NEW j \in Jobs PROVE JobMove(j)
  BY <1>1, <1>3 DEF JobMove, JobRow
<1>6. QED
  BY <1>4, <1>5 DEF JobsMove

LEMMA JobStep ==
  ASSUME TypeOK, [Next]_vars
  PROVE  JobsMove
<1>1. ASSUME NEW j \in Jobs, JobEnds(j) \/ JobHeld(j) \/ JobSettled(j) PROVE JobsMove
  <2>1. CASE JobEnds(j)
    BY <2>1, JobStatus DEF JobEnds, Over
  <2>2. CASE JobHeld(j)
    BY <2>2, JobStatus DEF JobHeld
  <2>3. CASE JobSettled(j)
    BY <2>3, JobStatus DEF JobSettled, Over
  <2>4. QED
    BY <1>1, <2>1, <2>2, <2>3
<1>2. ASSUME NEW a \in Apis, Maintain(a) PROVE job' = job
  BY <1>2 DEF Maintain, Retire, DeleteRow, MaintainFails, MaintainFills, CountSlots,
              StopsFilling, MaintainReturns, RemoveApp, InsertSlot
<1>3. ASSUME NEW s \in Slots, PrepareWarm(s) \/ AppGone(s) \/ Expire(s) \/ GrowQuiet(s)
      PROVE  job' = job
  BY <1>3 DEF PrepareWarm, CreateApp, RecordApp, PrepareFails, StartApp, AppGone, Expire, GrowQuiet
<1>4. ASSUME NEW s \in Slots, NEW i \in Instances, Instance(s, i) PROVE job' = job
  BY <1>4 DEF Instance, Boot, ProcessEnds, Heartbeat, Claim
<1>5. QED
  BY <1>1, <1>2, <1>3, <1>4, JobKept, StartJobs, RemoveJobs, CrashJobs DEF Next, vars

\* A transition of start() that keeps the slot.
Goes(pc, next) ==
  \/ pc = "starting" /\ next = "cold"
  \/ pc = "cold" /\ next = "bound"
  \/ pc = "bound" /\ next = "done"
  \/ pc = "reserved" /\ next = "recorded"
  \/ pc \in {"reserved", "recorded"} /\ next = "thrown"
  \/ pc = "recorded" /\ next = "done"
  \/ pc \notin {"new", "done"} /\ next = "dead"

\* The progress of start(): a slot is chosen once, and nothing leads back.
DispatchMove(j) ==
  \/ /\ dispatch'[j].pc = dispatch[j].pc
     /\ dispatch'[j].slot = dispatch[j].slot /\ dispatch'[j].api = dispatch[j].api
  \/ \E s \in Slots : Reserve(j, s) /\ dispatch'[j].pc = "reserved" /\ dispatch'[j].slot = s
  \/ /\ dispatch'[j].slot = dispatch[j].slot
     /\ \/ dispatch[j].pc = "new" /\ dispatch'[j].pc = "starting" /\ job'[j].status = "live"
        \/ Goes(dispatch[j].pc, dispatch'[j].pc)

\* A dispatch that was not begun has no process.
Unbegun == \A j \in Jobs : dispatch[j].pc = "new" => dispatch[j].api = NULL

DispatchesMove == dispatch' \in [Jobs -> DispatchRow] /\ \A j \in Jobs : DispatchMove(j)

LEMMA DispatchKept ==
  ASSUME TypeOK, dispatch' = dispatch
  PROVE  DispatchesMove
BY DEF TypeOK, DispatchesMove, DispatchMove

LEMMA OtherDispatches ==
  ASSUME TypeOK, NEW j \in Jobs, NEW row \in DispatchRow, dispatch' = [dispatch EXCEPT ![j] = row],
         dispatch'[j] = row => DispatchMove(j)
  PROVE  DispatchesMove
<1>1. dispatch \in [Jobs -> DispatchRow]
  BY DEF TypeOK
<1>2. dispatch' \in [Jobs -> DispatchRow] /\ dispatch'[j] = row
      /\ \A x \in Jobs \ {j} : dispatch'[x] = dispatch[x]
  BY <1>1
<1>3. QED
  BY <1>2 DEF DispatchesMove, DispatchMove

LEMMA DispatchGoes ==
  ASSUME TypeOK, NEW j \in Jobs, NEW next, Goes(dispatch[j].pc, next),
         dispatch' = [dispatch EXCEPT ![j].pc = next]
  PROVE  DispatchesMove
<1>1. PICK row : row = [dispatch[j] EXCEPT !.pc = next]
  OBVIOUS
<1>2. row \in DispatchRow /\ row.pc = next /\ row.slot = dispatch[j].slot
      /\ dispatch' = [dispatch EXCEPT ![j] = row]
  BY <1>1 DEF TypeOK, DispatchRow, Goes
<1>3. dispatch'[j] = row => DispatchMove(j)
  BY <1>2 DEF DispatchMove
<1>4. QED
  BY <1>2, <1>3, OtherDispatches

LEMMA StartDispatches ==
  ASSUME TypeOK, NEW j \in Jobs, Start(j)
  PROVE  DispatchesMove
<1>1. ASSUME NEW a \in Apis, Begin(j, a) PROVE DispatchesMove
  <2>1. PICK row : row = [dispatch[j] EXCEPT !.pc = "starting", !.api = a]
    OBVIOUS
  <2>2. row \in DispatchRow /\ row.pc = "starting" /\ row.slot = dispatch[j].slot
        /\ dispatch' = [dispatch EXCEPT ![j] = row]
    BY <1>1, <2>1 DEF Begin, TypeOK, DispatchRow
  <2>3. dispatch'[j] = row => DispatchMove(j)
    BY <1>1, <2>2 DEF Begin, DispatchMove, TypeOK, JobRow
  <2>4. QED
    BY <2>2, <2>3, OtherDispatches
<1>2. ASSUME NEW s \in Slots, Reserve(j, s) PROVE DispatchesMove
  <2>1. PICK row : row = [dispatch[j] EXCEPT !.pc = "reserved", !.slot = s]
    OBVIOUS
  <2>2. row \in DispatchRow /\ row.pc = "reserved" /\ row.slot = s
        /\ dispatch' = [dispatch EXCEPT ![j] = row]
    BY <1>2, <2>1 DEF Reserve, TypeOK, DispatchRow
  <2>3. dispatch'[j] = row => DispatchMove(j)
    BY <1>2, <2>2 DEF DispatchMove
  <2>4. QED
    BY <2>2, <2>3, OtherDispatches
<1>3. CASE Misses(j) \/ Record(j) \/ StartThrows(j) \/ BindCold(j) \/ ColdFails(j)
  BY <1>3, DispatchGoes DEF Goes, Misses, Record, StartThrows, BindCold, ColdFails
<1>4. ASSUME NEW ack \in BOOLEAN, Assign(j, ack) \/ LaunchCold(j, ack) \/ Withdraw(j, ack)
      PROVE  DispatchesMove
  <2>1. CASE Assign(j, ack)
    BY <2>1, DispatchGoes DEF Goes, Assign
  <2>2. CASE LaunchCold(j, ack)
    BY <2>2, DispatchGoes DEF Goes, LaunchCold
  <2>3. CASE Withdraw(j, ack)
    BY <2>3, DispatchGoes DEF Goes, Withdraw
  <2>4. QED
    BY <1>4, <2>1, <2>2, <2>3
<1>5. QED
  BY <1>1, <1>2, <1>3, <1>4 DEF Start

LEMMA CrashDispatches ==
  ASSUME TypeOK, Unbegun, NEW a \in Apis, ApiCrashes(a)
  PROVE  DispatchesMove
<1>1. dispatch \in [Jobs -> DispatchRow] /\ a # NULL
  BY ConstantsAssumption DEF TypeOK
<1>2. \A j \in Jobs : [dispatch[j] EXCEPT !.pc = "dead"] \in DispatchRow
  BY <1>1 DEF DispatchRow
<1>3. \A j \in Jobs : \/ dispatch'[j] = dispatch[j]
                      \/ /\ dispatch[j].api = a /\ dispatch[j].pc # "done"
                         /\ dispatch'[j] = [dispatch[j] EXCEPT !.pc = "dead"]
  BY DEF ApiCrashes
<1>4. dispatch' \in [Jobs -> DispatchRow]
  BY <1>1, <1>2 DEF ApiCrashes
<1>5. ASSUME NEW j \in Jobs PROVE DispatchMove(j)
  <2>1. CASE dispatch'[j] = dispatch[j]
    BY <2>1 DEF DispatchMove
  <2>2. CASE /\ dispatch[j].api = a /\ dispatch[j].pc # "done"
             /\ dispatch'[j] = [dispatch[j] EXCEPT !.pc = "dead"]
    <3>1. dispatch'[j].pc = "dead" /\ dispatch'[j].slot = dispatch[j].slot
      BY <1>1, <2>2 DEF DispatchRow
    <3>2. dispatch[j].pc \notin {"new", "done"}
      BY <1>1, <2>2 DEF Unbegun
    <3>3. QED
      BY <3>1, <3>2 DEF DispatchMove, Goes
  <2>3. QED
    BY <1>3, <2>1, <2>2
<1>6. QED
  BY <1>4, <1>5 DEF DispatchesMove

LEMMA DispatchStep ==
  ASSUME TypeOK, Unbegun, [Next]_vars
  PROVE  DispatchesMove
<1>1. ASSUME NEW a \in Apis, Maintain(a) PROVE dispatch' = dispatch
  BY <1>1 DEF Maintain, Retire, DeleteRow, MaintainFails, MaintainFills, CountSlots,
              StopsFilling, MaintainReturns, RemoveApp, InsertSlot
<1>2. ASSUME NEW s \in Slots, PrepareWarm(s) \/ AppGone(s) \/ Expire(s) \/ GrowQuiet(s)
      PROVE  dispatch' = dispatch
  BY <1>2 DEF PrepareWarm, CreateApp, RecordApp, PrepareFails, StartApp, AppGone, Expire, GrowQuiet
<1>3. ASSUME NEW s \in Slots, NEW i \in Instances, Instance(s, i) PROVE dispatch' = dispatch
  BY <1>3 DEF Instance, Boot, ProcessEnds, Heartbeat, Claim
<1>4. ASSUME NEW j \in Jobs, JobEnds(j) \/ JobHeld(j) \/ JobSettled(j) \/ Remove(j)
      PROVE  dispatch' = dispatch
  BY <1>4 DEF JobEnds, JobHeld, JobSettled, Remove, RemoveLeased, RemoveRow, RemoveCold,
              RemoveInterrupted
<1>5. QED
  BY <1>1, <1>2, <1>3, <1>4, DispatchKept, StartDispatches, CrashDispatches DEF Next, vars

LEMMA UnbegunStep == TypeOK /\ Unbegun /\ [Next]_vars => Unbegun'
<1> SUFFICES ASSUME TypeOK, Unbegun, [Next]_vars, NEW j \in Jobs, dispatch'[j].pc = "new"
             PROVE  dispatch'[j].api = NULL
  BY DEF Unbegun
<1>1. QED
  BY DispatchStep DEF DispatchesMove, DispatchMove, Goes, Unbegun

---------------------------------------------------------------------------
(* What a step does to the app of a lease, and to its preparation *)

PrepareMove(s) ==
  \/ prepare'[s].pc = prepare[s].pc
  \/ prepare'[s].pc = "pending" /\ slot[s].status = "none" /\ slot'[s].status = "warming"
  \/ prepare'[s].pc = "created" /\ CreateApp(s)
  \/ prepare'[s].pc = "recorded" /\ RecordApp(s)
  \/ prepare'[s].pc = "done" /\ prepare[s].pc \in {"pending", "created", "recorded"}

PreparesMove == prepare' \in [Slots -> PrepareRow] /\ \A s \in Slots : PrepareMove(s)

LEMMA OtherPrepares ==
  ASSUME TypeOK, NEW s \in Slots, NEW row \in PrepareRow, prepare' = [prepare EXCEPT ![s] = row],
         prepare'[s] = row => PrepareMove(s)
  PROVE  PreparesMove
<1>1. prepare \in [Slots -> PrepareRow]
  BY DEF TypeOK
<1>2. prepare' \in [Slots -> PrepareRow] /\ prepare'[s] = row
      /\ \A x \in Slots \ {s} : prepare'[x] = prepare[x]
  BY <1>1
<1>3. QED
  BY <1>2 DEF PreparesMove, PrepareMove

LEMMA PrepareKept ==
  ASSUME TypeOK, prepare' = prepare
  PROVE  PreparesMove
BY DEF TypeOK, PreparesMove, PrepareMove

LEMMA AbandonedPrepares ==
  ASSUME TypeOK, NEW a \in Apis, prepare' = Abandoned(a)
  PROVE  PreparesMove
<1>1. prepare \in [Slots -> PrepareRow]
  BY DEF TypeOK
<1>2. [pc |-> "done", api |-> NULL] \in PrepareRow
  BY DEF PrepareRow
<1>3. \A s \in Slots : prepare'[s] = IF s \in Preparing(a) THEN [pc |-> "done", api |-> NULL]
                                     ELSE prepare[s]
  BY DEF Abandoned
<1>4. prepare' \in [Slots -> PrepareRow]
  BY <1>1, <1>2 DEF Abandoned
<1>5. QED
  BY <1>3, <1>4 DEF PreparesMove, PrepareMove, Preparing

LEMMA PrepareWarmPrepares ==
  ASSUME TypeOK, NEW s \in Slots, PrepareWarm(s)
  PROVE  PreparesMove
<1>1. prepare \in [Slots -> PrepareRow]
  BY DEF TypeOK
<1>2. ASSUME NEW pc \in {"created", "recorded"}, prepare' = [prepare EXCEPT ![s].pc = pc],
             (pc = "created" /\ CreateApp(s)) \/ (pc = "recorded" /\ RecordApp(s))
      PROVE  PreparesMove
  <2>1. PICK row : row = [prepare[s] EXCEPT !.pc = pc]
    OBVIOUS
  <2>2. row \in PrepareRow /\ row.pc = pc /\ prepare' = [prepare EXCEPT ![s] = row]
    BY <1>1, <1>2, <2>1 DEF PrepareRow
  <2>3. prepare'[s] = row => PrepareMove(s)
    BY <1>2, <2>2 DEF PrepareMove
  <2>4. QED
    BY <2>2, <2>3, OtherPrepares
<1>3. ASSUME prepare' = [prepare EXCEPT ![s] = [pc |-> "done", api |-> NULL]],
             prepare[s].pc \in {"pending", "created", "recorded"}
      PROVE  PreparesMove
  <2>1. [pc |-> "done", api |-> NULL] \in PrepareRow
    BY DEF PrepareRow
  <2>2. prepare'[s] = [pc |-> "done", api |-> NULL] => PrepareMove(s)
    BY <1>3 DEF PrepareMove
  <2>3. QED
    BY <1>3, <2>1, <2>2, OtherPrepares
<1>4. CASE CreateApp(s)
  BY <1>2, <1>4 DEF CreateApp
<1>5. CASE RecordApp(s)
  BY <1>2, <1>5 DEF RecordApp
<1>6. CASE PrepareFails(s) \/ \E ack \in BOOLEAN : StartApp(s, ack)
  BY <1>3, <1>6 DEF PrepareFails, StartApp
<1>7. QED
  BY <1>4, <1>5, <1>6 DEF PrepareWarm

LEMMA MaintainPrepares ==
  ASSUME TypeOK, NEW a \in Apis, Maintain(a)
  PROVE  PreparesMove
<1>1. ASSUME NEW s \in Slots, InsertSlot(a, s) PROVE PreparesMove
  <2>1. [pc |-> "pending", api |-> a] \in PrepareRow
    BY DEF PrepareRow
  <2>2. slot[s].status = "none" /\ slot'[s].status = "warming"
    BY <1>1 DEF InsertSlot, Fresh, TypeOK, SlotRow
  <2>3. prepare'[s] = [pc |-> "pending", api |-> a] => PrepareMove(s)
    BY <2>2 DEF PrepareMove
  <2>4. QED
    BY <1>1, <2>1, <2>3, OtherPrepares DEF InsertSlot
<1>2. QED
  BY <1>1, PrepareKept, AbandonedPrepares
  DEF Maintain, Retire, DeleteRow, MaintainFails, MaintainFills, CountSlots, StopsFilling,
      MaintainReturns, RemoveApp

LEMMA PrepareStep ==
  ASSUME TypeOK, [Next]_vars
  PROVE  PreparesMove
<1>1. ASSUME NEW a \in Apis, ApiCrashes(a) PROVE PreparesMove
  BY <1>1, AbandonedPrepares DEF ApiCrashes
<1>2. ASSUME NEW s \in Slots, AppGone(s) \/ Expire(s) \/ GrowQuiet(s) PROVE prepare' = prepare
  BY <1>2 DEF AppGone, Expire, GrowQuiet
<1>3. ASSUME NEW s \in Slots, NEW i \in Instances, Instance(s, i) PROVE prepare' = prepare
  BY <1>3 DEF Instance, Boot, ProcessEnds, Heartbeat, Claim
<1>4. ASSUME NEW j \in Jobs, Start(j) PROVE prepare' = prepare
  BY <1>4 DEF Start, Misses, Record, StartThrows, BindCold, ColdFails, Begin, Reserve, Assign,
              LaunchCold, Withdraw
<1>5. ASSUME NEW j \in Jobs, JobEnds(j) \/ JobHeld(j) \/ JobSettled(j) \/ Remove(j)
      PROVE  prepare' = prepare
  BY <1>5 DEF JobEnds, JobHeld, JobSettled, Remove, RemoveLeased, RemoveRow, RemoveCold,
              RemoveInterrupted
<1>6. QED
  BY <1>1, <1>2, <1>3, <1>4, <1>5, PrepareKept, PrepareWarmPrepares, MaintainPrepares DEF Next, vars

\* An app is created, started, deleted and gone, in this order.
AppMove(s) ==
  \/ app'[s] = app[s]
  \/ app'[s] = "created" /\ CreateApp(s)
  \/ app'[s] = "started" /\ \E ack \in BOOLEAN : StartApp(s, ack)
  \/ /\ app'[s] = "deleting" /\ app[s] \in {"created", "started"}
     /\ \/ \E a \in Apis : RemoveApp(a, s)
        \/ \E j \in Jobs : RemoveLeased(j) /\ slot[s].job = j
  \/ app'[s] = "deleted" /\ AppGone(s)

AppRow == {"none", "created", "started", "deleting", "deleted"}

AppsMove == app' \in [Slots -> AppRow] /\ \A s \in Slots : AppMove(s)

LEMMA OtherApps ==
  ASSUME TypeOK, NEW s \in Slots, NEW st \in AppRow, app' = [app EXCEPT ![s] = st],
         app'[s] = st => AppMove(s)
  PROVE  AppsMove
<1>1. app \in [Slots -> AppRow]
  BY DEF TypeOK, AppRow
<1>2. app' \in [Slots -> AppRow] /\ app'[s] = st /\ \A x \in Slots \ {s} : app'[x] = app[x]
  BY <1>1
<1>3. QED
  BY <1>2 DEF AppsMove, AppMove

LEMMA AppKept ==
  ASSUME TypeOK, app' = app
  PROVE  AppsMove
BY DEF TypeOK, AppsMove, AppMove, AppRow

LEMMA DeletedApps ==
  ASSUME TypeOK, NEW s \in Slots, app' = [app EXCEPT ![s] = Deleted(s)],
         \/ \E a \in Apis : RemoveApp(a, s)
         \/ \E j \in Jobs : RemoveLeased(j) /\ slot[s].job = j
  PROVE  AppsMove
<1>1. app \in [Slots -> AppRow]
  BY DEF TypeOK, AppRow
<1>2. PICK st \in AppRow : st = Deleted(s)
  BY <1>1 DEF Deleted, AppRow
<1>3. app'[s] = st => AppMove(s)
  BY <1>2 DEF Deleted, AppMove
<1>4. QED
  BY <1>2, <1>3, OtherApps

LEMMA AppStep ==
  ASSUME TypeOK, [Next]_vars
  PROVE  AppsMove
<1>1. ASSUME NEW a \in Apis, Maintain(a) PROVE AppsMove
  <2>1. ASSUME NEW s \in Slots, RemoveApp(a, s) PROVE AppsMove
    BY <2>1, DeletedApps DEF RemoveApp
  <2>2. QED
    BY <1>1, <2>1, AppKept DEF Maintain, Retire, DeleteRow, MaintainFails, MaintainFills,
       CountSlots, StopsFilling, MaintainReturns, InsertSlot
<1>2. ASSUME NEW s \in Slots, PrepareWarm(s) PROVE AppsMove
  <2>1. CASE CreateApp(s)
    BY <2>1, OtherApps DEF CreateApp, AppMove, AppRow
  <2>2. ASSUME NEW ack \in BOOLEAN, StartApp(s, ack) PROVE AppsMove
    <3>1. app' = [app EXCEPT ![s] = "started"]
      BY <2>2 DEF StartApp
    <3>2. app'[s] = "started" => AppMove(s)
      BY <2>2 DEF AppMove
    <3>3. QED
      BY <3>1, <3>2, OtherApps DEF AppRow
  <2>3. QED
    BY <1>2, <2>1, <2>2, AppKept DEF PrepareWarm, RecordApp, PrepareFails
<1>3. ASSUME NEW s \in Slots, AppGone(s) PROVE AppsMove
  BY <1>3, OtherApps DEF AppGone, AppMove, AppRow
<1>4. ASSUME NEW j \in Jobs, Remove(j) PROVE AppsMove
  <2>1. CASE RemoveLeased(j)
    <3>1. PICK s \in Slots : slot[s].job = j /\ app' = [app EXCEPT ![s] = Deleted(s)]
      BY <2>1 DEF RemoveLeased, Leased
    <3>2. QED
      BY <2>1, <3>1, DeletedApps
  <2>2. QED
    BY <1>4, <2>1, AppKept DEF Remove, RemoveRow, RemoveCold, RemoveInterrupted
<1>5. ASSUME NEW j \in Jobs, Start(j) \/ JobEnds(j) \/ JobHeld(j) \/ JobSettled(j)
      PROVE  app' = app
  BY <1>5 DEF Start, Misses, Record, StartThrows, BindCold, ColdFails, Begin, Reserve, Assign,
              LaunchCold, Withdraw, JobEnds, JobHeld, JobSettled
<1>6. ASSUME NEW s \in Slots, NEW i \in Instances, Instance(s, i) PROVE app' = app
  BY <1>6 DEF Instance, Boot, ProcessEnds, Heartbeat, Claim
<1>7. QED
  BY <1>1, <1>2, <1>3, <1>4, <1>5, <1>6, AppKept DEF Next, vars, Expire, GrowQuiet, ApiCrashes

---------------------------------------------------------------------------
(* What a step does to the instances, to maintain() and remove(), and to the lock *)

\* An instance comes from a started app and does not outlive it.
ProcsMove ==
  /\ proc' \in [Slots \X Instances -> {"off", "polling", "executing"}]
  /\ \A s \in Slots, i \in Instances :
       proc'[<<s, i>>] # "off" =>
         /\ proc[<<s, i>>] # "off" \/ app[s] = "started"
         /\ app'[s] = app[s] \/ app'[s] # "deleted"

LEMMA OtherProcs ==
  ASSUME TypeOK, AppsMove, NEW s \in Slots, NEW i \in Instances, app' = app,
         NEW st \in {"off", "polling", "executing"}, proc' = [proc EXCEPT ![<<s, i>>] = st],
         st # "off" => proc[<<s, i>>] # "off" \/ app[s] = "started"
  PROVE  ProcsMove
<1>1. proc \in [Slots \X Instances -> {"off", "polling", "executing"}] /\ <<s, i>> \in Slots \X Instances
  BY DEF TypeOK
<1>2. proc'[<<s, i>>] = st /\ \A x \in Slots \X Instances : x # <<s, i>> => proc'[x] = proc[x]
  BY <1>1
<1>3. proc' \in [Slots \X Instances -> {"off", "polling", "executing"}]
  BY <1>1
<1>4. ASSUME NEW t \in Slots, NEW k \in Instances, proc'[<<t, k>>] # "off"
      PROVE  proc[<<t, k>>] # "off" \/ app[t] = "started"
  <2>1. CASE <<t, k>> = <<s, i>>
    BY <1>2, <1>4, <2>1
  <2>2. CASE <<t, k>> # <<s, i>>
    <3>1. <<t, k>> \in Slots \X Instances
      OBVIOUS
    <3>2. QED
      BY <1>2, <1>4, <2>2, <3>1
  <2>3. QED
    BY <2>1, <2>2
<1>5. QED
  BY <1>3, <1>4 DEF ProcsMove

LEMMA InstanceProcs ==
  ASSUME TypeOK, AppsMove, NEW s \in Slots, NEW i \in Instances, Instance(s, i)
  PROVE  ProcsMove
<1>1. proc \in [Slots \X Instances -> {"off", "polling", "executing"}] /\ app' = app
  BY DEF TypeOK, Instance, Boot, ProcessEnds, Heartbeat, Claim
<1>2. CASE Boot(s, i)
  BY <1>1, <1>2, OtherProcs DEF Boot
<1>3. CASE ProcessEnds(s, i)
  BY <1>1, <1>3, OtherProcs DEF ProcessEnds
<1>4. ASSUME NEW ack \in BOOLEAN, Heartbeat(s, i, ack) PROVE ProcsMove
  <2>1. CASE ack
    BY <1>1, <1>4, <2>1 DEF Heartbeat, ProcsMove
  <2>2. CASE ~ack
    BY <1>1, <1>4, <2>2, OtherProcs DEF Heartbeat
  <2>3. QED
    BY <2>1, <2>2
<1>5. ASSUME NEW ack \in BOOLEAN, Claim(s, i, ack) PROVE ProcsMove
  <2>1. PICK st \in {"off", "executing"} : st = IF ack THEN "executing" ELSE "off"
    OBVIOUS
  <2>2. proc' = [proc EXCEPT ![<<s, i>>] = st] /\ proc[<<s, i>>] # "off"
    BY <1>5, <2>1 DEF Claim
  <2>3. QED
    BY <1>1, <2>2, OtherProcs
<1>6. QED
  BY <1>2, <1>3, <1>4, <1>5 DEF Instance

LEMMA ProcStep ==
  ASSUME TypeOK, [Next]_vars
  PROVE  ProcsMove
<1>1. proc \in [Slots \X Instances -> {"off", "polling", "executing"}] /\ AppsMove
  BY AppStep DEF TypeOK
<1>2. CASE \E s \in Slots : AppGone(s)
  <2>1. PICK s \in Slots : AppGone(s)
    BY <1>2
  <2>2. \A x \in Slots \X Instances : proc'[x] = IF x[1] = s THEN "off" ELSE proc[x]
    BY <2>1 DEF AppGone
  <2>3. proc' \in [Slots \X Instances -> {"off", "polling", "executing"}]
    BY <1>1, <2>1 DEF AppGone
  <2>4. \A t \in Slots \ {s} : app'[t] = app[t]
    BY <2>1 DEF AppGone, TypeOK
  <2>5. ASSUME NEW t \in Slots, NEW k \in Instances, proc'[<<t, k>>] # "off"
        PROVE  t # s /\ proc[<<t, k>>] # "off"
    <3>1. <<t, k>> \in Slots \X Instances /\ <<t, k>>[1] = t
      OBVIOUS
    <3>2. QED
      BY <2>2, <2>5, <3>1
  <2>6. QED
    BY <2>3, <2>4, <2>5 DEF ProcsMove
<1>3. ASSUME proc' = proc, \A s \in Slots : app'[s] = app[s] \/ app'[s] # "deleted" PROVE ProcsMove
  BY <1>1, <1>3 DEF ProcsMove
<1>4. ASSUME proc' = proc, \A s \in Slots : ~AppGone(s) PROVE ProcsMove
  BY <1>1, <1>3, <1>4 DEF AppsMove, AppMove, CreateApp, StartApp
<1>5. ASSUME NEW a \in Apis, Maintain(a) \/ ApiCrashes(a) PROVE proc' = proc
  BY <1>5 DEF Maintain, Retire, DeleteRow, MaintainFails, MaintainFills, CountSlots,
              StopsFilling, MaintainReturns, RemoveApp, InsertSlot, ApiCrashes
<1>6. ASSUME NEW s \in Slots, PrepareWarm(s) \/ Expire(s) \/ GrowQuiet(s) PROVE proc' = proc
  BY <1>6 DEF PrepareWarm, CreateApp, RecordApp, PrepareFails, StartApp, Expire, GrowQuiet
<1>7. ASSUME NEW j \in Jobs, Start(j) PROVE proc' = proc
  BY <1>7 DEF Start, Misses, Record, StartThrows, BindCold, ColdFails, Begin, Reserve, Assign,
              LaunchCold, Withdraw
<1>8. ASSUME NEW j \in Jobs, JobEnds(j) \/ JobHeld(j) \/ JobSettled(j) \/ Remove(j)
      PROVE  proc' = proc
  BY <1>8 DEF JobEnds, JobHeld, JobSettled, Remove, RemoveLeased, RemoveRow, RemoveCold,
              RemoveInterrupted
<1>9. QED
  BY <1>2, <1>4, <1>5, <1>6, <1>7, <1>8, AppStep, InstanceProcs DEF Next, vars

\* The work list of a pass, and the row whose app it has deleted.
MaintMove(a) ==
  /\ maint'[a].todo \subseteq maint[a].todo \/ Retire(a)
  /\ \/ maint'[a].removed \in {maint[a].removed, NULL}
     \/ \E s \in Slots : RemoveApp(a, s) /\ maint'[a].removed = s

\* The lock is taken and released with the step of the pass it guards.
LockMove(a) ==
  \/ (maint'[a].pc = "inserting" <=> maint[a].pc = "inserting") /\ (filling' = a <=> filling = a)
  \/ CountSlots(a) /\ maint'[a].pc = "inserting"
  \/ maint'[a].pc # "inserting" /\ filling' # a

MaintsMove ==
  /\ maint' \in [Apis -> MaintRow] /\ filling' \in Apis \cup {NULL}
  /\ \A a \in Apis : MaintMove(a) /\ LockMove(a)

LEMMA MaintKept ==
  ASSUME TypeOK, maint' = maint, filling' = filling
  PROVE  MaintsMove
BY DEF TypeOK, MaintsMove, MaintMove, LockMove

\* Only the row of a changes, and nobody else gets or loses the lock.
LEMMA OtherMaints ==
  ASSUME TypeOK, NEW a \in Apis, NEW row \in MaintRow, maint' = [maint EXCEPT ![a] = row],
         filling' \in Apis \cup {NULL}, \A b \in Apis \ {a} : filling' = b <=> filling = b,
         maint'[a] = row => MaintMove(a) /\ LockMove(a)
  PROVE  MaintsMove
<1>1. maint \in [Apis -> MaintRow]
  BY DEF TypeOK
<1>2. maint' \in [Apis -> MaintRow] /\ maint'[a] = row
      /\ \A x \in Apis \ {a} : maint'[x] = maint[x]
  BY <1>1
<1>3. QED
  BY <1>2 DEF MaintsMove, MaintMove, LockMove

LEMMA RestingMaints ==
  ASSUME TypeOK, NEW a \in Apis, maint' = [maint EXCEPT ![a] = Resting],
         \/ filling' = IF filling = a THEN NULL ELSE filling
         \/ maint[a].pc # "inserting" /\ filling' = filling
  PROVE  MaintsMove
<1>1. filling \in Apis \cup {NULL} /\ a # NULL /\ Size \in Nat
  BY ConstantsAssumption DEF TypeOK
<1>2. Resting \in MaintRow /\ Resting.pc = "idle" /\ Resting.todo = {} /\ Resting.removed = NULL
  BY <1>1 DEF Resting, MaintRow
<1>3. maint'[a] = Resting => MaintMove(a) /\ LockMove(a)
  BY <1>1, <1>2 DEF MaintMove, LockMove
<1>4. QED
  BY <1>1, <1>2, <1>3, OtherMaints, ConstantsAssumption

LEMMA MaintainMaints ==
  ASSUME TypeOK, NEW a \in Apis, Maintain(a)
  PROVE  MaintsMove
<1>1. /\ maint \in [Apis -> MaintRow] /\ maint[a] \in MaintRow /\ {0, Size} \subseteq 0..Size
      /\ filling \in Apis \cup {NULL} /\ a # NULL
  <2>1. {0, Size} \subseteq 0..Size
    BY ConstantsAssumption
  <2>2. QED
    BY <2>1, ConstantsAssumption DEF TypeOK
<1>2. CASE Retire(a)
  <2>1. PICK todo \in SUBSET Slots : todo = {s \in Slots : slot'[s].status = "retiring"}
    OBVIOUS
  <2>2. PICK row : row = [maint[a] EXCEPT !.pc = "removing", !.todo = todo]
    OBVIOUS
  <2>3. row \in MaintRow /\ row.pc = "removing" /\ row.removed = maint[a].removed
    BY <1>1, <2>2 DEF MaintRow
  <2>4. maint' = [maint EXCEPT ![a] = row] /\ filling' = filling /\ maint[a].pc = "idle"
    BY <1>2, <2>1, <2>2 DEF Retire
  <2>5. maint'[a] = row => MaintMove(a) /\ LockMove(a)
    BY <1>2, <2>3, <2>4 DEF MaintMove, LockMove
  <2>6. QED
    BY <1>1, <2>3, <2>4, <2>5, OtherMaints
<1>3. ASSUME NEW s \in Slots, RemoveApp(a, s) PROVE MaintsMove
  <2>1. PICK row : row = [maint[a] EXCEPT !.removed = s]
    OBVIOUS
  <2>2. row \in MaintRow /\ row.pc = maint[a].pc /\ row.removed = s /\ row.todo = maint[a].todo
    BY <1>1, <2>1 DEF MaintRow
  <2>3. maint' = [maint EXCEPT ![a] = row] /\ filling' = filling
    BY <1>3, <2>1 DEF RemoveApp
  <2>4. maint'[a] = row => MaintMove(a) /\ LockMove(a)
    BY <1>3, <2>2, <2>3 DEF MaintMove, LockMove
  <2>5. QED
    BY <1>1, <2>2, <2>3, <2>4, OtherMaints
<1>4. CASE DeleteRow(a)
  <2>1. PICK row : row = [maint[a] EXCEPT !.todo = maint[a].todo \ {maint[a].removed}, !.removed = NULL]
    OBVIOUS
  <2>2. row \in MaintRow /\ row.pc = maint[a].pc /\ row.removed = NULL /\ row.todo \subseteq maint[a].todo
    BY <1>1, <2>1 DEF MaintRow
  <2>3. maint' = [maint EXCEPT ![a] = row] /\ filling' = filling
    BY <1>4, <2>1 DEF DeleteRow
  <2>4. maint'[a] = row => MaintMove(a) /\ LockMove(a)
    BY <2>2, <2>3 DEF MaintMove, LockMove
  <2>5. QED
    BY <1>1, <2>2, <2>3, <2>4, OtherMaints
<1>5. CASE CountSlots(a)
  <2>1. PICK left \in 0..Size : left = maint[a].left - 1
    BY <1>1, <1>5 DEF CountSlots, MaintRow
  <2>2. PICK row : row = [maint[a] EXCEPT !.pc = "inserting", !.left = left]
    OBVIOUS
  <2>3. row \in MaintRow /\ row.pc = "inserting" /\ row.removed = maint[a].removed
        /\ row.todo = maint[a].todo
    BY <1>1, <2>2 DEF MaintRow
  <2>4. maint' = [maint EXCEPT ![a] = row] /\ filling = NULL /\ filling' = a
    BY <1>5, <2>1, <2>2 DEF CountSlots, LockPool
  <2>5. maint'[a] = row => MaintMove(a) /\ LockMove(a)
    BY <1>5, <2>3 DEF MaintMove, LockMove
  <2>6. QED
    BY <1>1, <2>3, <2>4, <2>5, OtherMaints, ConstantsAssumption
<1>6. ASSUME NEW s \in Slots, InsertSlot(a, s) PROVE MaintsMove
  <2>1. PICK row : row = [maint[a] EXCEPT !.pc = "filling"]
    OBVIOUS
  <2>2. row \in MaintRow /\ row.pc = "filling" /\ row.removed = maint[a].removed
        /\ row.todo = maint[a].todo
    BY <1>1, <2>1 DEF MaintRow
  <2>3. maint' = [maint EXCEPT ![a] = row] /\ filling' = IF filling = a THEN NULL ELSE filling
    BY <1>6, <2>1 DEF InsertSlot
  <2>4. maint'[a] = row => MaintMove(a) /\ LockMove(a)
    BY <1>1, <2>2, <2>3 DEF MaintMove, LockMove
  <2>5. QED
    BY <1>1, <2>2, <2>3, <2>4, OtherMaints, ConstantsAssumption
<1>7. CASE MaintainFails(a) \/ MaintainReturns(a)
  BY <1>7, RestingMaints DEF MaintainFails, MaintainReturns
<1>8. ASSUME NEW row \in MaintRow, row.pc \in {"filling", "launching"},
             row.removed = maint[a].removed, row.todo = maint[a].todo,
             maint' = [maint EXCEPT ![a] = row], filling' = filling,
             maint[a].pc \in {"removing", "filling"}
      PROVE  MaintsMove
  <2>1. maint'[a] = row => MaintMove(a) /\ LockMove(a)
    BY <1>8 DEF MaintMove, LockMove
  <2>2. QED
    BY <1>1, <1>8, <2>1, OtherMaints
<1>9. CASE MaintainFills(a)
  <2>1. PICK row : row = [maint[a] EXCEPT !.pc = "filling", !.left = Size]
    OBVIOUS
  <2>2. row \in MaintRow /\ row.pc = "filling" /\ row.removed = maint[a].removed
        /\ row.todo = maint[a].todo
    BY <1>1, <2>1 DEF MaintRow
  <2>3. maint' = [maint EXCEPT ![a] = row] /\ filling' = filling /\ maint[a].pc = "removing"
    BY <1>9, <2>1 DEF MaintainFills
  <2>4. QED
    BY <1>8, <2>2, <2>3
<1>10. CASE StopsFilling(a)
  <2>1. PICK row : row = [maint[a] EXCEPT !.pc = "launching", !.left = 0]
    OBVIOUS
  <2>2. row \in MaintRow /\ row.pc = "launching" /\ row.removed = maint[a].removed
        /\ row.todo = maint[a].todo
    BY <1>1, <2>1 DEF MaintRow
  <2>3. maint' = [maint EXCEPT ![a] = row] /\ filling' = filling /\ maint[a].pc = "filling"
    BY <1>10, <2>1 DEF StopsFilling
  <2>4. QED
    BY <1>8, <2>2, <2>3
<1>11. QED
  BY <1>2, <1>3, <1>4, <1>5, <1>6, <1>7, <1>9, <1>10 DEF Maintain

LEMMA MaintStep ==
  ASSUME TypeOK, [Next]_vars
  PROVE  MaintsMove
<1>1. ASSUME NEW a \in Apis, ApiCrashes(a) PROVE MaintsMove
  BY <1>1, RestingMaints DEF ApiCrashes
<1>2. ASSUME NEW s \in Slots, PrepareWarm(s) \/ AppGone(s) \/ Expire(s) \/ GrowQuiet(s)
      PROVE  maint' = maint /\ filling' = filling
  BY <1>2 DEF PrepareWarm, CreateApp, RecordApp, PrepareFails, StartApp, AppGone, Expire, GrowQuiet
<1>3. ASSUME NEW s \in Slots, NEW i \in Instances, Instance(s, i)
      PROVE  maint' = maint /\ filling' = filling
  BY <1>3 DEF Instance, Boot, ProcessEnds, Heartbeat, Claim
<1>4. ASSUME NEW j \in Jobs, Start(j) PROVE maint' = maint /\ filling' = filling
  BY <1>4 DEF Start, Misses, Record, StartThrows, BindCold, ColdFails, Begin, Reserve, Assign,
              LaunchCold, Withdraw
<1>5. ASSUME NEW j \in Jobs, JobEnds(j) \/ JobHeld(j) \/ JobSettled(j) \/ Remove(j)
      PROVE  maint' = maint /\ filling' = filling
  BY <1>5 DEF JobEnds, JobHeld, JobSettled, Remove, RemoveLeased, RemoveRow, RemoveCold,
              RemoveInterrupted
<1>6. QED
  BY <1>1, <1>2, <1>3, <1>4, <1>5, MaintKept, MaintainMaints DEF Next, vars

\* remove() holds on to a slot that carries its job.
RemoverMove(j) ==
  \/ remover'[j] \in {remover[j], NULL}
  \/ /\ RemoveLeased(j) /\ remover'[j] \in Slots
     /\ slot[remover'[j]].job = j /\ app' = [app EXCEPT ![remover'[j]] = Deleted(remover'[j])]

RemoversMove == remover' \in [Jobs -> Slots \cup {NULL}] /\ \A j \in Jobs : RemoverMove(j)

LEMMA RemoverStep ==
  ASSUME TypeOK, [Next]_vars
  PROVE  RemoversMove
<1>1. remover \in [Jobs -> Slots \cup {NULL}]
  BY DEF TypeOK
<1>2. ASSUME remover' = remover PROVE RemoversMove
  BY <1>1, <1>2 DEF RemoversMove, RemoverMove
<1>3. ASSUME NEW j \in Jobs, RemoveLeased(j) PROVE RemoversMove
  <2>1. PICK s \in Slots : /\ slot[s].job = j /\ app' = [app EXCEPT ![s] = Deleted(s)]
                           /\ remover' = [remover EXCEPT ![j] = s]
    BY <1>3 DEF RemoveLeased, Leased
  <2>2. remover'[j] = s /\ \A k \in Jobs \ {j} : remover'[k] = remover[k]
    BY <1>1, <2>1
  <2>3. remover' \in [Jobs -> Slots \cup {NULL}]
    BY <1>1, <2>1
  <2>4. QED
    BY <1>3, <2>1, <2>2, <2>3 DEF RemoversMove, RemoverMove
<1>4. ASSUME NEW j \in Jobs, RemoveRow(j) \/ RemoveInterrupted(j) PROVE RemoversMove
  BY <1>1, <1>4 DEF RemoversMove, RemoverMove, RemoveRow, RemoveInterrupted
<1>5. ASSUME NEW a \in Apis, ApiCrashes(a) PROVE RemoversMove
  BY <1>1, <1>5 DEF RemoversMove, RemoverMove, ApiCrashes
<1>6. ASSUME NEW a \in Apis, Maintain(a) PROVE remover' = remover
  BY <1>6 DEF Maintain, Retire, DeleteRow, MaintainFails, MaintainFills, CountSlots,
              StopsFilling, MaintainReturns, RemoveApp, InsertSlot
<1>7. ASSUME NEW s \in Slots, PrepareWarm(s) \/ AppGone(s) \/ Expire(s) \/ GrowQuiet(s)
      PROVE  remover' = remover
  BY <1>7 DEF PrepareWarm, CreateApp, RecordApp, PrepareFails, StartApp, AppGone, Expire, GrowQuiet
<1>8. ASSUME NEW s \in Slots, NEW i \in Instances, Instance(s, i) PROVE remover' = remover
  BY <1>8 DEF Instance, Boot, ProcessEnds, Heartbeat, Claim
<1>9. ASSUME NEW j \in Jobs, Start(j) \/ JobEnds(j) \/ JobHeld(j) \/ JobSettled(j) \/ RemoveCold(j)
      PROVE  remover' = remover
  BY <1>9 DEF Start, Misses, Record, StartThrows, BindCold, ColdFails, Begin, Reserve, Assign,
              LaunchCold, Withdraw, JobEnds, JobHeld, JobSettled, RemoveCold
<1>10. QED
  BY <1>2, <1>3, <1>4, <1>5, <1>6, <1>7, <1>8, <1>9 DEF Next, vars, Remove

\* An execution begins with a claim that is answered or with a task of its own.
LogMove ==
  \/ log' = log
  \/ \E j \in Jobs : dispatch[j].pc = "bound" /\ Start(j) /\ dispatch'[j].pc \in {"done", "dead"}
       /\ slot' = slot /\ log' = Append(log, <<j, j>>)
  \/ \E s \in Slots, i \in Instances : Claim(s, i, TRUE)

LEMMA LogStep ==
  ASSUME TypeOK, [Next]_vars
  PROVE  LogMove
<1>1. ASSUME NEW j \in Jobs, NEW ack \in BOOLEAN, LaunchCold(j, ack) PROVE LogMove
  <2>1. dispatch'[j].pc \in {"done", "dead"}
    BY <1>1 DEF LaunchCold, TypeOK, DispatchRow
  <2>2. Start(j)
    BY <1>1 DEF Start
  <2>3. QED
    BY <1>1, <2>1, <2>2 DEF LogMove, LaunchCold
<1>2. ASSUME NEW s \in Slots, NEW i \in Instances, NEW ack \in BOOLEAN, Claim(s, i, ack) PROVE LogMove
  BY <1>2 DEF LogMove, Claim
<1>3. ASSUME NEW s \in Slots, NEW i \in Instances, Instance(s, i) PROVE LogMove
  BY <1>2, <1>3 DEF Instance, Boot, ProcessEnds, Heartbeat, LogMove
<1>4. ASSUME NEW j \in Jobs, Start(j) PROVE LogMove
  BY <1>1, <1>4 DEF Start, Misses, Record, StartThrows, BindCold, ColdFails, Begin, Reserve,
     Assign, Withdraw, LogMove
<1>5. ASSUME NEW a \in Apis, Maintain(a) \/ ApiCrashes(a) PROVE log' = log
  BY <1>5 DEF Maintain, Retire, DeleteRow, MaintainFails, MaintainFills, CountSlots,
              StopsFilling, MaintainReturns, RemoveApp, InsertSlot, ApiCrashes
<1>6. ASSUME NEW s \in Slots, PrepareWarm(s) \/ AppGone(s) \/ Expire(s) \/ GrowQuiet(s)
      PROVE  log' = log
  BY <1>6 DEF PrepareWarm, CreateApp, RecordApp, PrepareFails, StartApp, AppGone, Expire, GrowQuiet
<1>7. ASSUME NEW j \in Jobs, JobEnds(j) \/ JobHeld(j) \/ JobSettled(j) \/ Remove(j) PROVE log' = log
  BY <1>7 DEF JobEnds, JobHeld, JobSettled, Remove, RemoveLeased, RemoveRow, RemoveCold,
              RemoveInterrupted
<1>8. QED
  BY <1>3, <1>4, <1>5, <1>6, <1>7 DEF Next, vars, LogMove

---------------------------------------------------------------------------
(* Types *)

\* The two CHECKs of runner_pool_slots.
SlotChecked(s) ==
  /\ slot[s].status = "assigned" <=> slot[s].assignment # NULL
  /\ slot[s].status \in {"reserved", "assigned", "consumed"} => slot[s].job # NULL

LEMMA ChecksStep ==
  ASSUME TypeOK, SlotsMove, NEW s \in Slots
  PROVE  SlotChecked(s)'
<1>1. SlotChecked(s) /\ SlotMove(s) /\ \A j \in Jobs : j # NULL
  BY ConstantsAssumption DEF TypeOK, SlotChecked, SlotsMove
<1>2. CASE \E j \in Jobs : /\ Reserve(j, s) /\ slot'[s].status = "reserved"
                          /\ slot'[s].assignment = slot[s].assignment /\ slot'[s].job = j
  BY <1>1, <1>2 DEF SlotChecked, Reserve, Offered
<1>3. CASE \E j \in Jobs, ack \in BOOLEAN :
             /\ Assign(j, ack) /\ dispatch[j].slot = s /\ slot'[s].status = "assigned"
             /\ slot'[s].assignment = j /\ slot'[s].job = slot[s].job
  BY <1>1, <1>3 DEF SlotChecked, Assign, Assignable
<1>4. CASE \E i \in Instances, ack \in BOOLEAN :
             /\ Claim(s, i, ack) /\ slot'[s].status = "consumed"
             /\ slot'[s].assignment = NULL /\ slot'[s].job = slot[s].job
  BY <1>1, <1>4 DEF SlotChecked, Claim
<1>5. CASE \/ Turned(s, slot[s].status, slot[s].status)
           \/ Turned(s, "none", "warming") \/ Turned(s, "warming", "ready")
  BY <1>1, <1>5 DEF SlotChecked, Turned
<1>6. CASE slot'[s].status \in Out /\ slot'[s].assignment = NULL
  BY <1>6 DEF SlotChecked, Out
<1>7. QED
  BY <1>1, <1>2, <1>3, <1>4, <1>5, <1>6 DEF SlotMove, Out

LEMMA LogTyped ==
  ASSUME TypeOK, [Next]_vars
  PROVE  log' \in Seq(Jobs \X (Slots \cup Jobs))
<1>1. log \in Seq(Jobs \X (Slots \cup Jobs)) /\ LogMove
  BY LogStep DEF TypeOK
<1>2. CASE log' = log
  BY <1>1, <1>2
<1>3. ASSUME NEW j \in Jobs, log' = Append(log, <<j, j>>)
      PROVE  log' \in Seq(Jobs \X (Slots \cup Jobs))
  <2>1. <<j, j>> \in Jobs \X (Slots \cup Jobs)
    OBVIOUS
  <2>2. QED
    BY <1>1, <1>3, <2>1
<1>4. ASSUME NEW s \in Slots, NEW i \in Instances, Claim(s, i, TRUE)
      PROVE  log' \in Seq(Jobs \X (Slots \cup Jobs))
  <2>1. slot[s].assignment \in Jobs
    BY <1>4 DEF Claim, TypeOK, SlotRow
  <2>2. <<slot[s].assignment, s>> \in Jobs \X (Slots \cup Jobs)
    BY <2>1
  <2>3. log' = Append(log, <<slot[s].assignment, s>>)
    BY <1>4 DEF Claim
  <2>4. QED
    BY <1>1, <2>2, <2>3
<1>5. QED
  BY <1>1, <1>2, <1>3, <1>4 DEF LogMove

LEMMA TypeInit == Init => TypeOK /\ Unbegun
<1> SUFFICES ASSUME Init PROVE TypeOK /\ Unbegun
  OBVIOUS
<1>1. NoSlot \in SlotRow /\ NoSlot.status = "none" /\ NoSlot.assignment = NULL
  BY DEF NoSlot, SlotRow
<1>2. slot \in [Slots -> SlotRow] /\ \A s \in Slots : SlotChecked(s)
  BY <1>1 DEF Init, SlotChecked
<1>3. 0 \in 0..Size
  BY ConstantsAssumption
<1>4. Resting \in MaintRow
  BY <1>3 DEF Resting, MaintRow
<1>5. maint \in [Apis -> MaintRow]
  BY <1>4 DEF Init
<1>6. job \in [Jobs -> JobRow] /\ dispatch \in [Jobs -> DispatchRow] /\ prepare \in [Slots -> PrepareRow]
  BY DEF Init, JobRow, DispatchRow, PrepareRow
<1>7. app \in [Slots -> AppRow] /\ proc \in [Slots \X Instances -> {"off", "polling", "executing"}]
  BY DEF Init, AppRow
<1>8. /\ filling \in Apis \cup {NULL} /\ remover \in [Jobs -> Slots \cup {NULL}]
      /\ log \in Seq(Jobs \X (Slots \cup Jobs)) /\ Unbegun
  BY DEF Init, Unbegun
<1>9. QED
  BY <1>2, <1>5, <1>6, <1>7, <1>8 DEF TypeOK, SlotChecked, AppRow

LEMMA TypeStep == TypeOK /\ Unbegun /\ [Next]_vars => TypeOK' /\ Unbegun'
<1> SUFFICES ASSUME TypeOK, Unbegun, [Next]_vars PROVE TypeOK' /\ Unbegun'
  OBVIOUS
<1>1. slot' \in [Slots -> SlotRow] /\ \A s \in Slots : SlotChecked(s)'
  BY SlotStep, ChecksStep DEF SlotsMove
<1>2. job' \in [Jobs -> JobRow] /\ dispatch' \in [Jobs -> DispatchRow]
      /\ prepare' \in [Slots -> PrepareRow]
  BY JobStep, DispatchStep, PrepareStep DEF JobsMove, DispatchesMove, PreparesMove
<1>3. app' \in [Slots -> AppRow] /\ proc' \in [Slots \X Instances -> {"off", "polling", "executing"}]
  BY AppStep, ProcStep DEF AppsMove, ProcsMove
<1>4. maint' \in [Apis -> MaintRow] /\ filling' \in Apis \cup {NULL}
      /\ remover' \in [Jobs -> Slots \cup {NULL}]
  BY MaintStep, RemoverStep DEF MaintsMove, RemoversMove
<1>5. log' \in Seq(Jobs \X (Slots \cup Jobs)) /\ Unbegun'
  BY LogTyped, UnbegunStep
<1>6. QED
  BY <1>1, <1>2, <1>3, <1>4, <1>5 DEF TypeOK, SlotChecked, AppRow

\* Every reachable state has its types, and the CHECKs of runner_pool_slots never
\* refuse an update: a lease is assigned exactly while it carries an assignment, and
\* one that was handed out carries the job it was handed to.
THEOREM TypeCorrect == Spec => []TypeOK
<1>1. TypeOK /\ Unbegun /\ [Next]_vars => (TypeOK /\ Unbegun)'
  BY TypeStep
<1>2. QED
  BY <1>1, TypeInit, PTL DEF Spec

---------------------------------------------------------------------------
(* The size of the pool *)

Capable == {s \in Slots : slot[s].status \in Capacity}

\* A process inserts a row only while it holds the advisory lock, and then there is room.
Room ==
  /\ \A a \in Apis : maint[a].pc = "inserting" <=> filling = a
  /\ filling # NULL => Filled < Size
  /\ IsFiniteSet(Capable) /\ Filled <= Size

LEMMA CapableStep ==
  ASSUME TypeOK, SlotsMove
  PROVE  Capable' \subseteq Capable \/ \E a \in Apis, s \in Slots : InsertSlot(a, s)
BY DEF SlotsMove, SlotMove, Turned, Capable, Capacity

LEMMA SmallerPool ==
  ASSUME IsFiniteSet(Capable), Capable' \subseteq Capable
  PROVE  IsFiniteSet(Capable') /\ Filled' <= Filled /\ Filled \in Nat /\ Filled' \in Nat
<1>1. IsFiniteSet(Capable') /\ Cardinality(Capable') <= Cardinality(Capable)
  BY FS_Subset
<1>2. Cardinality(Capable) \in Nat /\ Cardinality(Capable') \in Nat
  BY <1>1, FS_CardinalityType
<1>3. QED
  BY <1>1, <1>2 DEF Filled, Capable

LEMMA LargerPool ==
  ASSUME TypeOK, Room, SlotsMove, NEW a \in Apis, NEW s \in Slots, InsertSlot(a, s)
  PROVE  IsFiniteSet(Capable') /\ Filled' <= Size
<1>1. Filled < Size /\ IsFiniteSet(Capable) /\ a # NULL
  BY ConstantsAssumption DEF Room, InsertSlot
<1>2. Capable' = Capable \cup {s} /\ s \notin Capable
  BY DEF InsertSlot, Fresh, Capable, Capacity, TypeOK, SlotRow
<1>3. IsFiniteSet(Capable') /\ Cardinality(Capable') = Cardinality(Capable) + 1
  BY <1>1, <1>2, FS_AddElement
<1>4. Cardinality(Capable) \in Nat
  BY <1>1, FS_CardinalityType
<1>5. QED
  BY <1>1, <1>3, <1>4, ConstantsAssumption DEF Filled, Capable

LEMMA RoomStep == TypeOK /\ Room /\ [Next]_vars => Room'
<1> SUFFICES ASSUME TypeOK, Room, [Next]_vars PROVE Room'
  OBVIOUS
<1>1. MaintsMove /\ SlotsMove /\ Size \in Nat
  BY MaintStep, SlotStep, ConstantsAssumption
<1>2. ASSUME NEW a \in Apis PROVE maint'[a].pc = "inserting" <=> filling' = a
  BY <1>1 DEF MaintsMove, LockMove, Room, CountSlots, LockPool
<1>3. IsFiniteSet(Capable') /\ Filled' <= Size
  <2>1. CASE Capable' \subseteq Capable
    BY <1>1, <2>1, SmallerPool DEF Room
  <2>2. QED
    BY <1>1, <2>1, CapableStep, LargerPool
<1>4. ASSUME filling' # NULL PROVE Filled' < Size
  <2>1. PICK a \in Apis : filling' = a /\ maint'[a].pc = "inserting"
    BY <1>1, <1>2, <1>4 DEF MaintsMove
  <2>2. CASE CountSlots(a)
    BY <2>2 DEF CountSlots, Filled
  <2>3. CASE filling = a /\ maint[a].pc = "inserting"
    <3>1. ASSUME NEW b \in Apis, NEW s \in Slots, InsertSlot(b, s) PROVE FALSE
      <4>1. b = a
        BY <2>3, <3>1 DEF Room, InsertSlot
      <4>2. filling' = NULL
        BY <2>3, <3>1, <4>1 DEF InsertSlot
      <4>3. QED
        BY <1>4, <4>2
    <3>2. Capable' \subseteq Capable /\ Filled < Size
      BY <1>1, <1>4, <2>1, <2>3, <3>1, CapableStep, ConstantsAssumption DEF Room
    <3>3. QED
      BY <1>1, <3>2, SmallerPool DEF Room
  <2>4. QED
    BY <1>1, <2>1, <2>2, <2>3 DEF MaintsMove, LockMove, Room
<1>5. QED
  BY <1>2, <1>3, <1>4 DEF Room

LEMMA RoomInit == Init => Room
<1> SUFFICES ASSUME Init PROVE Room
  OBVIOUS
<1>1. Capable = {} /\ filling = NULL /\ \A a \in Apis : maint[a].pc = "idle"
  BY DEF Init, NoSlot, Resting, Capable, Capacity
<1>2. IsFiniteSet({}) /\ Cardinality({}) = 0
  BY FS_EmptySet
<1>3. Filled = 0
  BY <1>1, <1>2 DEF Filled, Capable
<1>4. NULL \notin Apis /\ 0 <= Size
  BY ConstantsAssumption
<1>5. QED
  BY <1>1, <1>2, <1>3, <1>4 DEF Room

\* However many processes fill the pool, and whenever one of them crashes or fails, the
\* unassigned leases never exceed LZC_RUNNER_POOL_SIZE: the advisory lock keeps the count
\* of createSlot true until its row is inserted.
THEOREM PoolWithinSize == Spec => []WithinSize
<1>1. TypeOK /\ Unbegun /\ Room /\ [Next]_vars => (TypeOK /\ Unbegun /\ Room)'
  BY TypeStep, RoomStep
<1>2. Room => WithinSize
  BY DEF Room, WithinSize
<1>3. QED
  BY <1>1, <1>2, TypeInit, RoomInit, PTL DEF Spec

---------------------------------------------------------------------------
(* How the parts agree *)

\* Nothing starts the app any more: it is not started, and its start was not prepared.
Stopped(s) == app[s] # "started" /\ ~(app[s] = "created" /\ prepare[s].pc = "recorded")

\* A lease names one job, and an assignment was handed out by its start().
LeaseHeld(s) ==
  LET j == slot[s].job IN
  /\ slot[s].assignment # NULL =>
       slot[s].assignment = j /\ dispatch[j].slot = s /\ dispatch[j].pc \in Past
  /\ j # NULL => slot[s].status \in Late

\* The app follows its row, and only an app that somebody deletes is ever stopped.
AppHeld(s) ==
  /\ slot[s].status = "none" => prepare[s].pc = "none"
  /\ prepare[s].pc \in {"none", "pending"} => app[s] = "none"
  /\ \A i \in Instances : proc[<<s, i>>] # "off" => app[s] \in {"started", "deleting"}
  /\ app[s] \in {"deleting", "deleted"} =>
       slot[s].status \in Out \/ (slot[s].job # NULL /\ job[slot[s].job].status \in Over)
  /\ slot[s].status = "gone" => Stopped(s)

\* start() has at most one lease, which nobody else gets.
StartHeld(j) ==
  /\ dispatch[j].pc \in {"new", "starting", "cold", "bound"} => dispatch[j].slot = NULL
  /\ dispatch[j].pc \in {"reserved", "recorded", "thrown"} => dispatch[j].slot # NULL
  /\ dispatch[j].pc = "new" <=> job[j].status = "new"
  /\ \A s \in Slots : dispatch[j].slot = s =>
       slot[s].status \in Late /\ (slot[s].job = j \/ slot[s].status = "gone")

\* What a pass is about to delete was given up, and its app is stopped before its row.
PassHeld(a) ==
  /\ \A s \in maint[a].todo : slot[s].status \in Out
  /\ \A s \in Slots : maint[a].removed = s => slot[s].status \in Out /\ Stopped(s)

\* What remove() is about to delete is the lease of an ended job, and its app is stopped.
RemoveHeld(j) ==
  \A s \in Slots : remover[j] = s =>
    /\ slot[s].status \in Late /\ (slot[s].job = j \/ slot[s].status = "gone")
    /\ job[j].status \in Over /\ Stopped(s)

Agree ==
  /\ TypeOK /\ Unbegun
  /\ \A s \in Slots : LeaseHeld(s) /\ AppHeld(s)
  /\ \A j \in Jobs : StartHeld(j) /\ RemoveHeld(j)
  /\ \A a \in Apis : PassHeld(a)

\* What a step may do to each variable, together.
Moves ==
  /\ SlotsMove /\ JobsMove /\ DispatchesMove /\ PreparesMove /\ AppsMove /\ ProcsMove
  /\ MaintsMove /\ RemoversMove /\ LogMove

LEMMA MovesStep ==
  ASSUME TypeOK, Unbegun, [Next]_vars
  PROVE  Moves
BY SlotStep, JobStep, DispatchStep, PrepareStep, AppStep, ProcStep, MaintStep, RemoverStep, LogStep
DEF Moves

\* The status of a lease only moves forward.
LEMMA Forward ==
  ASSUME TypeOK, SlotsMove, NEW s \in Slots
  PROVE  /\ slot[s].status \in Out => slot'[s].status \in Out
         /\ slot[s].status \in Late => slot'[s].status \in Late
         /\ slot[s].status = "gone" => slot'[s].status = "gone"
         /\ slot'[s].status = "none" => slot[s].status = "none"
BY DEF SlotsMove, SlotMove, Turned, Late, Out, Reserve, Offered, Assign, Assignable, Claim

\* A lease that was handed out keeps its job until its row is deleted.
LEMMA JobOfLease ==
  ASSUME TypeOK, SlotsMove, NEW s \in Slots, slot[s].status \in Late
  PROVE  slot'[s].job = slot[s].job \/ slot'[s].status = "gone"
BY DEF SlotsMove, SlotMove, Turned, Late, Out, Reserve, Offered

LEMMA NotYetLate ==
  ASSUME TypeOK, SlotsMove, NEW s \in Slots, slot'[s].job # NULL, slot'[s].job # slot[s].job
  PROVE  /\ slot'[s].status = "reserved" /\ slot'[s].assignment = NULL
         /\ \E j \in Jobs : Reserve(j, s)
<1>1. slot[s].status = "assigned" <=> slot[s].assignment # NULL
  BY DEF TypeOK
<1>2. QED
  BY <1>1 DEF SlotsMove, SlotMove, Turned, Reserve, Offered

\* A job that is over stays so.
LEMMA OverStays ==
  ASSUME Agree, Moves, NEW j \in Jobs, job[j].status \in Over
  PROVE  job'[j].status \in Over
BY DEF Agree, StartHeld, Moves, JobsMove, JobMove, Over

\* start() that handed out an assignment, or gave up, keeps its lease.
LEMMA PastStays ==
  ASSUME DispatchesMove, NEW j \in Jobs, dispatch[j].pc \in Past
  PROVE  /\ dispatch'[j].pc \in Past /\ dispatch'[j].slot = dispatch[j].slot
         /\ dispatch[j].pc # "thrown" => dispatch'[j].pc # "thrown"
BY DEF DispatchesMove, DispatchMove, Goes, Past, Reserve

\* An app that is stopped stays so once its lease was handed out or given up.
LEMMA StoppedStays ==
  ASSUME Agree, Moves, NEW s \in Slots, Stopped(s), slot[s].status \in Late
  PROVE  Stopped(s)'
<1>1. AppMove(s) /\ PrepareMove(s)
  BY DEF Moves, AppsMove, PreparesMove
<1>2. CASE CreateApp(s)
  <2>1. prepare'[s].pc = "created"
    BY <1>2 DEF CreateApp, Agree, TypeOK, PrepareRow
  <2>2. app'[s] = "created"
    BY <1>2 DEF CreateApp, Agree, TypeOK
  <2>3. QED
    BY <2>1, <2>2 DEF Stopped
<1>3. ~RecordApp(s)
  BY DEF RecordApp, Recordable, Late, Out
<1>4. ASSUME NEW ack \in BOOLEAN PROVE ~StartApp(s, ack)
  BY DEF StartApp, Stopped
<1>5. QED
  BY <1>1, <1>2, <1>3, <1>4 DEF AppMove, PrepareMove, Stopped

LEMMA LeaseHeldStep ==
  ASSUME Agree, Moves, NEW s \in Slots
  PROVE  LeaseHeld(s)'
<1>1. /\ TypeOK /\ LeaseHeld(s) /\ SlotMove(s) /\ SlotsMove /\ DispatchesMove
      /\ \A j \in Jobs : StartHeld(j)
  BY DEF Agree, Moves, SlotsMove
<1>2. slot[s].assignment \in Jobs \cup {NULL} /\ slot[s].job \in Jobs \cup {NULL}
      /\ (slot[s].status = "assigned" <=> slot[s].assignment # NULL)
  BY <1>1 DEF TypeOK, SlotRow
<1>3. CASE slot'[s].assignment = slot[s].assignment /\ slot'[s].job = slot[s].job
  <2>1. ASSUME slot'[s].assignment # NULL
        PROVE  dispatch'[slot'[s].job].slot = s /\ dispatch'[slot'[s].job].pc \in Past
    BY <1>1, <1>2, <1>3, <2>1, PastStays DEF LeaseHeld
  <2>2. slot'[s].job # NULL => slot'[s].status \in Late
    BY <1>1, <1>3, Forward DEF LeaseHeld
  <2>3. QED
    BY <1>1, <1>3, <2>1, <2>2 DEF LeaseHeld
<1>4. CASE slot'[s].assignment = NULL
  <2>1. slot'[s].job # NULL => slot'[s].status \in Late
    <3>1. CASE slot'[s].job = slot[s].job
      BY <1>1, <3>1, Forward DEF LeaseHeld
    <3>2. CASE slot'[s].job # slot[s].job
      BY <1>1, <3>2, NotYetLate DEF Late
    <3>3. QED
      BY <3>1, <3>2
  <2>2. QED
    BY <1>4, <2>1 DEF LeaseHeld
<1>5. ASSUME NEW j \in Jobs, NEW ack \in BOOLEAN, Assign(j, ack), dispatch[j].slot = s,
             slot'[s].status = "assigned", slot'[s].assignment = j, slot'[s].job = slot[s].job
      PROVE  LeaseHeld(s)'
  <2>1. slot[s].job = j
    BY <1>1, <1>5 DEF StartHeld, Assign, Assignable
  <2>2. dispatch'[j].slot = s /\ dispatch'[j].pc \in Past
    BY <1>1, <1>5 DEF Assign, TypeOK, DispatchRow, Past
  <2>3. QED
    BY <1>5, <2>1, <2>2 DEF LeaseHeld, Late
<1>6. ASSUME NEW j \in Jobs, Reserve(j, s), slot'[s].assignment = slot[s].assignment
      PROVE  slot'[s].assignment = NULL
  BY <1>2, <1>6 DEF Reserve, Offered
<1>7. QED
  BY <1>1, <1>3, <1>4, <1>5, <1>6 DEF SlotMove, Turned

LEMMA StartHeldStep ==
  ASSUME Agree, Moves, NEW j \in Jobs
  PROVE  StartHeld(j)'
<1>1. /\ TypeOK /\ Unbegun /\ StartHeld(j) /\ RemoveHeld(j) /\ DispatchMove(j) /\ JobMove(j)
      /\ SlotsMove /\ NULL \notin Slots
  BY ConstantsAssumption DEF Agree, Moves, DispatchesMove, JobsMove
<1>2. ASSUME NEW s \in Slots, Reserve(j, s)
      PROVE  slot'[s].status = "reserved" /\ slot'[s].job = j
  BY <1>1, <1>2 DEF Reserve, TypeOK, SlotRow
<1>3. ASSUME NEW s \in Slots, dispatch'[j].slot = s
      PROVE  slot'[s].status \in Late /\ (slot'[s].job = j \/ slot'[s].status = "gone")
  <2>1. CASE dispatch[j].slot = s
    BY <1>1, <2>1, Forward, JobOfLease DEF StartHeld
  <2>2. CASE dispatch[j].slot # s
    BY <1>1, <1>2, <1>3, <2>2 DEF DispatchMove, Late
  <2>3. QED
    BY <2>1, <2>2
<1>4. dispatch'[j].pc \in {"new", "starting", "cold", "bound"} => dispatch'[j].slot = NULL
  BY <1>1 DEF DispatchMove, Goes, StartHeld
<1>5. dispatch'[j].pc \in {"reserved", "recorded", "thrown"} => dispatch'[j].slot # NULL
  BY <1>1 DEF DispatchMove, Goes, StartHeld
<1>6. dispatch'[j].pc = "new" <=> job'[j].status = "new"
  <2>1. CASE dispatch'[j].pc = "new"
    <3>1. dispatch[j].pc = "new" /\ job[j].status = "new" /\ dispatch[j].api = NULL
      BY <1>1, <2>1 DEF DispatchMove, Goes, StartHeld, Unbegun
    <3>2. remover[j] = NULL
      BY <1>1, <3>1 DEF RemoveHeld, Over, TypeOK
    <3>3. QED
      BY <1>1, <2>1, <3>1, <3>2 DEF JobMove
  <2>2. CASE dispatch'[j].pc # "new"
    <3>1. CASE dispatch[j].pc = "new"
      BY <1>1, <2>2, <3>1 DEF DispatchMove, Goes, Reserve
    <3>2. CASE dispatch[j].pc # "new"
      BY <1>1, <2>2, <3>2 DEF JobMove, StartHeld, Over
    <3>3. QED
      BY <3>1, <3>2
  <2>3. QED
    BY <2>1, <2>2
<1>7. QED
  BY <1>3, <1>4, <1>5, <1>6 DEF StartHeld

LEMMA PassHeldStep ==
  ASSUME Agree, Moves, NEW a \in Apis
  PROVE  PassHeld(a)'
<1>1. TypeOK /\ PassHeld(a) /\ MaintMove(a) /\ SlotsMove /\ NULL \notin Slots
  BY ConstantsAssumption DEF Agree, Moves, MaintsMove
<1>2. ASSUME NEW s \in maint'[a].todo PROVE slot'[s].status \in Out
  <2>1. CASE maint'[a].todo \subseteq maint[a].todo
    <3>1. s \in Slots /\ slot[s].status \in Out
      BY <1>1, <1>2, <2>1 DEF PassHeld, TypeOK, MaintRow
    <3>2. QED
      BY <1>1, <3>1, Forward
  <2>2. CASE Retire(a)
    <3>1. maint'[a].todo = {t \in Slots : slot'[t].status = "retiring"}
      BY <1>1, <2>2 DEF Retire, TypeOK, MaintRow
    <3>2. QED
      BY <1>2, <3>1 DEF Out
  <2>3. QED
    BY <1>1, <2>1, <2>2 DEF MaintMove
<1>3. ASSUME NEW s \in Slots, maint'[a].removed = s PROVE slot'[s].status \in Out /\ Stopped(s)'
  <2>1. CASE maint[a].removed = s
    <3>1. slot[s].status \in Out /\ Stopped(s)
      BY <1>1, <2>1 DEF PassHeld
    <3>2. QED
      BY <1>1, <3>1, Forward, StoppedStays DEF Late
  <2>2. CASE RemoveApp(a, s)
    <3>1. slot[s].status \in Out
      BY <1>1, <2>2 DEF RemoveApp, PassHeld
    <3>2. app'[s] \notin {"created", "started"}
      BY <1>1, <2>2 DEF RemoveApp, Deleted, TypeOK
    <3>3. QED
      BY <1>1, <3>1, <3>2, Forward DEF Stopped
  <2>3. QED
    BY <1>1, <1>3, <2>1, <2>2 DEF MaintMove
<1>4. QED
  BY <1>2, <1>3 DEF PassHeld

LEMMA RemoveHeldStep ==
  ASSUME Agree, Moves, NEW j \in Jobs
  PROVE  RemoveHeld(j)'
<1>1. TypeOK /\ RemoveHeld(j) /\ RemoverMove(j) /\ SlotsMove /\ NULL \notin Slots
  BY ConstantsAssumption DEF Agree, Moves, RemoversMove
<1> SUFFICES ASSUME NEW s \in Slots, remover'[j] = s
             PROVE  /\ slot'[s].status \in Late /\ (slot'[s].job = j \/ slot'[s].status = "gone")
                    /\ job'[j].status \in Over /\ Stopped(s)'
  BY DEF RemoveHeld
<1>2. CASE remover[j] = s
  <2>1. /\ slot[s].status \in Late /\ (slot[s].job = j \/ slot[s].status = "gone")
        /\ job[j].status \in Over /\ Stopped(s)
    BY <1>1, <1>2 DEF RemoveHeld
  <2>2. slot'[s].status \in Late /\ (slot'[s].job = j \/ slot'[s].status = "gone")
    BY <1>1, <2>1, Forward, JobOfLease
  <2>3. QED
    BY <2>1, <2>2, OverStays, StoppedStays
<1>3. CASE /\ RemoveLeased(j) /\ slot[s].job = j /\ app' = [app EXCEPT ![s] = Deleted(s)]
  <2>1. LeaseHeld(s) /\ j # NULL
    BY ConstantsAssumption DEF Agree
  <2>2. slot[s].status \in Late /\ slot' = slot /\ job' = job /\ job[j].status = "ended"
    BY <1>3, <2>1 DEF LeaseHeld, RemoveLeased
  <2>3. app'[s] \notin {"created", "started"}
    BY <1>1, <1>3 DEF Deleted, TypeOK
  <2>4. QED
    BY <1>3, <2>2, <2>3 DEF Stopped, Over
<1>4. QED
  BY <1>1, <1>2, <1>3 DEF RemoverMove

LEMMA AppHeldStep ==
  ASSUME Agree, Moves, NEW s \in Slots
  PROVE  AppHeld(s)'
<1>1. /\ TypeOK /\ AppHeld(s) /\ AppMove(s) /\ PrepareMove(s) /\ SlotMove(s) /\ SlotsMove /\ ProcsMove
      /\ NULL \notin Slots /\ NULL \notin Apis /\ NULL \notin Jobs
  BY ConstantsAssumption DEF Agree, Moves, AppsMove, PreparesMove, SlotsMove
<1>2. CreateApp(s) => prepare[s].pc = "pending" /\ prepare'[s].pc = "created" /\ app'[s] = "created"
  BY <1>1 DEF CreateApp, TypeOK, PrepareRow
<1>3. \A ack \in BOOLEAN : StartApp(s, ack) => app[s] = "created" /\ prepare[s].pc = "recorded"
  BY DEF StartApp
<1>4. slot'[s].status = "none" => prepare'[s].pc = "none"
  <2>1. CASE slot'[s].status = "none"
    <3>1. slot[s].status = "none" /\ prepare[s].pc = "none"
      BY <1>1, <2>1, Forward DEF AppHeld
    <3>2. QED
      BY <1>1, <1>2, <2>1, <3>1 DEF PrepareMove, RecordApp
  <2>2. QED
    BY <2>1
<1>5. prepare'[s].pc \in {"none", "pending"} => app'[s] = "none"
  <2>1. CASE prepare'[s].pc \in {"none", "pending"}
    <3>1. prepare[s].pc \in {"none", "pending"} /\ app[s] = "none"
      BY <1>1, <2>1 DEF PrepareMove, AppHeld
    <3>2. QED
      BY <1>1, <1>2, <1>3, <2>1, <3>1 DEF AppMove, AppGone
  <2>2. QED
    BY <2>1
<1>6. ASSUME NEW i \in Instances, proc'[<<s, i>>] # "off" PROVE app'[s] \in {"started", "deleting"}
  <2>1. app[s] \in {"started", "deleting"} /\ (app'[s] = app[s] \/ app'[s] # "deleted")
    BY <1>1, <1>6 DEF ProcsMove, AppHeld
  <2>2. ~CreateApp(s)
    BY <1>1, <1>2, <2>1 DEF AppHeld
  <2>3. QED
    BY <1>1, <2>1, <2>2 DEF AppMove
<1>7. ASSUME \/ slot[s].status \in Out
             \/ slot[s].job # NULL /\ job[slot[s].job].status \in Over
      PROVE  \/ slot'[s].status \in Out
             \/ slot'[s].job # NULL /\ job'[slot'[s].job].status \in Over
  <2>1. CASE slot[s].status \in Out
    BY <1>1, <2>1, Forward
  <2>2. CASE slot[s].job # NULL /\ job[slot[s].job].status \in Over
    <3>1. slot[s].job \in Jobs /\ slot[s].status \in Late
      BY <1>1, <2>2 DEF Agree, LeaseHeld, TypeOK, SlotRow
    <3>2. slot'[s].job = slot[s].job \/ slot'[s].status = "gone"
      BY <1>1, <3>1, JobOfLease
    <3>3. job'[slot[s].job].status \in Over
      BY <2>2, <3>1, OverStays
    <3>4. QED
      BY <2>2, <3>2, <3>3 DEF Out
  <2>3. QED
    BY <1>7, <2>1, <2>2
<1>8. app'[s] \in {"deleting", "deleted"} =>
        slot'[s].status \in Out \/ (slot'[s].job # NULL /\ job'[slot'[s].job].status \in Over)
  <2>1. CASE app[s] \in {"deleting", "deleted"}
    BY <1>1, <1>7, <2>1 DEF AppHeld
  <2>2. ASSUME NEW a \in Apis, RemoveApp(a, s) PROVE slot[s].status \in Out
    BY <2>2 DEF RemoveApp, Agree, PassHeld
  <2>3. ASSUME NEW j \in Jobs, RemoveLeased(j), slot[s].job = j
        PROVE  slot[s].job # NULL /\ job[slot[s].job].status \in Over
    BY <1>1, <2>3 DEF RemoveLeased, Over
  <2>4. QED
    BY <1>1, <1>7, <2>1, <2>2, <2>3 DEF AppMove, AppGone
<1>9. slot'[s].status = "gone" => Stopped(s)'
  <2>1. CASE slot[s].status = "gone"
    BY <1>1, <2>1, StoppedStays DEF AppHeld, Late, Out
  <2>2. ASSUME NEW a \in Apis, maint[a].removed = s PROVE Stopped(s)'
    BY <2>2, StoppedStays DEF Agree, PassHeld, Late
  <2>3. ASSUME NEW j \in Jobs, remover[j] = s PROVE Stopped(s)'
    BY <2>3, StoppedStays DEF Agree, RemoveHeld
  <2>4. QED
    BY <1>1, <2>1, <2>2, <2>3 DEF SlotMove, Turned
<1>10. QED
  BY <1>4, <1>5, <1>6, <1>8, <1>9 DEF AppHeld

LEMMA AgreeInit == Init => Agree
<1> SUFFICES ASSUME Init PROVE Agree
  OBVIOUS
<1>1. NoSlot.status = "none" /\ NoSlot.assignment = NULL /\ NoSlot.job = NULL
  BY DEF NoSlot
<1>2. ASSUME NEW s \in Slots PROVE LeaseHeld(s) /\ AppHeld(s)
  <2>1. /\ slot[s] = NoSlot /\ app[s] = "none" /\ prepare[s].pc = "none"
        /\ \A i \in Instances : proc[<<s, i>>] = "off"
    BY DEF Init
  <2>2. QED
    BY <1>1, <2>1 DEF LeaseHeld, AppHeld
<1>3. ASSUME NEW j \in Jobs PROVE StartHeld(j) /\ RemoveHeld(j)
  BY <1>3, ConstantsAssumption DEF Init, StartHeld, RemoveHeld
<1>4. ASSUME NEW a \in Apis PROVE PassHeld(a)
  BY <1>4, ConstantsAssumption DEF Init, Resting, PassHeld
<1>5. QED
  BY <1>2, <1>3, <1>4, TypeInit DEF Agree

LEMMA AgreeStep == Agree /\ [Next]_vars => Agree'
<1> SUFFICES ASSUME Agree, [Next]_vars PROVE Agree'
  OBVIOUS
<1>1. Moves
  BY MovesStep DEF Agree
<1>2. TypeOK' /\ Unbegun'
  BY TypeStep DEF Agree
<1>3. QED
  BY <1>1, <1>2, LeaseHeldStep, AppHeldStep, StartHeldStep, RemoveHeldStep, PassHeldStep DEF Agree

\* An app that runs always has its row, whatever crashed or failed while it was
\* prepared, started or removed: somebody can still find it and delete it.
THEOREM NoOrphan == Spec => []StartedIsLeased
<1>1. Agree => StartedIsLeased
  BY DEF Agree, AppHeld, Stopped, StartedIsLeased
<1>2. QED
  BY <1>1, AgreeInit, AgreeStep, PTL DEF Spec

---------------------------------------------------------------------------
(* Executions *)

\* j ran, and its start() is past the point where it could run again: either alone, or
\* on the lease r, which was consumed for it and is not handed out any more.
Entry(j, r) ==
  \/ r = j /\ dispatch[j].slot = NULL /\ dispatch[j].pc \in {"done", "dead"}
  \/ /\ r \in Slots /\ dispatch[j].slot = r /\ dispatch[j].pc \in Past
     /\ slot[r].status \in {"consumed"} \cup Out
     /\ j \notin Probes /\ job[j].status \in {"live", "held"} =>
          slot[r].status = "consumed" /\ slot[r].job = j /\ app[r] = "started"

Logged ==
  \A k \in 1..Len(log), j \in Jobs, r \in Slots \cup Jobs : log[k] = <<j, r>> => Entry(j, r)

LEMMA LogEntries ==
  ASSUME TypeOK, NEW k \in 1..Len(log)
  PROVE  log[k][1] \in Jobs /\ log[k][2] \in Slots \cup Jobs /\ log[k] = <<log[k][1], log[k][2]>>
<1>1. log[k] \in Jobs \X (Slots \cup Jobs)
  BY DEF TypeOK
<1>2. QED
  BY <1>1

\* The lease of an execution whose outcome is open is neither retired nor deleted.
LEMMA ConsumedStays ==
  ASSUME Agree, Moves, NEW j \in Jobs, NEW s \in Slots, j \notin Probes,
         job[j].status \in {"live", "held"}, slot[s].status = "consumed", slot[s].job = j
  PROVE  slot'[s].status = "consumed" /\ slot'[s].job = j
<1>1. /\ SlotMove(s) /\ \A a \in Apis : PassHeld(a)
      /\ \A k \in Jobs : RemoveHeld(k)
      /\ NULL \notin Slots
  BY ConstantsAssumption DEF Agree, Moves, SlotsMove
<1>2. ~Completed(s)
  BY DEF Completed
<1>3. ASSUME NEW a \in Apis PROVE maint[a].removed # s
  BY <1>1 DEF PassHeld, Out
<1>4. ASSUME NEW k \in Jobs PROVE remover[k] # s
  BY <1>1 DEF RemoveHeld, Over
<1>5. /\ \A k \in Jobs : ~Reserve(k, s)
      /\ \A k \in Jobs, ack \in BOOLEAN : dispatch[k].slot = s => ~Assign(k, ack)
      /\ \A i \in Instances, ack \in BOOLEAN : ~Claim(s, i, ack)
  BY DEF Reserve, Offered, Assign, Assignable, Claim
<1>6. QED
  BY <1>1, <1>2, <1>3, <1>4, <1>5 DEF SlotMove, Turned

\* Its app stays started.
LEMMA StartedStays ==
  ASSUME Agree, Moves, NEW j \in Jobs, NEW s \in Slots, app[s] = "started",
         job[j].status \in {"live", "held"}, slot[s].status = "consumed", slot[s].job = j
  PROVE  app'[s] = "started"
<1>1. AppMove(s) /\ AppHeld(s) /\ \A a \in Apis : PassHeld(a)
  BY DEF Agree, Moves, AppsMove
<1>2. ~CreateApp(s)
  BY <1>1 DEF CreateApp, AppHeld
<1>3. ASSUME NEW a \in Apis PROVE ~RemoveApp(a, s)
  BY <1>1 DEF RemoveApp, PassHeld, Out
<1>4. ASSUME NEW k \in Jobs, slot[s].job = k PROVE ~RemoveLeased(k)
  BY <1>4 DEF RemoveLeased
<1>5. QED
  BY <1>1, <1>2, <1>3, <1>4 DEF AppMove, AppGone

LEMMA EntryStays ==
  ASSUME Agree, Moves, NEW j \in Jobs, NEW r, Entry(j, r)
  PROVE  Entry(j, r)'
<1>1. /\ TypeOK /\ DispatchesMove /\ JobMove(j) /\ StartHeld(j) /\ SlotsMove
      /\ dispatch[j].pc \in Past
  BY DEF Agree, Moves, JobsMove, Entry, Past
<1>2. /\ dispatch'[j].pc \in Past /\ dispatch'[j].slot = dispatch[j].slot
      /\ dispatch[j].pc # "thrown" => dispatch'[j].pc # "thrown"
  BY <1>1, PastStays
<1>3. CASE r = j /\ dispatch[j].slot = NULL /\ dispatch[j].pc \in {"done", "dead"}
  BY <1>2, <1>3 DEF Entry, Past
<1>4. CASE /\ r \in Slots /\ dispatch[j].slot = r
           /\ slot[r].status \in {"consumed"} \cup Out
           /\ j \notin Probes /\ job[j].status \in {"live", "held"} =>
                slot[r].status = "consumed" /\ slot[r].job = j /\ app[r] = "started"
  <2>1. slot'[r].status \in {"consumed"} \cup Out
    BY <1>1, <1>4, Forward
       DEF SlotsMove, SlotMove, Turned, Reserve, Offered, Assign, Assignable, Claim, Out
  <2>2. ASSUME j \notin Probes, job'[j].status \in {"live", "held"}
        PROVE  slot'[r].status = "consumed" /\ slot'[r].job = j /\ app'[r] = "started"
    <3>1. job[j].status \in {"live", "held"}
      BY <1>1, <2>2 DEF JobMove, StartHeld, Past
    <3>2. QED
      BY <1>4, <2>2, <3>1, ConsumedStays, StartedStays
  <2>3. QED
    BY <1>2, <1>4, <2>1, <2>2 DEF Entry
<1>5. QED
  BY <1>3, <1>4 DEF Entry

\* What claim() hands out was not executed before, nor did its lease execute anything.
LEMMA ClaimedFirst ==
  ASSUME Agree, Logged, NEW s \in Slots, NEW i \in Instances, Claim(s, i, TRUE)
  PROVE  /\ slot[s].assignment \in Jobs /\ log' = Append(log, <<slot[s].assignment, s>>)
         /\ \A k \in 1..Len(log) : log[k][1] # slot[s].assignment /\ log[k][2] # s
<1>1. TypeOK /\ LeaseHeld(s) /\ Slots \cap Jobs = {} /\ NULL \notin Slots
  BY ConstantsAssumption DEF Agree
<1>2. slot[s].assignment \in Jobs /\ slot[s].status = "assigned"
  BY <1>1 DEF Claim, TypeOK, SlotRow
<1>3. dispatch[slot[s].assignment].slot = s
  BY <1>1, <1>2, ConstantsAssumption DEF LeaseHeld
<1>4. ASSUME NEW k \in 1..Len(log) PROVE log[k][1] # slot[s].assignment /\ log[k][2] # s
  <2>1. log[k][1] \in Jobs /\ Entry(log[k][1], log[k][2])
    BY <1>1, LogEntries DEF Logged
  <2>2. QED
    BY <1>1, <1>2, <1>3, <2>1 DEF Entry, Out
<1>5. QED
  BY <1>2, <1>4 DEF Claim

\* Nor was a job that is about to get a task of its own.
LEMMA ColdFirst ==
  ASSUME Agree, Logged, NEW j \in Jobs, dispatch[j].pc = "bound"
  PROVE  \A k \in 1..Len(log) : log[k][1] # j /\ log[k][2] # j
<1>1. TypeOK /\ Slots \cap Jobs = {}
  BY ConstantsAssumption DEF Agree
<1>2. ASSUME NEW k \in 1..Len(log) PROVE log[k][1] # j /\ log[k][2] # j
  <2>1. log[k][1] \in Jobs /\ Entry(log[k][1], log[k][2])
    BY <1>1, LogEntries DEF Logged
  <2>2. QED
    BY <1>1, <2>1 DEF Entry, Past
<1>3. QED
  BY <1>2

LEMMA ClaimEntry ==
  ASSUME Agree, Moves, NEW s \in Slots, NEW i \in Instances, Claim(s, i, TRUE),
         NEW j \in Jobs, slot[s].assignment = j
  PROVE  Entry(j, s)'
<1>1. /\ TypeOK /\ LeaseHeld(s) /\ AppHeld(s) /\ slot[s].status = "assigned"
      /\ proc[<<s, i>>] # "off" /\ app' = app /\ job' = job /\ dispatch' = dispatch /\ j # NULL
  BY ConstantsAssumption DEF Agree, Claim
<1>2. slot[s].job = j /\ dispatch[j].slot = s /\ dispatch[j].pc \in Past
  BY <1>1 DEF LeaseHeld
<1>3. slot'[s].status = "consumed" /\ slot'[s].job = j
  <2>1. PICK row : row = Consumed(slot[s])
    OBVIOUS
  <2>2. row.status = "consumed" /\ row.job = slot[s].job
    BY <1>1, <2>1 DEF Consumed, SlotRow, TypeOK
  <2>3. slot'[s] = row
    BY <1>1, <2>1 DEF Claim, TypeOK
  <2>4. QED
    BY <1>2, <2>2, <2>3
<1>4. job[j].status \in {"live", "held"} => app[s] = "started"
  BY <1>1, <1>2 DEF AppHeld, Out, Over
<1>5. QED
  BY <1>1, <1>2, <1>3, <1>4 DEF Entry

LEMMA Appended ==
  ASSUME NEW S, NEW seq \in Seq(S), NEW e \in S, NEW k \in 1..Len(Append(seq, e))
  PROVE  (k \in 1..Len(seq) /\ Append(seq, e)[k] = seq[k]) \/ Append(seq, e)[k] = e
OBVIOUS

LEMMA LoggedStep == Agree /\ Logged /\ [Next]_vars => Logged'
<1> SUFFICES ASSUME Agree, Logged, [Next]_vars,
                    NEW k \in 1..Len(log'), NEW j \in Jobs, NEW r \in Slots \cup Jobs,
                    log'[k] = <<j, r>>
             PROVE  Entry(j, r)'
  BY DEF Logged
<1>1. Moves /\ TypeOK /\ LogMove /\ log \in Seq(Jobs \X (Slots \cup Jobs))
  BY MovesStep DEF Agree, Moves, TypeOK
<1>2. ASSUME k \in 1..Len(log), log[k] = <<j, r>> PROVE Entry(j, r)'
  BY <1>1, <1>2, EntryStays DEF Logged
<1>3. CASE log' = log
  BY <1>2, <1>3
<1>4. ASSUME NEW c \in Jobs, dispatch[c].pc = "bound", dispatch'[c].pc \in {"done", "dead"},
             log' = Append(log, <<c, c>>)
      PROVE  Entry(j, r)'
  <2>1. dispatch'[c].slot = NULL
    BY <1>1, <1>4 DEF Agree, StartHeld, Moves, DispatchesMove, DispatchMove, Reserve
  <2>2. <<c, c>> \in Jobs \X (Slots \cup Jobs)
    OBVIOUS
  <2>3. (k \in 1..Len(log) /\ log[k] = <<j, r>>) \/ <<j, r>> = <<c, c>>
    BY <1>1, <1>4, <2>2, Appended
  <2>4. QED
    BY <1>2, <1>4, <2>1, <2>3 DEF Entry
<1>5. ASSUME NEW s \in Slots, NEW i \in Instances, Claim(s, i, TRUE) PROVE Entry(j, r)'
  <2>1. PICK c \in Jobs : c = slot[s].assignment /\ log' = Append(log, <<c, s>>)
    BY <1>5, ClaimedFirst
  <2>2. <<c, s>> \in Jobs \X (Slots \cup Jobs)
    OBVIOUS
  <2>3. (k \in 1..Len(log) /\ log[k] = <<j, r>>) \/ <<j, r>> = <<c, s>>
    BY <1>1, <2>1, <2>2, Appended
  <2>4. QED
    BY <1>1, <1>2, <1>5, <2>1, <2>3, ClaimEntry
<1>6. QED
  BY <1>1, <1>3, <1>4, <1>5 DEF LogMove

LEMMA LoggedInit == Init => Logged
BY DEF Init, Logged

\* While the outcome of an executed job is open, also while it waits for reconciliation,
\* no timer, catch block or other process takes its lease or its app away.
THEOREM ExecutionKeepsRunner == Spec => []KeptWhileExecuting
<1>1. Agree /\ Logged => KeptWhileExecuting
  <2> SUFFICES ASSUME Agree, Logged, NEW k \in 1..Len(log),
                      log[k][2] \in Slots, log[k][1] \notin Probes,
                      job[log[k][1]].status \in {"live", "held"}
               PROVE  /\ slot[log[k][2]].status = "consumed" /\ slot[log[k][2]].job = log[k][1]
                      /\ app[log[k][2]] = "started"
    BY DEF KeptWhileExecuting
  <2>1. log[k][1] \in Jobs /\ Entry(log[k][1], log[k][2])
    BY LogEntries DEF Agree, Logged
  <2>2. QED
    BY <2>1, ConstantsAssumption DEF Entry
<1>2. Agree /\ Logged /\ [Next]_vars => (Agree /\ Logged)'
  BY AgreeStep, LoggedStep
<1>3. QED
  BY <1>1, <1>2, AgreeInit, LoggedInit, PTL DEF Spec

\* The pool implements OneShot: a job is executed at most once and a runner executes at
\* most one job, warm or cold, whatever is lost, restarted, retried or raced for.
THEOREM PoolImplementsOneShot == Spec => ExecutesOnce
<1>1. Init => Lease!Init
  BY DEF Init, Lease!Init
<1>2. Agree /\ Logged /\ [Next]_vars => [Lease!Next]_log
  <2> SUFFICES ASSUME Agree, Logged, [Next]_vars PROVE [Lease!Next]_log
    OBVIOUS
  <2>1. LogMove
    BY LogStep DEF Agree
  <2>2. ASSUME NEW j \in Jobs, dispatch[j].pc = "bound", log' = Append(log, <<j, j>>)
        PROVE  Lease!Next
    BY <2>2, ColdFirst DEF Lease!Next, Lease!Execute, Lease!Unused
  <2>3. ASSUME NEW s \in Slots, NEW i \in Instances, Claim(s, i, TRUE) PROVE Lease!Next
    BY <2>3, ClaimedFirst DEF Lease!Next, Lease!Execute, Lease!Unused
  <2>4. QED
    BY <2>1, <2>2, <2>3 DEF LogMove
<1>3. Agree /\ Logged /\ [Next]_vars => (Agree /\ Logged)'
  BY AgreeStep, LoggedStep
<1>4. QED
  BY <1>1, <1>2, <1>3, AgreeInit, LoggedInit, PTL DEF Spec, ExecutesOnce, Lease!Spec

=============================================================================
