------------------------- MODULE MCApplicationJobs -------------------------
(* Bounds for TLC: two jobs with everything that may happen to them, or    *)
(* four jobs of one delegation, one after the other, whose Plans go well,  *)
(* so that what happens to the Applies, their clearances and the Plans     *)
(* after them is explored.                                                 *)
EXTENDS ApplicationJobs

TwoJobs == made <= 2 /\ \A j \in Made : job[j].purpose = "standard"

GoesWell(j) ==
    /\ ~job[j].revoked /\ start[j] # "failing" /\ "output" \notin job[j].records
    /\ runner[j] # "bad" /\ (Stopped(j) => Status(j) = "succeeded")

PlansGoWell == \A j \in Made : job[j].op = "plan" => GoesWell(j)
InTurn == \A j \in Made : j < made => ~Active(j) /\ Status(j) # "none" /\ start[j] = "idle"
FirstIsLost == \A a \in Made : job[a].plan = 1 => Status(a) \notin {"succeeded", "failed"} /\ ~job[a].revoked
OneDelegation == source = 0 /\ delegation.id = 1 /\ delegation.current
LongHistory == FirstIsLost /\ PlansGoWell /\ InTurn /\ OneDelegation

Histories == TwoJobs \/ LongHistory
=============================================================================
