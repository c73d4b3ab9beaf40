--------------------------- MODULE PlanRetention ---------------------------
(***************************************************************************)
(* Plans.maintain: every 30 seconds the API removes the runners of the     *)
(* plan_runs that ended, oldest first and at most Limit in a pass.         *)
(* PlatformRuns lets a removal succeed in the end; here some never do, to  *)
(* see what one of them does to the others.                                *)
(***************************************************************************)
EXTENDS Naturals, Sequences

CONSTANTS
  Runs,
  Limit,   \* LIMIT 20 of expire_plan_runs
  Stuck    \* runs whose removal always throws: Cloud Foundry refuses the deletion

VARIABLES
  run,       \* status of a run
  finished,  \* the runs that ended, by finished_at
  removed,   \* runs whose app is gone
  pass       \* rows the pass of the process still has to remove, and the one to mark

vars == <<run, finished, removed, pass>>

Idle == [pc |-> "idle", todo |-> <<>>]

Init ==
  /\ run = [r \in Runs |-> "live"]
  /\ finished = <<>> /\ removed = {} /\ pass = Idle

\* A result, a cancellation, a failure or expire_plan_runs; an Apply may be held back.
Finish(r) ==
  /\ run[r] = "live"
  /\ \E s \in {"recent", "held"} : run' = [run EXCEPT ![r] = s]
  /\ finished' = Append(finished, r)
  /\ UNCHANGED <<removed, pass>>

\* 30 seconds later; or the owner reconciled the Apply.
Mature(r) ==
  /\ run[r] \in {"recent", "held"}
  /\ run' = [run EXCEPT ![r] = IF @ = "held" THEN "recent" ELSE "due"]
  /\ UNCHANGED <<finished, removed, pass>>

Oldest(rows) == IF Len(rows) > Limit THEN SubSeq(rows, 1, Limit) ELSE rows

Due == SelectSeq(finished, LAMBDA r : run[r] = "due")

\* expire_plan_runs; the flag "maintaining" allows one pass at a time.
StartPass ==
  /\ pass.pc = "idle" /\ Due # <<>>
  /\ pass' = [pc |-> "removing", todo |-> Oldest(Due)]
  /\ UNCHANGED <<run, finished, removed>>

Removable(r) == r \notin Stuck

AppGone(r) == removed \cup {r}

RemoveRunner ==
  LET r == Head(pass.todo) IN
  /\ pass.pc = "removing" /\ pass.todo # <<>> /\ Removable(r)
  /\ removed' = AppGone(r)
  /\ pass' = [pass EXCEPT !.pc = "marking"]
  /\ UNCHANGED <<run, finished>>

\* mark_plan_cleaned
Mark ==
  /\ pass.pc = "marking"
  /\ run' = [run EXCEPT ![Head(pass.todo)] = "cleaned"]
  /\ pass' = [pc |-> "removing", todo |-> Tail(pass.todo)]
  /\ UNCHANGED <<finished, removed>>

\* The rejection of one removal or mark leaves the loop; a restart does too.
Throw ==
  /\ pass.pc # "idle" /\ pass.todo # <<>>
  /\ pass' = Idle
  /\ UNCHANGED <<run, finished, removed>>

EndPass ==
  /\ pass.pc = "removing" /\ pass.todo = <<>>
  /\ pass' = Idle
  /\ UNCHANGED <<run, finished, removed>>

Maintain == StartPass \/ RemoveRunner \/ Mark \/ Throw \/ EndPass

Next == Maintain \/ \E r \in Runs : Finish(r) \/ Mature(r)

\* The timer keeps running, and a removal that can succeed does not throw for ever.
Spec == Init /\ [][Next]_vars /\ WF_vars(Maintain) /\ SF_vars(RemoveRunner) /\ SF_vars(Mark)

---------------------------------------------------------------------------
(* Properties *)

\* "Completed platform runners are deleted no earlier than 30 seconds after durable
\* completion by the next 30-second maintenance pass", whatever happens to the others.
CleanedInTurn == \A r \in Runs : Removable(r) /\ run[r] = "due" ~> run[r] = "cleaned"

=============================================================================
