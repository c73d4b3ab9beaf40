------------------------------ MODULE OneShot ------------------------------
(***************************************************************************)
(* What the dispatch of execution jobs promises, whichever way a job takes *)
(* to its runner: a runner executes one job and a job is executed by one   *)
(* runner, at most once, whatever is retried, restarted or lost.           *)
(***************************************************************************)
EXTENDS Sequences, Naturals

CONSTANTS Jobs, Runners

VARIABLE log  \* the executions so far, as <<job, runner>>

TypeOK == log \in Seq(Jobs \X Runners)

Init == log = <<>>

Unused(j, r) == \A i \in 1..Len(log) : log[i][1] # j /\ log[i][2] # r

Execute(j, r) ==
  /\ Unused(j, r)
  /\ log' = Append(log, <<j, r>>)

Next == \E j \in Jobs, r \in Runners : Execute(j, r)

Spec == Init /\ [][Next]_log
=============================================================================
