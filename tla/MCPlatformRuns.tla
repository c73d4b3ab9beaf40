--------------------------- MODULE MCPlatformRuns ---------------------------
(* Instances of PlatformRuns for the safety runs of TLC. *)
EXTENDS PlatformRuns, TLC

CONSTANTS MaxDisturbances,  \* bound on what goes wrong in one behaviour
          DisturbedOps      \* operations whose runs are disturbed

Symmetry == Permutations(Runs) \cup Permutations(Owners) \cup Permutations(Droplets)

Happened(r, kind) ==
  CASE kind = "timeout" -> run[r].expired
    [] kind = "revocation" -> grant[r].revoked
    [] kind = "logout" -> grant[r].expired /\ ~run[r].expired
    [] kind = "error" -> run[r].error \notin {"none", "timed_out"}
    [] kind = "failure" ->
         \/ worker[r].pc \in {"failing", "salvage"}
         \/ worker[r].pc = "done" /\ run[r].status \in Live
    [] OTHER -> FALSE

Disturbances ==
  {x \in Runs \X {"timeout", "revocation", "logout", "error", "failure"} : Happened(x[1], x[2])}

CliWrites == {k \in Keys : remote[k].etag > 1 /\ remote[k].doc.by = Cli}

Went == Cardinality(Disturbances) + Cardinality(CliWrites)

\* Up to MaxDisturbances, all of runs of the DisturbedOps.
FewDisturbances == Went <= MaxDisturbances /\ \A x \in Disturbances : run[x[1]].op \in DisturbedOps

Few(rs) == Cardinality({r \in Runs : run[r].status # "none"}) <= rs

\* Nobody but one owner, with one package.
Alone ==
  /\ Cardinality({run[r].owner : r \in Runs} \ {NULL}) <= 1
  /\ Cardinality({run[r].droplet : r \in Runs} \ {NULL}) <= 1

\* Two owners and two packages in two runs with one disturbance; or one owner and
\* FewDisturbances, which are up to MaxDisturbances in two runs and one in three.
PairOrAlone ==
  \/ Few(2) /\ Went <= 1
  \/ FewDisturbances /\ Alone /\ (Few(2) \/ Went <= 1)
=============================================================================
