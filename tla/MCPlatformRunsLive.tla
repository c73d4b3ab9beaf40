------------------------- MODULE MCPlatformRunsLive -------------------------
(* PlatformRuns for the liveness run of TLC. *)
EXTENDS PlatformRuns

CONSTANTS First, Second

\* First is a plan and Second its Apply: runs that do not depend on each other end
\* on their own.  Grants do not end before their run, except by its cancellation:
\* once a run is admitted no liveness property depends on its grant.  What is cut
\* is under no fairness.
OrderedStep ==
  /\ run'[Second].status # "none" => run'[Second].op = "apply"
  /\ \A r \in Runs : /\ grant'[r].revoked => run'[r].status = "cancelled"
                     /\ grant'[r].expired => run'[r].expired
=============================================================================
