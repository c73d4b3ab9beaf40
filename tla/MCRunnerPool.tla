---------------------------- MODULE MCRunnerPool ----------------------------
(* Small instances of RunnerPool for TLC. *)
EXTENDS RunnerPool, TLC

\* The members of these sets are told apart by nothing.  Only runs without
\* liveness properties use it.
Interchangeable == Permutations(Slots) \cup Permutations(Apis) \cup Permutations(Instances)

Begun(jobs) == {j \in jobs : dispatch[j].pc # "new"}
OneContainer == Cardinality({i \in Instances : \E s \in Slots : proc[<<s, i>>] # "off"}) <= 1
Maintaining == {a \in Apis : maint[a].pc # "idle"}

\* One lease: a job whose runner is polled from two overlapping containers beside one
\* maintenance, or two jobs while no maintenance is under way.
OneLease ==
  /\ Cardinality({s \in Slots : slot[s].status # "none"}) <= 1
  /\ Begun(Probes) = {} /\ Cardinality(Maintaining) <= 1
  /\ \/ Cardinality(Begun(PlatformJobs \cup ApplicationJobs)) <= 1
     \/ OneContainer /\ Maintaining = {}

\* Two leases without jobs and overlaps, with a probe or a second maintenance.
NoJobs ==
  /\ Begun(PlatformJobs \cup ApplicationJobs) = {} /\ OneContainer
  /\ Begun(Probes) = {} \/ Cardinality(Maintaining) <= 1

\* Either job may use the lease, not both: Begin is under no fairness, so that the
\* behaviours left are those of FairSpec.
OneJob == Cardinality(Begun(Jobs)') <= 1

OneThing == OneLease \/ NoJobs
=============================================================================
