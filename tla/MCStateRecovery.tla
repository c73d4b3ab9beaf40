-------------------------- MODULE MCStateRecovery --------------------------
(* Two proposals of one lost Apply; requests of two reviewers overlap while *)
(* there is only the first.                                                 *)
EXTENDS StateRecovery, TLC

\* bound: with a second proposal only one request of a reviewer and one of a runner
\* are under way, and the customer and later jobs change nothing
OneAtATime ==
    \/ phase[2] = "none"
    \/ /\ Cardinality({a \in Reviewers : request[a] # NoRequest}) < 2 /\ Cardinality(call) < 2
       /\ s3.lock # "user" /\ s3.state.by[1] # "user" /\ cloud.edition = 0 /\ ~later

\* the requests of reviewers do not differ
ReviewerSymmetry == Permutations(Reviewers)
=============================================================================
