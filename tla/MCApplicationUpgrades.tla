----------------------- MODULE MCApplicationUpgrades -----------------------
(* Bounds for TLC: histories of the order while the platform rests, with   *)
(* two jobs and everything that may happen to them, with an Apply between  *)
(* two upgrades, or with four jobs one after the other, of which only      *)
(* Applies are lost; and the Applies of the platform beside an order with  *)
(* two jobs and one upgrade to its contract.                               *)
EXTENDS ApplicationUpgrades

Published == {p \in Paths : edge[p] # "none"}

PlatformRests ==
    /\ Len(contract) = 1 /\ plan = NoPlan /\ platform.status = "none"
    /\ \A p \in Published : p.kind = "template"
    \* published before the order is placed, but for a change of policy
    /\ order # "none" => Published # {}

\* one job after the other
InTurn == \A j \in Made : j < made => Status(j) \notin {"none", "running"}

PlansGoWell == \A j \in Made : job[j].op = "plan" =>
    /\ Status(j) \in {"none", "running", "succeeded"}
    /\ worker[j] # "gone" /\ job[j].class # "blocked"
    /\ Expired(j) \/ job[j].revoked => Status(j) = "succeeded"

\* after a second candidate, Plans go well
TwoJobs ==
    /\ PlatformRests /\ Len(template) <= 2 /\ made <= 2
    /\ Newest <= 1 \/ PlansGoWell

AppliesGoOn == \A j \in Made : job[j].op = "apply" =>
    /\ Status(j) # "failed" /\ ~job[j].revoked
    /\ Expired(j) => Status(j) = "reconcile" \/ j < made

\* an upgrade that needs an approval
FourJobs ==
    /\ PlatformRests /\ Len(template) <= 2 /\ Newest <= 2 /\ order \in {"none", "direct"}
    /\ InTurn /\ PlansGoWell /\ AppliesGoOn
    /\ \A p \in Published : edge[p] = "approval"
    \* and was so when a candidate was selected
    /\ \A c \in 1 .. Newest : candidate[c].kind # "withdrawal" => candidate[c].sensitive # "direct"

\* two versions to upgrade to, without approvals
TwoUpgrades ==
    /\ PlatformRests /\ made <= 2 /\ order \in {"none", "direct"} /\ PlansGoWell
    /\ \A p \in Published : edge[p] = "direct"
    /\ \A j \in Made : job[j].class = "ordinary"

SharedPlatform ==
    /\ made <= 2 /\ Newest <= 1 /\ Len(template) = 1 /\ order \in {"none", "direct"}
    /\ \A p \in Published : p.kind = "platform" /\ p.from < p.to /\ edge[p] = "direct"
    /\ InTurn /\ (made <= 1 \/ PlansGoWell)
    /\ \A j \in Made : job[j].class = "ordinary"

Histories == TwoJobs \/ FourJobs \/ TwoUpgrades \/ SharedPlatform
=============================================================================
