-------------------------- MODULE MCRunnerCleanup --------------------------
(* Instances of RunnerCleanup: a cold app, a warm app and the app of another *)
(* deployment that has no label, which was made before the labels.          *)
EXTENDS RunnerCleanup

CONSTANTS p1, p2, a1, s1, x1, x2, x3

MixedCreatedAt == (x1 :> 1) @@ (x2 :> 2) @@ (x3 :> 3)
MixedRunner == (x1 :> a1) @@ (x2 :> s1) @@ (x3 :> p2)
MixedOwner == (x1 :> "here") @@ (x2 :> "here") @@ (x3 :> NULL)

\* Two cold apps of this deployment on pages of one.
PagedCreatedAt == (x1 :> 1) @@ (x2 :> 2)
PagedRunner == (x1 :> p1) @@ (x2 :> p2)
PagedOwner == [x \in {x1, x2} |-> "here"]
ApiSymmetry == Permutations(Apis)

=============================================================================
