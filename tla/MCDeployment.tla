---------------------------- MODULE MCDeployment ----------------------------
(* Instances of Deployment for TLC.  The cfg files give the constants model *)
(* values; two handlers, cancel requests or deployments that differ only by *)
(* name are interchangeable, except where EdgeDeployments tells them apart. *)
EXTENDS Deployment, TLC

ApiSymmetry ==
    Permutations(Handlers) \cup Permutations(Cancellers)
        \cup Permutations(Deployments)
=============================================================================
