------------------------------ MODULE MCDeploy ------------------------------
(* Deployers of one target choosing between two releases; neither are told *)
(* apart by any definition.  Either two deployers race to install the same *)
(* release, or one deploys one after the other, with more failed calls;    *)
(* then a release has two blobs of one component.                          *)
EXTENDS RemoteDeploy, TLC

CONSTANTS d1, d2, r1, r2

MCDeployers == {d1, d2}
MCReleases  == {r1, r2}

MCComponent(x, f) == 1

Scope(k, d, r, f, e) ==
    [kind |-> k, deployers |-> d, releases |-> r, files |-> f, errors |-> e]

MCScopes == {Scope("vm", 2, 1, 1, 1), Scope("vm", 1, 2, 3, 2)}
    \cup {Scope(k, 2, 1, 1, 0) : k \in {"k8s", "cloud_stack"}}
    \cup {Scope(k, 1, 2, 1, 2) : k \in {"k8s", "cloud_vm", "cloud_stack"}}

MCSymmetry == Permutations(MCDeployers) \cup Permutations(MCReleases)
=============================================================================
