------------------------------ MODULE MCVerify ------------------------------
(* Small instances of Verify. *)
EXTENDS Verify

Ambient == [istio |-> TRUE, mode |-> "ambient"]
Sidecar == [istio |-> TRUE, mode |-> "sidecar"]
Other   == [istio |-> FALSE, mode |-> NoMode]

Plain(keep, policy, image) ==
    [tui |-> FALSE, keep |-> keep, policy |-> policy, override |-> NoMode, image |-> image]
Window1(override) ==
    [tui |-> TRUE, keep |-> FALSE, policy |-> "abort", override |-> override, image |-> "new"]

\* A command that leaves its namespace behind, or an interactive one; then one that may
\* wipe what it finds.
TwoCommands == <<{Plain(TRUE, "abort", "old"), Window1(NoMode)}, {Plain(FALSE, "delete", "new")}>>
OneMesh == {Ambient}
TwoMeshes == {Ambient, Other}

SomeLabels == {{}, {"ambient"}}

PatchOnly == <<{Plain(FALSE, "patch", "new")}>>

FairSpec == Spec /\ Fairness
=============================================================================
