---------------------------- MODULE RoutingView ----------------------------
(***************************************************************************)
(* What the routing API promises of its data, whatever it makes of them:   *)
(* every replica shows, for each kind of object, some state the cluster    *)
(* was in; a later answer never shows an earlier state of any kind than    *)
(* an answer before it; and a view is replaced as a whole.                 *)
(***************************************************************************)
EXTENDS Naturals

CONSTANT Kinds

VARIABLES
    source,  \* the revision of each kind in the cluster
    view     \* the revisions shown, 0 for what was never looked at

vars == <<source, view>>

Init == /\ source \in [Kinds -> Nat]
        /\ view = [k \in Kinds |-> 0]

Change == /\ \E k \in Kinds : source' = [source EXCEPT ![k] = @ + 1]
          /\ UNCHANGED view

Publish == /\ view' \in [Kinds -> Nat]
           /\ \A k \in Kinds : view[k] <= view'[k] /\ view'[k] <= source[k]
           /\ UNCHANGED source

\* A new process knows nothing.
Restart == view' = [k \in Kinds |-> 0] /\ UNCHANGED source

Next == Change \/ Publish \/ Restart

Spec == Init /\ [][Next]_vars
=============================================================================
