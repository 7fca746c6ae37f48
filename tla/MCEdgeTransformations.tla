----------------------- MODULE MCEdgeTransformations -----------------------
(* Small instances of EdgeTransformations. *)
EXTENDS EdgeTransformations

OneCR  == {1}
TwoCRs == {1, 2}
NoCRs  == {}
OneAddress   == {1}
TwoAddresses == {1, 2}

On(t, router) == [router |-> router, target |-> t]
AllModes   == {On("a", TRUE), On("b", TRUE), On("a", FALSE)}
RouterOnA  == {On("a", TRUE)}
RouterOnAB == {On("a", TRUE), On("b", TRUE)}

Selects(t, selector, key) == [target |-> t, selector |-> selector, key |-> key]
PlainCR == {Selects("a", "v", NoKey)}
BothCRs == {Selects("a", "v", NoKey), Selects("a", "v", "key")}
MixedCRs == {Selects("a", "v", NoKey), Selects("a", BadSelector, NoKey)}

ClusterIP(label) == [kind |-> "clusterip", label |-> label]
Absent     == [kind |-> "absent", label |-> NoLabel]
ClusterIPs == {ClusterIP(NoLabel), ClusterIP("v")}
AllKinds   == ClusterIPs \cup {Absent, [kind |-> "other", label |-> NoLabel]}

\* "a" is a plain Service, "b" carries the variant label, both have a Pod.
\* EdgeTransformation e1 sends the traffic of "a" through a translator, and the first
\* ContextRoute, if there is one, routes the same target. A second one is older and has a
\* routing key of its own.
InstalledBase ==
    /\ Init
    /\ \A c \in CRs \cap {1} : crs[c] = Attach(Selects("a", "v", NoKey), 1)
    /\ \A c \in CRs \ {1} : crs[c].created = 0 /\ crs[c] # NoContextRoute /\ crs[c].key # NoKey
    /\ services = [s \in Services |-> ClusterIP(IF s = "a" THEN NoLabel ELSE "v")]
    /\ endpoints = [s \in Services |-> 1]
    /\ ets["e1"] = NewEdgeTransformation(On("a", TRUE), 1)

SmallSpec == InstalledBase /\ [][Next /\ services'["b"] \in ClusterIPs]_vars

\* One EdgeTransformation at first; another may come beside it. A second one that sends the
\* traffic of the same target would stay (there is one move) and Settleable would be false.
FairBase ==
    /\ InstalledBase
    /\ \A e \in ETs \ {"e1"} : ~Exists(ets[e])
    /\ crs[1] # NoContextRoute
Beside(e) == ets'[e].uid = 0 \/ ets'[e].target # "a" \/ ~ets'[e].router

FairSmallSpec ==
    /\ FairBase
    /\ [][Next /\ \A e \in ETs \ {"e1"} : Beside(e)]_vars
    /\ Fairness
=============================================================================
