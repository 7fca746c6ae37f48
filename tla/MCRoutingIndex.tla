--------------------------- MODULE MCRoutingIndex ---------------------------
(* A small instance of RoutingIndex. *)
EXTENDS RoutingIndex

OnA    == [key |-> "a", target |-> "a", selector |-> "variant"]
OnB    == [key |-> "b", target |-> "v", selector |-> "variant"]
Second == [key |-> "ab", target |-> "a", selector |-> "variant"]
Broken == [key |-> "a", target |-> "v", selector |-> BadSelector]
Specs  == {OnA, OnB, Second, Broken}

\* Two ContextRoutes, a variant that leads to a RemoteRoute, and a translator.
Made(spec, time) == [key |-> spec.key, target |-> spec.target, selector |-> spec.selector,
                     created |-> time]
Base == store = [cr  |-> [c \in CRs |-> IF c = 1 THEN Made(OnA, 2) ELSE Made(OnB, 1)],
                 et  |-> [s \in Targets |-> IF s = "a" THEN "ck" ELSE NoCookie],
                 rr  |-> [s \in Variants |-> IF s = "v" THEN "true" ELSE "none"],
                 svc |-> [s \in Variants |-> IF s = "v" THEN "variant" ELSE NoLabel]]

SmallInit == Base /\ Init

FairSmallSpec == SmallInit /\ [][Next]_vars /\ Fairness
=============================================================================
