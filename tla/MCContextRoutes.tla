-------------------------- MODULE MCContextRoutes --------------------------
(* Small instances of ContextRoutes. *)
EXTENDS ContextRoutes

Spec1(target, selector, key) == [target |-> target, selector |-> selector, key |-> key]

\* Two ContextRoutes of one namespace: they can fight for a target.
SameNamespace == {<<"shop", 1>>, <<"shop", 2>>}

TwoTargets    == {Spec1(t, "v", NoKey) : t \in {"a", "b"}}

ClusterIPs == {[kind |-> "clusterip", label |-> l] : l \in {NoLabel, "v"}}
Services3 == {[kind |-> "absent", label |-> NoLabel],
              [kind |-> "clusterip", label |-> NoLabel],
              [kind |-> "clusterip", label |-> "v"]}

\* Target "a" is a plain Service and "b" carries the variant label; one
\* ContextRoute is on "a".
InstalledBase ==
    /\ Init
    /\ ets = {}
    /\ services = [k \in Slots |-> [kind |-> "clusterip",
                                    label |-> IF k[2] = "a" THEN NoLabel ELSE "v"]]
    /\ crs[<<"shop", 1>>].target = "a" /\ crs[<<"shop", 1>>].created = 1
    /\ crs[<<"shop", 2>>].created = 0

SmallSpec == InstalledBase /\ [][Next]_vars

\* A key that collides with the default key of another target, two keys on one target, and
\* a selector that is rejected.
KeyOfB == <<"shop", "b">>
OnlyKeyOfB == {KeyOfB}
MixedSpecs == {Spec1("a", "v", NoKey), Spec1("a", "v", KeyOfB), Spec1("b", "v", NoKey),
               Spec1("a", BadSelector, NoKey)}

Plain == Spec1("a", "v", NoKey)
OnB   == Spec1("b", "v", NoKey)

\* The first ContextRoute is a plain one; the second, if it is there, is older and claims the
\* same target under another key or has the rejected selector.
PlainBase ==
    /\ InstalledBase
    /\ crs[<<"shop", 1>>] = NewContextRoute(Plain, 1, 1)
    /\ crs[<<"shop", 2>>].target # "b"
    /\ crs[<<"shop", 2>>] # NewContextRoute(Plain, 1, 0)

\* Nothing is reconciled yet, and what the caches show of the ContextRoutes is out of date.
Unseen(first, second, cachedFirst, cachedSecond, done) ==
    /\ crs = [r \in Routes |-> IF r[2] = 1 THEN first ELSE second]
    /\ cacheCRs = [r \in Routes |-> IF r[2] = 1 THEN cachedFirst ELSE cachedSecond]
    /\ services = [k \in Slots |-> [kind |-> "clusterip",
                                    label |-> IF k[2] = "a" THEN NoLabel ELSE "v"]]
    /\ ets = {} /\ cacheServices = services /\ cacheETs = ets
    /\ httproutes = [k \in Slots |-> NoHTTPRoute] /\ routeEvents = {}
    /\ queue = {r \in Routes : Exists(cacheCRs[r])}
    /\ pc = "idle" /\ job = NoJob
    /\ snap = NoContextRoute /\ draft = NoStatus /\ desired = NoHTTPRoute
    /\ uids = [r \in Routes |-> crs[r].uid] /\ clock = 1
    /\ moves = done

\* The first ContextRoute has just been deleted and made again on another target: the cache
\* shows the earlier one, which had no finalizer yet.
MadeAgain ==
    Unseen(NewContextRoute(OnB, 2, 1), NoContextRoute,
           NewContextRoute(Plain, 1, 1), NoContextRoute, 0)

\* The second and older ContextRoute has just been pointed at the target of the first.
MovedOver ==
    Unseen(NewContextRoute(Plain, 1, 1),
           [NewContextRoute(Plain, 1, 0) EXCEPT !.generation = 2],
           NewContextRoute(Plain, 1, 1), NewContextRoute(OnB, 1, 0), 1)

\* Service "b" stays, and no EdgeTransformation is on it.
KeepB == services'[<<"shop", "b">>].kind # "absent" /\ <<"shop", "b">> \notin ets'

FairSmallSpec ==
    (PlainBase \/ MadeAgain \/ MovedOver) /\ [][Next /\ KeepB]_vars /\ Fairness
=============================================================================
