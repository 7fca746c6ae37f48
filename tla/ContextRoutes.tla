--------------------------- MODULE ContextRoutes ---------------------------
(***************************************************************************)
(* The ContextRoute controller of the operator                             *)
(* (internal/controller/contextroute_controller.go) with its surroundings: *)
(* the API server's objects, the informer caches the controller reads, the *)
(* work queue the watches feed, and the single worker that runs Reconcile. *)
(*                                                                         *)
(* Every read of the code goes to a cache that lags behind the store, and  *)
(* every write goes to the store, so one call of Reconcile is a sequence   *)
(* of steps (variable pc) between which users, watches, the garbage        *)
(* collector and crashes take theirs.                                      *)
(***************************************************************************)
EXTENDS Naturals, FiniteSets

CONSTANTS
    Routes,       \* namespaced names of ContextRoutes: pairs <<namespace, name>>
    Services,     \* names a Service can have in any namespace
    Labels,       \* label values a variant selector can ask for
    CustomKeys,   \* values users give to spec.routingKey
    NoLabel,      \* a Service without the variant label
    BadSelector,  \* a selector LabelSelectorAsSelector rejects
    NoService, NoKey, NoJob,
    Specs,        \* specs users write
    ServiceObjects, \* Services users make
    MaxMoves      \* bound: user steps, crashes and failed writes together

ASSUME RoutesAssumption == Routes \subseteq (STRING \X (Nat \ {0}))

ASSUME NullAssumption ==
    /\ NoService \notin Services
    /\ NoLabel \notin Labels
    /\ BadSelector \notin Labels \cup {NoLabel}
    /\ NoJob \notin Routes

VARIABLES
    \* The API server
    crs,          \* ContextRoutes
    services,     \* Services
    ets,          \* targets some live EdgeTransformation names
    httproutes,   \* HTTPRoutes route-prism-cr-<service>
    routeEvents,  \* requests that HTTPRoute events under way will add
    \* The manager's informer caches
    cacheCRs, cacheServices, cacheETs,
    \* The controller
    queue,        \* the work queue: a set, since it drops duplicates
    pc, job,      \* the worker's next step, and the request it serves
    snap,         \* the ContextRoute as Reconcile read it (with its resourceVersion)
    draft,        \* the status Reconcile has filled in memory
    desired,      \* the HTTPRoute it renders; NoHTTPRoute when it drops one
    \* Bookkeeping of the environment
    uids,         \* per name, the number of objects that have carried it
    clock,        \* creationTimestamp of the youngest ContextRoute, in seconds
    moves

routes == <<httproutes, routeEvents>>
store  == <<crs, services, ets, routes>>
caches == <<cacheCRs, cacheServices, cacheETs>>
worker == <<pc, job, snap, draft, desired>>
bounds == <<uids, clock, moves>>
vars   == <<store, caches, queue, worker, bounds>>

-----------------------------------------------------------------------------
(* Objects. *)

Ns(r)   == r[1]
Name(r) == r[2]

Namespaces == {Ns(r) : r \in Routes}
Names      == {Name(r) : r \in Routes}
Slots      == Namespaces \X Services   \* namespaced Service names

Reasons == {"none", "Reconciled", "DelegatedToEdgeTransformation", "Conflict",
            "RoutingKeyConflict", "TargetNotFound", "UnsupportedTargetType"}

\* uid counts the objects that have carried the name: with the name it is the UID.
\* reason is that of the Ready condition; conflict is status.conflict.ownedBy,
\* 0 when status.conflict is nil. stamp is the condition's lastTransitionTime, of which
\* only matters whether it is that of the write before: it flips when it is not.
Status == [target   : Services \cup {NoService},
           variants : SUBSET Services,
           reason   : Reasons,
           observed : Nat,
           conflict : Names \cup {0},
           stamp    : BOOLEAN]

ContextRoute == [uid        : Nat,
                 created    : Nat,
                 generation : Nat,
                 target     : Services \cup {NoService},
                 selector   : Labels \cup {BadSelector},
                 key        : CustomKeys \cup {NoKey},
                 deleting   : BOOLEAN,
                 finalizer  : BOOLEAN,
                 status     : Status]

NoStatus == [target |-> NoService, variants |-> {}, reason |-> "none",
             observed |-> 0, conflict |-> 0, stamp |-> FALSE]

\* The spec a user may write.
ContextRouteSpec == [target : Services, selector : Labels \cup {BadSelector},
                     key : CustomKeys \cup {NoKey}]

NoContextRoute == [uid |-> 0, created |-> 0, generation |-> 0,
                   target |-> NoService, selector |-> BadSelector, key |-> NoKey,
                   deleting |-> FALSE, finalizer |-> FALSE, status |-> NoStatus]

Exists(cr) == cr.uid # 0

NewContextRoute(spec, uid, created) ==
    [NoContextRoute EXCEPT !.uid = uid, !.created = created, !.generation = 1,
        !.target = spec.target, !.selector = spec.selector, !.key = spec.key]

\* A default routing key is the pair <<namespace, target>>.
RoutingKeys == CustomKeys \cup (Namespaces \X (Services \cup {NoService})) \cup {NoKey}

\* The rules of a route are one per variant, matching "key=variant", and the
\* catch-all to the target, which is the slot the route is stored under.
HTTPRoute == [owner : Names \cup {0}, uid : Nat, key : RoutingKeys,
              variants : SUBSET Services]

NoHTTPRoute == [owner |-> 0, uid |-> 0, key |-> NoKey, variants |-> {}]

ServiceObject == [kind : {"absent", "clusterip", "other"}, label : Labels \cup {NoLabel}]

PCs == {"idle", "release", "finalizer", "check", "resolve", "route", "status"}

ASSUME BoundsAssumption ==
    /\ Specs \subseteq ContextRouteSpec
    /\ ServiceObjects \subseteq ServiceObject
    /\ MaxMoves \in Nat

-----------------------------------------------------------------------------
(* Pure parts of the reconciler. *)

\* spec.routingKey, or "<namespace>.<target>" when it is empty.
EffectiveRoutingKey(r, cr) ==
    IF cr.key = NoKey THEN <<Ns(r), cr.target>> ELSE cr.key

\* The order both conflict rules use: creationTimestamp, then name.
Precedes(a, r, b, s) ==
    \/ a.created < b.created
    \/ a.created = b.created /\ Name(r) < Name(s)

\* Live ContextRoutes of namespace ns on target t, as resolveOwner lists them.
Claimants(ns, t) ==
    {r \in Routes : /\ Ns(r) = ns
                    /\ Exists(cacheCRs[r])
                    /\ ~cacheCRs[r].deleting
                    /\ cacheCRs[r].target = t}

\* Mutant: nobody checks who owns the target.
IsOwnerNobody(r, ns, t) == FALSE

\* resolveOwner returns the first candidate in that order.
IsOwner(r, ns, t) ==
    /\ r \in Claimants(ns, t)
    /\ \A s \in Claimants(ns, t) \ {r} : Precedes(cacheCRs[r], r, cacheCRs[s], s)

\* The routing-key check: some other ContextRoute of any namespace, deleting or
\* not, carries the same key and comes first.
LosesRoutingKey(r, cr) ==
    \E s \in Routes :
        /\ Exists(cacheCRs[s])
        /\ s # r \/ cacheCRs[s].uid # cr.uid
        /\ EffectiveRoutingKey(s, cacheCRs[s]) = EffectiveRoutingKey(r, cr)
        /\ Precedes(cacheCRs[s], s, cr, r)

Matches(selector, svc) == svc.kind # "absent" /\ svc.label = selector

\* The Services the selector matches, without the target itself.
Variants(ns, cr) ==
    {s \in Services \ {cr.target} : Matches(cr.selector, cacheServices[<<ns, s>>])}

RenderHTTPRoute(r, cr, variants) ==
    [owner |-> Name(r), uid |-> cr.uid, key |-> EffectiveRoutingKey(r, cr),
     variants |-> variants]

\* setReadyCondition, and the status fields the reconciler set on the way to it. The
\* time it stamps is chosen with the write, in UpdateStatus.
WithReady(status, reason, generation) ==
    [status EXCEPT !.reason = reason, !.observed = generation]

-----------------------------------------------------------------------------
(* The watches: which requests an event on an object adds. An update event *)
(* is mapped twice, for the old object and for the new one.                *)

\* Mutant: a Service that only carries the variant label wakes nobody.
MapServiceTargetOnly(k, svc) ==
    {r \in Routes : /\ Ns(r) = k[1] /\ svc.kind # "absent"
                    /\ Exists(cacheCRs[r]) /\ cacheCRs[r].target = k[2]}

MapServiceToCRs(k, svc) ==
    {r \in Routes :
        /\ Ns(r) = k[1]
        /\ svc.kind # "absent"
        /\ Exists(cacheCRs[r])
        /\ \/ cacheCRs[r].target = k[2]
           \/ Matches(cacheCRs[r].selector, svc)
           \/ cacheCRs[r].selector # BadSelector /\ k[2] \in cacheCRs[r].status.variants}

MapETToCR(k) ==
    {r \in Routes : Ns(r) = k[1] /\ Exists(cacheCRs[r]) /\ cacheCRs[r].target = k[2]}

\* Mutant: route events do not reach the controller.
MapHTTPRouteToNone(k, hr) == {}

\* By the owner label, which names a ContextRoute of the route's namespace.
MapHTTPRouteToCR(k, hr) ==
    {r \in Routes : hr # NoHTTPRoute /\ Ns(r) = k[1] /\ Name(r) = hr.owner}

\* A write that changes the route is an event, mapped for the old and the new version.
SetHTTPRoute(k, hr) ==
    /\ httproutes' = [httproutes EXCEPT ![k] = hr]
    /\ routeEvents' = IF hr = httproutes[k] THEN routeEvents
                      ELSE routeEvents \cup MapHTTPRouteToCR(k, httproutes[k])
                                       \cup MapHTTPRouteToCR(k, hr)

-----------------------------------------------------------------------------
(* Users. *)

Move == moves < MaxMoves /\ moves' = moves + 1

\* Two objects created within one second carry the same creationTimestamp.
CreateContextRoute(r, spec, sameSecond) ==
    /\ Move
    /\ ~Exists(crs[r])
    /\ clock' = IF sameSecond THEN clock ELSE clock + 1
    /\ uids' = [uids EXCEPT ![r] = @ + 1]
    /\ crs' = [crs EXCEPT ![r] = NewContextRoute(spec, uids'[r], clock')]
    /\ UNCHANGED <<services, ets, routes, caches, queue, worker>>

EditContextRoute(r, spec) ==
    /\ Move
    /\ Exists(crs[r])
    /\ spec # [target |-> crs[r].target, selector |-> crs[r].selector, key |-> crs[r].key]
    /\ crs' = [crs EXCEPT ![r].generation = @ + 1, ![r].target = spec.target,
                          ![r].selector = spec.selector, ![r].key = spec.key]
    /\ UNCHANGED <<services, ets, routes, caches, queue, worker, uids, clock>>

\* The API server removes an object without finalizers at once; otherwise it
\* sets the deletionTimestamp.
DeleteContextRoute(r) ==
    /\ Move
    /\ Exists(crs[r]) /\ ~crs[r].deleting
    /\ crs' = IF crs[r].finalizer
              THEN [crs EXCEPT ![r].generation = @ + 1, ![r].deleting = TRUE]
              ELSE [crs EXCEPT ![r] = NoContextRoute]
    /\ UNCHANGED <<services, ets, routes, caches, queue, worker, uids, clock>>

SetService(k, svc) ==
    /\ Move
    /\ services[k] # svc
    /\ services' = [services EXCEPT ![k] = svc]
    /\ UNCHANGED <<crs, ets, routes, caches, queue, worker, uids, clock>>

\* The first EdgeTransformation on a target appears, or the last one goes.
ToggleET(k) ==
    /\ Move
    /\ ets' = IF k \in ets THEN ets \ {k} ELSE ets \cup {k}
    /\ UNCHANGED <<crs, services, routes, caches, queue, worker, uids, clock>>

\* Somebody deletes a generated HTTPRoute by hand.
DropHTTPRoute(k) ==
    /\ Move
    /\ httproutes[k] # NoHTTPRoute
    /\ SetHTTPRoute(k, NoHTTPRoute)
    /\ UNCHANGED <<crs, services, ets, caches, queue, worker, uids, clock>>

\* Kubernetes' garbage collector: the controller ownerReference names a UID that is gone.
CollectHTTPRoute(k) ==
    /\ httproutes[k] # NoHTTPRoute
    /\ ~\E r \in Routes : /\ Ns(r) = k[1] /\ Name(r) = httproutes[k].owner
                          /\ crs[r].uid = httproutes[k].uid
    /\ SetHTTPRoute(k, NoHTTPRoute)
    /\ UNCHANGED <<crs, services, ets, caches, queue, worker, bounds>>

-----------------------------------------------------------------------------
(* Informers: a cache takes the store's version of one object, and the     *)
(* watch adds the requests the old and the new version map to.             *)

DeliverContextRoute(r) ==
    /\ cacheCRs[r] # crs[r]
    /\ cacheCRs' = [cacheCRs EXCEPT ![r] = crs[r]]
    /\ queue' = queue \cup {r}
    /\ UNCHANGED <<store, cacheServices, cacheETs, worker, bounds>>

DeliverService(k) ==
    /\ cacheServices[k] # services[k]
    /\ cacheServices' = [cacheServices EXCEPT ![k] = services[k]]
    /\ queue' = queue \cup MapServiceToCRs(k, cacheServices[k])
                      \cup MapServiceToCRs(k, services[k])
    /\ UNCHANGED <<store, cacheCRs, cacheETs, worker, bounds>>

DeliverET(k) ==
    /\ (k \in cacheETs) # (k \in ets)
    /\ cacheETs' = IF k \in ets THEN cacheETs \cup {k} ELSE cacheETs \ {k}
    /\ queue' = queue \cup MapETToCR(k)
    /\ UNCHANGED <<store, cacheCRs, cacheServices, worker, bounds>>

DeliverHTTPRoute(r) ==
    /\ r \in routeEvents
    /\ routeEvents' = routeEvents \ {r}
    /\ queue' = queue \cup {r}
    /\ UNCHANGED <<crs, services, ets, httproutes, caches, worker, bounds>>

-----------------------------------------------------------------------------
(* The worker. Reconcile returns through Done; an error returns through    *)
(* Retry, which puts the request back.                                     *)

Rest ==
    /\ pc' = "idle" /\ job' = NoJob
    /\ snap' = NoContextRoute /\ draft' = NoStatus /\ desired' = NoHTTPRoute

Done  == Rest /\ UNCHANGED queue

\* Mutant: an error is dropped instead of being returned to the work queue.
Forget == Rest /\ UNCHANGED queue

\* Mutant: the request is put back after it has been cleared.
RetryCleared == Rest /\ queue' = queue \cup {job'}

Retry == Rest /\ queue' = queue \cup {job}

Goto(label) == pc' = label /\ UNCHANGED <<job, queue>>

\* Mutant: the finalizer is not waited for.
BeginWithoutFinalizer(r) ==
    LET cr == cacheCRs[r] IN
    IF ~Exists(cr) \/ cr.deleting
    THEN Rest
    ELSE /\ pc' = "check"
         /\ job' = r /\ snap' = cr
         /\ draft' = [cr.status EXCEPT !.target = cr.target]
         /\ UNCHANGED desired

\* Reconcile up to the conflict check: Get, and handleDeletionAndFinalizer up to its first write.
Begin(r) ==
    LET cr == cacheCRs[r] IN
    IF ~Exists(cr) \/ (cr.deleting /\ ~cr.finalizer)
    THEN Rest
    ELSE /\ pc' = IF cr.deleting THEN "release"
                  ELSE IF cr.finalizer THEN "check" ELSE "finalizer"
         /\ job' = r
         /\ snap' = cr
         /\ draft' = IF ~cr.deleting /\ cr.finalizer
                     THEN [cr.status EXCEPT !.target = cr.target] ELSE cr.status
         /\ UNCHANGED desired

TakeRequest(r) ==
    /\ pc = "idle" /\ r \in queue
    /\ queue' = queue \ {r}
    /\ Begin(r)
    /\ UNCHANGED <<store, caches, bounds>>

\* The API server accepts an update only for the version the caller read.
Fresh == crs[job] = snap

DeleteOwnedHTTPRoute(target) ==
    IF target = NoService THEN UNCHANGED routes
    ELSE SetHTTPRoute(<<Ns(job), target>>, NoHTTPRoute)

\* Mutant: a route that is already gone counts as a failure to delete it.
ReleaseExistingHTTPRoute ==
    /\ pc = "release"
    /\ UNCHANGED <<crs, services, ets, caches, bounds>>
    /\ IF /\ snap.status.target # NoService
          /\ httproutes[<<Ns(job), snap.status.target>>] = NoHTTPRoute
       THEN Retry /\ UNCHANGED routes
       ELSE /\ DeleteOwnedHTTPRoute(snap.status.target)
            /\ Goto("finalizer")
            /\ UNCHANGED <<snap, draft, desired>>

\* handleDeletionAndFinalizer: deleteOwnedHTTPRoute names the route after
\* status.targetService, whoever owns it.
ReleaseHTTPRoute ==
    /\ pc = "release"
    /\ DeleteOwnedHTTPRoute(snap.status.target)
    /\ Goto("finalizer")
    /\ UNCHANGED <<crs, services, ets, caches, snap, draft, desired, bounds>>

\* Update adds the finalizer and asks for a requeue, or removes it, upon which
\* the API server drops the object.
UpdateFinalizer ==
    /\ pc = "finalizer" /\ Fresh
    /\ IF snap.deleting
       THEN crs' = [crs EXCEPT ![job] = NoContextRoute] /\ Done
       ELSE crs' = [crs EXCEPT ![job].finalizer = TRUE] /\ Retry
    /\ UNCHANGED <<services, ets, routes, caches, bounds>>

\* checkConflicts: another ContextRoute owns the target.
TargetConflict ==
    /\ pc = "check"
    /\ \E w \in Routes \ {job} :
          /\ IsOwner(w, Ns(job), snap.target)
          /\ draft' = WithReady([draft EXCEPT !.conflict = Name(w), !.variants = {}],
                                "Conflict", snap.generation)
    /\ Goto("status")
    /\ UNCHANGED <<store, caches, snap, desired, bounds>>

OwnsTarget == ~\E w \in Routes \ {job} : IsOwner(w, Ns(job), snap.target)

\* checkConflicts: another ContextRoute has the routing key.
RoutingKeyConflict ==
    /\ pc = "check"
    /\ OwnsTarget
    /\ LosesRoutingKey(job, snap)
    /\ draft' = WithReady([draft EXCEPT !.conflict = 0, !.variants = {}],
                          "RoutingKeyConflict", snap.generation)
    /\ Goto("status")
    /\ UNCHANGED <<store, caches, snap, desired, bounds>>

NoConflict ==
    /\ pc = "check"
    /\ OwnsTarget
    /\ ~LosesRoutingKey(job, snap)
    /\ draft' = [draft EXCEPT !.conflict = 0]
    /\ Goto("resolve")
    /\ UNCHANGED <<store, caches, snap, desired, bounds>>

Target == cacheServices[<<Ns(job), snap.target>>]

\* resolveTarget: the target is missing, or of a type GAMMA does not attach to.
RejectTarget ==
    /\ pc = "resolve"
    /\ Target.kind # "clusterip"
    /\ draft' = WithReady(draft, IF Target.kind = "absent" THEN "TargetNotFound"
                                 ELSE "UnsupportedTargetType", snap.generation)
    /\ Goto("status")
    /\ UNCHANGED <<store, caches, snap, desired, bounds>>

RejectSelector ==
    /\ pc = "resolve"
    /\ Target.kind = "clusterip" /\ snap.selector = BadSelector
    /\ Retry
    /\ UNCHANGED <<store, caches, bounds>>

\* The variants are listed, and an EdgeTransformation on the target decides
\* between rendering the HTTPRoute and dropping it.
PlanHTTPRoute ==
    /\ pc = "resolve"
    /\ Target.kind = "clusterip" /\ snap.selector # BadSelector
    /\ LET variants == Variants(Ns(job), snap)
           hasET    == <<Ns(job), snap.target>> \in cacheETs
       IN  /\ desired' = IF hasET THEN NoHTTPRoute ELSE RenderHTTPRoute(job, snap, variants)
           /\ draft' = WithReady([draft EXCEPT !.variants = variants],
                                 IF hasET THEN "DelegatedToEdgeTransformation" ELSE "Reconciled",
                                 snap.generation)
    /\ Goto("route")
    /\ UNCHANGED <<store, caches, snap, bounds>>

\* A server-side apply that forces ownership: it creates or takes over the
\* route of the target, whatever is there.
ApplyHTTPRoute ==
    /\ pc = "route" /\ desired # NoHTTPRoute
    /\ SetHTTPRoute(<<Ns(job), snap.target>>, desired)
    /\ Goto("status")
    /\ UNCHANGED <<crs, services, ets, caches, snap, draft, desired, bounds>>

\* Mutant: the route stays when an EdgeTransformation takes over.
KeepDelegatedHTTPRoute ==
    /\ pc = "route" /\ desired = NoHTTPRoute
    /\ Goto("status")
    /\ UNCHANGED <<store, caches, snap, draft, desired, bounds>>

DropDelegatedHTTPRoute ==
    /\ pc = "route" /\ desired = NoHTTPRoute
    /\ DeleteOwnedHTTPRoute(draft.target)
    /\ Goto("status")
    /\ UNCHANGED <<crs, services, ets, caches, snap, draft, desired, bounds>>

\* The condition carries the second in which it was made. A write that has something else
\* to say is a change in any case; one that has not is a change unless it comes within the
\* second of the write before, and its event adds the request of its own author again.
UpdateStatus ==
    /\ pc = "status" /\ Fresh
    /\ \E stamp \in IF draft = snap.status THEN BOOLEAN ELSE {draft.stamp} :
          crs' = [crs EXCEPT ![job].status = [draft EXCEPT !.stamp = stamp]]
    /\ Done
    /\ UNCHANGED <<services, ets, routes, caches, bounds>>

\* The object changed or went since it was read.
UpdateRefused ==
    /\ pc \in {"status", "finalizer"} /\ ~Fresh
    /\ Retry
    /\ UNCHANGED <<store, caches, bounds>>

\* The API server fails a write for any other reason.
WriteFails ==
    /\ pc \in {"release", "finalizer", "route", "status"}
    /\ Move
    /\ Retry
    /\ UNCHANGED <<store, caches, uids, clock>>

\* The operator process restarts: the caches are listed anew before the worker
\* starts, and every listed ContextRoute and labelled HTTPRoute adds its request.
Restart ==
    /\ Move
    /\ cacheCRs' = crs /\ cacheServices' = services
    /\ cacheETs' = ets
    /\ routeEvents' = {}
    /\ Rest
    /\ queue' = {r \in Routes : Exists(crs[r])}
                  \cup UNION {MapHTTPRouteToCR(k, httproutes[k]) : k \in Slots}
    /\ UNCHANGED <<crs, services, ets, httproutes, uids, clock>>

-----------------------------------------------------------------------------
User ==
    \/ \E r \in Routes, spec \in Specs :
          \/ \E sameSecond \in BOOLEAN : CreateContextRoute(r, spec, sameSecond)
          \/ EditContextRoute(r, spec)
    \/ \E r \in Routes : DeleteContextRoute(r)
    \/ \E k \in Slots : \/ \E svc \in ServiceObjects : SetService(k, svc)
                        \/ ToggleET(k)
                        \/ DropHTTPRoute(k)

Deliver ==
    \/ \E r \in Routes : DeliverContextRoute(r) \/ DeliverHTTPRoute(r)
    \/ \E k \in Slots : DeliverService(k) \/ DeliverET(k)

Step ==
    \/ ReleaseHTTPRoute \/ UpdateFinalizer
    \/ TargetConflict \/ RoutingKeyConflict \/ NoConflict
    \/ RejectTarget \/ RejectSelector \/ PlanHTTPRoute
    \/ ApplyHTTPRoute \/ DropDelegatedHTTPRoute
    \/ UpdateStatus \/ UpdateRefused

Next ==
    \/ User
    \/ Deliver
    \/ \E r \in Routes : TakeRequest(r)
    \/ Step
    \/ \E k \in Slots : CollectHTTPRoute(k)
    \/ WriteFails
    \/ Restart

\* The operator starts over any Services, EdgeTransformations and ContextRoutes
\* that users made before, within one second or within two.
Init ==
    /\ crs \in [Routes -> {NoContextRoute} \cup
                   {NewContextRoute(spec, 1, t) : spec \in Specs, t \in {0, 1}}]
    /\ services \in [Slots -> ServiceObjects]
    /\ ets \in SUBSET Slots
    /\ httproutes = [k \in Slots |-> NoHTTPRoute] /\ routeEvents = {}
    /\ cacheCRs = crs /\ cacheServices = services /\ cacheETs = ets
    /\ queue = {r \in Routes : Exists(crs[r])}
    /\ pc = "idle" /\ job = NoJob
    /\ snap = NoContextRoute /\ draft = NoStatus /\ desired = NoHTTPRoute
    /\ uids = [r \in Routes |-> crs[r].uid] /\ clock = 1
    /\ moves = 0

Spec == Init /\ [][Next]_vars

\* Watches deliver the changes of every object, the worker runs, and the work queue
\* hands out every request in turn (it is a FIFO). Users and faults owe nothing.
Fairness ==
    /\ \A r \in Routes : /\ WF_vars(DeliverContextRoute(r)) /\ WF_vars(DeliverHTTPRoute(r))
                         /\ SF_vars(TakeRequest(r))
    /\ \A k \in Slots : /\ WF_vars(DeliverService(k)) /\ WF_vars(DeliverET(k))
                        /\ WF_vars(CollectHTTPRoute(k))
    /\ WF_vars(Step)

FairSpec == Spec /\ Fairness

-----------------------------------------------------------------------------
(* Properties. *)

\* Every variable keeps its type.
TypeOK ==
    /\ crs \in [Routes -> ContextRoute] /\ cacheCRs \in [Routes -> ContextRoute]
    /\ services \in [Slots -> ServiceObject] /\ cacheServices \in [Slots -> ServiceObject]
    /\ ets \subseteq Slots /\ cacheETs \subseteq Slots
    /\ httproutes \in [Slots -> HTTPRoute] /\ routeEvents \subseteq Routes
    /\ queue \subseteq Routes
    /\ pc \in PCs /\ job \in Routes \cup {NoJob} /\ (pc # "idle" => job \in Routes)
    /\ snap \in ContextRoute /\ draft \in Status /\ desired \in HTTPRoute
    /\ uids \in [Routes -> Nat] /\ clock \in Nat /\ moves \in 0..MaxMoves

Quiescent ==
    /\ pc = "idle" /\ queue = {}
    /\ cacheCRs = crs /\ cacheServices = services
    /\ cacheETs = ets /\ routeEvents = {}

Live(r) == Exists(crs[r]) /\ ~crs[r].deleting

\* The route the code should have left behind for r, from the store.
Wanted(r) ==
    [owner |-> Name(r), uid |-> crs[r].uid, key |-> EffectiveRoutingKey(r, crs[r]),
     variants |-> {s \in Services \ {crs[r].target} :
                     Matches(crs[r].selector, services[<<Ns(r), s>>])}]

\* The finalizer holds every ContextRoute that a route is written for: a route is
\* only ever created, or handed to another owner, while the ContextRoute it names
\* as its owner is in the API server with its finalizer on. So no reconcile, not even
\* one that reads stale caches, leaves a new route behind an owner that is gone.
FinalizerHoldsOwner ==
    [][\A k \in Slots :
          httproutes'[k] # httproutes[k] /\ httproutes'[k] # NoHTTPRoute =>
             \E r \in Routes : /\ Ns(r) = k[1] /\ Name(r) = httproutes'[k].owner
                               /\ crs[r].uid = httproutes'[k].uid /\ crs[r].finalizer]_vars

Held(cr) == Exists(cr) /\ cr.finalizer /\ ~cr.deleting

\* The inductive invariant behind FinalizerHoldsOwner, in parts. Reading a cache, the
\* worker may see a version the store has left behind, but never one from before a
\* deletion it has itself completed.

\* UIDs in use have been handed out.
UidsHandedOut ==
    /\ \A r \in Routes : crs[r].uid <= uids[r] /\ cacheCRs[r].uid <= uids[r]
    /\ pc # "idle" => snap.uid <= uids[job]

\* What a cache shows as held is held.
CacheHolds ==
    \A r \in Routes : Held(cacheCRs[r]) => crs[r].uid = cacheCRs[r].uid /\ crs[r].finalizer

\* What the worker reconciles is held.
WorkerHolds ==
    pc \in {"check", "resolve", "route"} =>
        Held(snap) /\ crs[job].uid = snap.uid /\ crs[job].finalizer

\* A deletion a cache shows is in every later version of that object,
DeletionKnown ==
    \A r \in Routes :
        Exists(cacheCRs[r]) /\ cacheCRs[r].deleting /\ crs[r].uid = cacheCRs[r].uid
        => crs[r].deleting

\* and so is one the worker serves.
DeletionServed ==
    pc # "idle" /\ snap.deleting =>
        /\ Exists(snap)
        /\ crs[job].uid = snap.uid => crs[job].deleting
        /\ cacheCRs[job].uid = snap.uid => cacheCRs[job].deleting

\* A rendered route names the ContextRoute it was rendered for.
DesiredNamesJob ==
    desired # NoHTTPRoute =>
        pc \in {"route", "status"} /\ desired.owner = Name(job) /\ desired.uid = snap.uid

FinalizerInv ==
    /\ UidsHandedOut
    /\ CacheHolds
    /\ WorkerHolds
    /\ DeletionKnown
    /\ DeletionServed
    /\ DesiredNamesJob

\* Once everything is delivered and reconciled, a ContextRoute that reports Reconciled
\* for its current spec has exactly the route its spec and the Services ask for.
ReadyRouteInstalled ==
    Quiescent => \A r \in Routes :
        Live(r) /\ crs[r].status.reason = "Reconciled" =>
            /\ crs[r].status.observed = crs[r].generation
            /\ httproutes[<<Ns(r), crs[r].target>>] = Wanted(r)
            /\ crs[r].status.variants = Wanted(r).variants

\* Once all is quiet, one ContextRoute at most has a target: while one reports Reconciled,
\* each other live one on that target reports that it was turned away. Which of them it
\* is depends on the order of events: a claimant stays turned away after the one that
\* preceded it has gone.
OthersTurnedAway ==
    Quiescent => \A r, s \in Routes :
        /\ Live(r) /\ crs[r].status.reason = "Reconciled"
        /\ Live(s) /\ Ns(r) = Ns(s) /\ crs[r].target = crs[s].target /\ r # s
        => crs[s].status.reason \in {"Conflict", "RoutingKeyConflict"}

\* A target whose ContextRoute has handed routing to an EdgeTransformation has no
\* route of the ContextRoute's kind left beside the translator's.
DelegatedHasNoRoute ==
    Quiescent => \A r \in Routes :
        Live(r) /\ crs[r].status.reason = "DelegatedToEdgeTransformation" =>
            httproutes[<<Ns(r), crs[r].target>>] = NoHTTPRoute

\* status.conflict names a live ContextRoute that has the target.
ConflictNamesOwner ==
    Quiescent => \A r \in Routes :
        Live(r) /\ crs[r].status.conflict # 0 =>
            \E s \in Routes : /\ Ns(s) = Ns(r) /\ Name(s) = crs[r].status.conflict
                              /\ Exists(crs[s]) /\ crs[s].target = crs[r].target

\* What a ContextRoute says, without the time at which it was said.
Content(cr) == [cr EXCEPT !.status.stamp = FALSE]
contents    == [r \in Routes |-> Content(crs[r])]

\* Although each status write may wake its own author once more, for ever, what it
\* writes comes to rest once the users do: the reconciles do not keep overwriting each
\* other's objects.
Converges == <>[][FALSE]_<<contents, httproutes>>

\* A ContextRoute under deletion goes, whatever fails on the way.
DeletionCompletes == \A r \in Routes : crs[r].deleting ~> ~crs[r].deleting

\* A ContextRoute that stays eligible and is not reported as conflicting gets its route.
EligibleGetsRoute ==
    \A r \in Routes :
        <>[](/\ Live(r) /\ crs[r].selector # BadSelector
             /\ services[<<Ns(r), crs[r].target>>].kind = "clusterip"
             /\ <<Ns(r), crs[r].target>> \notin ets
             /\ crs[r].status.reason \notin {"Conflict", "RoutingKeyConflict"})
        => <>[](Live(r) /\ httproutes[<<Ns(r), crs[r].target>>] = Wanted(r))

=============================================================================
