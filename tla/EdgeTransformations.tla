------------------------ MODULE EdgeTransformations ------------------------
(***************************************************************************)
(* The EdgeTransformation controller of the operator                       *)
(* (internal/controller/edgetransformation_controller.go) with its         *)
(* surroundings, in one namespace: all its reads and writes stay in that   *)
(* of the EdgeTransformation.                                              *)
(*                                                                         *)
(* For each EdgeTransformation it applies, one after the other, a          *)
(* ConfigMap, a Service and a Deployment (the translator), then an         *)
(* HTTPRoute that sends the target's traffic to it. The ConfigMap holds    *)
(* the table of the Pods the translator chooses from, which depends on the *)
(* ContextRoute on the target, on Services and on their endpoints.         *)
(***************************************************************************)
EXTENDS Naturals, FiniteSets

CONSTANTS
    ETs,          \* names of EdgeTransformations
    CRs,          \* names of ContextRoutes: numbers, for their order
    Services,     \* names of Services
    Labels,       \* label values a variant selector can ask for
    CustomKeys,   \* values users give to spec.routingKey
    Addresses,    \* Pod addresses, as positive numbers
    NoLabel, BadSelector, NoService, NoKey, NoET,
    ETSpecs, CRSpecs, ServiceObjects, \* what users write
    Deletable,    \* kinds of generated objects that users delete
    MaxMoves      \* bound: user steps, Pods that come and go, faults together

Kinds == {"configmap", "service", "deployment", "httproute"}

ASSUME NullAssumption ==
    /\ NoService \notin Services
    /\ NoLabel \notin Labels /\ BadSelector \notin Labels \cup {NoLabel}
    /\ NoET \notin ETs
    /\ CRs \subseteq Nat /\ 0 \notin CRs
    /\ Addresses \subseteq Nat /\ 0 \notin Addresses
    /\ Deletable \subseteq Kinds

VARIABLES
    \* The API server
    ets,          \* EdgeTransformations
    crs,          \* ContextRoutes, as far as this controller looks at them
    services,     \* Services of the users
    endpoints,    \* the first ready address of each Service's EndpointSlices; 0 if none
    configMaps, translators, deployments,  \* route-prism-translator-<et>, by kind
    httproutes,   \* HTTPRoutes route-prism-et-<service>
    wakeups,      \* requests that events of generated objects will add
    \* The manager's informer caches
    cacheETs, cacheCRs, cacheServices, cacheEndpoints,
    cacheAvailable, \* whether the cached Deployment has an available replica
    \* The controller
    queue, pc, job,
    snap,         \* the EdgeTransformation as Reconcile read it
    draft,        \* the status Reconcile fills in memory
    table,        \* the nginx.conf it rendered
    \* Bookkeeping of the environment
    uids, clock, moves

generated == <<configMaps, translators, deployments, httproutes, wakeups>>
inputs    == <<crs, services, endpoints>>
caches    == <<cacheETs, cacheCRs, cacheServices, cacheEndpoints, cacheAvailable>>
worker    == <<pc, job, snap, draft, table>>
bounds    == <<uids, clock, moves>>
vars      == <<ets, inputs, generated, caches, queue, worker, bounds>>

-----------------------------------------------------------------------------
(* Objects. *)

Reasons == {"none", "ModeNotImplemented", "TargetNotFound", "UnsupportedTargetType",
            "NoReadyEndpoints", "Reconciled", "TranslatorNotReady"}

\* reason is that of the Ready condition. stamp is the condition's lastTransitionTime, of
\* which only matters whether it is that of the write before: it flips when it is not.
Status == [target : Services \cup {NoService}, ready : BOOLEAN,
           reason : Reasons, observed : Nat, stamp : BOOLEAN]

NoStatus == [target |-> NoService, ready |-> FALSE, reason |-> "none", observed |-> 0,
             stamp |-> FALSE]

EdgeTransformation ==
    {et \in [uid : Nat, generation : Nat, router : BOOLEAN,
             target : Services \cup {NoService}, status : Status] :
        et.uid # 0 => et.target \in Services}

NoEdgeTransformation == [uid |-> 0, generation |-> 0, router |-> FALSE,
                         target |-> NoService, status |-> NoStatus]

\* spec.mode is "router" or one of the modes that are not implemented.
EdgeTransformationSpec == [router : BOOLEAN, target : Services]

NewEdgeTransformation(spec, uid) ==
    [uid |-> uid, generation |-> 1, router |-> spec.router, target |-> spec.target,
     status |-> NoStatus]

Exists(obj) == obj.uid # 0

\* Absent ContextRoutes and those being deleted count the same here.
ContextRouteSpec == [target : Services, selector : Labels \cup {BadSelector},
                     key : CustomKeys \cup {NoKey}]
NoContextRoute == [created |-> 0, target |-> NoService, selector |-> BadSelector, key |-> NoKey]
ContextRoute == [created : Nat, target : Services \cup {NoService},
                 selector : Labels \cup {BadSelector}, key : CustomKeys \cup {NoKey}]

Attach(spec, created) == [created |-> created, target |-> spec.target,
                          selector |-> spec.selector, key |-> spec.key]

ServiceObject == [kind : {"absent", "clusterip", "other"}, label : Labels \cup {NoLabel}]

\* What the rendered nginx.conf depends on: the routing key (a default one is named by
\* its target), the Pod of the target, and one Pod per variant that has one.
Table == [key : CustomKeys \cup Services \cup {NoKey}, default : Addresses \cup {0},
          variants : [Services -> Addresses \cup {0}]]

NoTable == [key |-> NoKey, default |-> 0, variants |-> [s \in Services |-> 0]]

\* Generated objects: the UID of the owner, and the table they carry: nginx.conf itself,
\* or its checksum in the Deployment's Pod template.
ConfigMap   == [uid : Nat, table : Table]
Deployment  == [uid : Nat, table : Table, available : BOOLEAN]
HTTPRoute   == [owner : ETs \cup {NoET}, uid : Nat]

NoConfigMap  == [uid |-> 0, table |-> NoTable]
NoDeployment == [uid |-> 0, table |-> NoTable, available |-> FALSE]
NoHTTPRoute  == [owner |-> NoET, uid |-> 0]

PCs == {"idle", "plan", "configmap", "service", "deployment", "httproute", "ready", "status"}

ASSUME BoundsAssumption ==
    /\ ETSpecs \subseteq EdgeTransformationSpec
    /\ CRSpecs \subseteq ContextRouteSpec
    /\ ServiceObjects \subseteq ServiceObject
    /\ MaxMoves \in Nat

-----------------------------------------------------------------------------
(* What the reconciler makes of the caches. *)

Attached(t) == {c \in CRs : cacheCRs[c].target = t}

\* findCRForTarget: the oldest, by creationTimestamp and then by name.
Wins(c, t) ==
    /\ c \in Attached(t)
    /\ \A d \in Attached(t) \ {c} :
          \/ cacheCRs[c].created < cacheCRs[d].created
          \/ cacheCRs[c].created = cacheCRs[d].created /\ c < d

Matches(selector, svc) == svc.kind # "absent" /\ svc.label = selector

\* collectVariantBackends leaves out the target and variants without a ready endpoint.
VariantBackends(cr) ==
    [s \in Services |-> IF s # cr.target /\ Matches(cr.selector, cacheServices[s])
                        THEN cacheEndpoints[s] ELSE 0]

EffectiveRoutingKey(cr) == IF cr.key = NoKey THEN cr.target ELSE cr.key

\* The table for a target without a ContextRoute, or with one ("smart" mode): a set of one.
Tables(t) ==
    IF Attached(t) = {}
    THEN {[key |-> t, default |-> cacheEndpoints[t], variants |-> NoTable.variants]}
    ELSE {[key |-> EffectiveRoutingKey(cacheCRs[c]), default |-> cacheEndpoints[t],
           variants |-> VariantBackends(cacheCRs[c])] : c \in {d \in CRs : Wins(d, t)}}

\* setETCondition. The time it stamps is chosen with the write, in UpdateStatus.
WithReady(status, reason) == [status EXCEPT !.reason = reason, !.observed = snap.generation]

-----------------------------------------------------------------------------
(* The watches. An update event is mapped for the old and the new object. *)

OnTarget(t) == {e \in ETs : Exists(cacheETs[e]) /\ cacheETs[e].target = t}

MapServiceToETs(s, svc) ==
    {e \in ETs :
        /\ svc.kind # "absent" /\ Exists(cacheETs[e])
        /\ \/ cacheETs[e].target = s
           \/ \E c \in CRs : /\ Wins(c, cacheETs[e].target)
                             /\ Matches(cacheCRs[c].selector, svc)}

\* Mutant: only the EdgeTransformations on the EndpointSlice's own Service are woken.
MapEndpointSliceTargetOnly(s) == OnTarget(s)

\* Every EdgeTransformation of the namespace.
MapEndpointSliceToETs(s) == {e \in ETs : Exists(cacheETs[e])}

MapCRToET(cr) == OnTarget(cr.target)

\* By the owner label.
MapHTTPRouteToET(hr) == {hr.owner} \ {NoET}

Wake(changed, woken) == wakeups' = IF changed THEN wakeups \cup woken ELSE wakeups

\* Mutant: the variants come out in another order each time, so that each apply is a change.
SetConfigMapUnsorted(e, cm) ==
    /\ configMaps' = [configMaps EXCEPT ![e] = cm]
    /\ Wake(TRUE, {e})
    /\ UNCHANGED <<translators, deployments, httproutes>>

\* Writes of generated objects; one that changes nothing is no event. The controller
\* Owns the first three, so their events wake the owner.
SetConfigMap(e, cm) ==
    /\ configMaps' = [configMaps EXCEPT ![e] = cm]
    /\ Wake(cm # configMaps[e], {e})
    /\ UNCHANGED <<translators, deployments, httproutes>>

SetTranslator(e, uid) ==
    /\ translators' = [translators EXCEPT ![e] = uid]
    /\ Wake(uid # translators[e], {e})
    /\ UNCHANGED <<configMaps, deployments, httproutes>>

SetDeployment(e, d) ==
    /\ deployments' = [deployments EXCEPT ![e] = d]
    /\ Wake(d # deployments[e], {e})
    /\ UNCHANGED <<configMaps, translators, httproutes>>

SetHTTPRoute(t, hr) ==
    /\ httproutes' = [httproutes EXCEPT ![t] = hr]
    /\ Wake(hr # httproutes[t], MapHTTPRouteToET(httproutes[t]) \cup MapHTTPRouteToET(hr))
    /\ UNCHANGED <<configMaps, translators, deployments>>

-----------------------------------------------------------------------------
(* Users, Pods and Kubernetes' own controllers. *)

Move == moves < MaxMoves /\ moves' = moves + 1

CreateET(e, spec) ==
    /\ Move
    /\ ~Exists(ets[e])
    /\ uids' = [uids EXCEPT ![e] = @ + 1]
    /\ ets' = [ets EXCEPT ![e] = NewEdgeTransformation(spec, uids'[e])]
    /\ UNCHANGED <<inputs, generated, caches, queue, worker, clock>>

EditET(e, spec) ==
    /\ Move
    /\ Exists(ets[e])
    /\ spec # [router |-> ets[e].router, target |-> ets[e].target]
    /\ ets' = [ets EXCEPT ![e].generation = @ + 1,
                          ![e].router = spec.router, ![e].target = spec.target]
    /\ UNCHANGED <<inputs, generated, caches, queue, worker, uids, clock>>

\* There is no finalizer: the object is gone at once.
DeleteET(e) ==
    /\ Move
    /\ Exists(ets[e])
    /\ ets' = [ets EXCEPT ![e] = NoEdgeTransformation]
    /\ UNCHANGED <<inputs, generated, caches, queue, worker, uids, clock>>

\* Two ContextRoutes made within one second have the same creationTimestamp.
SetContextRoute(c, spec, sameSecond) ==
    /\ Move
    /\ crs[c] # Attach(spec, crs[c].created)
    /\ clock' = IF sameSecond \/ crs[c] # NoContextRoute THEN clock ELSE clock + 1
    /\ crs' = [crs EXCEPT ![c] = Attach(spec, IF @ = NoContextRoute THEN clock' ELSE @.created)]
    /\ UNCHANGED <<ets, services, endpoints, generated, caches, queue, worker, uids>>

DeleteContextRoute(c) ==
    /\ Move
    /\ crs[c] # NoContextRoute
    /\ crs' = [crs EXCEPT ![c] = NoContextRoute]
    /\ UNCHANGED <<ets, services, endpoints, generated, caches, queue, worker, uids, clock>>

SetService(s, svc) ==
    /\ Move
    /\ services[s] # svc
    /\ services' = [services EXCEPT ![s] = svc]
    /\ UNCHANGED <<ets, crs, endpoints, generated, caches, queue, worker, uids, clock>>

\* Pods become ready, fail, or are replaced under another address.
SetEndpoint(s, a) ==
    /\ Move
    /\ endpoints[s] # a
    /\ endpoints' = [endpoints EXCEPT ![s] = a]
    /\ UNCHANGED <<ets, crs, services, generated, caches, queue, worker, uids, clock>>

\* Somebody deletes a generated object by hand.
DropGenerated(e) ==
    /\ Move
    /\ \/ "configmap" \in Deletable /\ configMaps[e] # NoConfigMap /\ SetConfigMap(e, NoConfigMap)
       \/ "service" \in Deletable /\ translators[e] # 0 /\ SetTranslator(e, 0)
       \/ "deployment" \in Deletable /\ deployments[e] # NoDeployment
          /\ SetDeployment(e, NoDeployment)
       \/ "httproute" \in Deletable /\ \E t \in Services :
             httproutes[t].owner = e /\ SetHTTPRoute(t, NoHTTPRoute)
    /\ UNCHANGED <<ets, inputs, caches, queue, worker, uids, clock>>

\* The garbage collector: the owner's UID is gone.
Orphan(e, uid) == uid # 0 /\ uid # ets[e].uid

Collect(e) ==
    /\ \/ Orphan(e, configMaps[e].uid) /\ SetConfigMap(e, NoConfigMap)
       \/ Orphan(e, translators[e]) /\ SetTranslator(e, 0)
       \/ Orphan(e, deployments[e].uid) /\ SetDeployment(e, NoDeployment)
       \/ \E t \in Services : /\ httproutes[t].owner = e
                              /\ Orphan(e, httproutes[t].uid)
                              /\ SetHTTPRoute(t, NoHTTPRoute)
    /\ UNCHANGED <<ets, inputs, caches, queue, worker, bounds>>

\* The Deployment's Pod comes up, which needs the ConfigMap, or goes down.
RollOut(e) ==
    /\ Exists(deployments[e]) /\ ~deployments[e].available /\ Exists(configMaps[e])
    /\ deployments' = [deployments EXCEPT ![e].available = TRUE]
    /\ UNCHANGED <<ets, inputs, configMaps, translators, httproutes, wakeups, caches,
                   queue, worker, bounds>>

Disrupt(e) ==
    /\ Move
    /\ deployments[e].available
    /\ deployments' = [deployments EXCEPT ![e].available = FALSE]
    /\ UNCHANGED <<ets, inputs, configMaps, translators, httproutes, wakeups, caches,
                   queue, worker, uids, clock>>

-----------------------------------------------------------------------------
(* Informers. *)

DeliverET(e) ==
    /\ cacheETs[e] # ets[e]
    /\ cacheETs' = [cacheETs EXCEPT ![e] = ets[e]]
    /\ queue' = queue \cup {e}
    /\ UNCHANGED <<ets, inputs, generated, cacheCRs, cacheServices, cacheEndpoints,
                   cacheAvailable, worker, bounds>>

DeliverContextRoute(c) ==
    /\ cacheCRs[c] # crs[c]
    /\ cacheCRs' = [cacheCRs EXCEPT ![c] = crs[c]]
    /\ queue' = queue \cup MapCRToET(cacheCRs[c]) \cup MapCRToET(crs[c])
    /\ UNCHANGED <<ets, inputs, generated, cacheETs, cacheServices, cacheEndpoints,
                   cacheAvailable, worker, bounds>>

DeliverService(s) ==
    /\ cacheServices[s] # services[s]
    /\ cacheServices' = [cacheServices EXCEPT ![s] = services[s]]
    /\ queue' = queue \cup MapServiceToETs(s, cacheServices[s]) \cup MapServiceToETs(s, services[s])
    /\ UNCHANGED <<ets, inputs, generated, cacheETs, cacheCRs, cacheEndpoints,
                   cacheAvailable, worker, bounds>>

DeliverEndpoint(s) ==
    /\ cacheEndpoints[s] # endpoints[s]
    /\ cacheEndpoints' = [cacheEndpoints EXCEPT ![s] = endpoints[s]]
    /\ queue' = queue \cup MapEndpointSliceToETs(s)
    /\ UNCHANGED <<ets, inputs, generated, cacheETs, cacheCRs, cacheServices,
                   cacheAvailable, worker, bounds>>

\* Mutant: the controller does not own Deployments, so their events wake nobody.
DeliverAvailableSilently(e) ==
    /\ cacheAvailable[e] # deployments[e].available
    /\ cacheAvailable' = [cacheAvailable EXCEPT ![e] = deployments[e].available]
    /\ UNCHANGED <<ets, inputs, generated, cacheETs, cacheCRs, cacheServices, cacheEndpoints,
                   queue, worker, bounds>>

DeliverAvailable(e) ==
    /\ cacheAvailable[e] # deployments[e].available
    /\ cacheAvailable' = [cacheAvailable EXCEPT ![e] = deployments[e].available]
    /\ queue' = queue \cup {e}
    /\ UNCHANGED <<ets, inputs, generated, cacheETs, cacheCRs, cacheServices, cacheEndpoints,
                   worker, bounds>>

\* Events of generated objects, which nothing but the watch reads.
DeliverGenerated(e) ==
    /\ e \in wakeups
    /\ wakeups' = wakeups \ {e}
    /\ queue' = queue \cup {e}
    /\ UNCHANGED <<ets, inputs, configMaps, translators, deployments, httproutes, caches,
                   worker, bounds>>

\* A ContextRoute's status is written, perhaps with a new time only: its event wakes the
\* EdgeTransformations as well, as often as that controller likes.
DeliverContextRouteStatus(c) ==
    /\ cacheCRs[c] # NoContextRoute
    /\ queue' = queue \cup MapCRToET(cacheCRs[c])
    /\ UNCHANGED <<ets, inputs, generated, caches, worker, bounds>>

-----------------------------------------------------------------------------
(* The worker. *)

Rest == /\ pc' = "idle" /\ job' = NoET
        /\ snap' = NoEdgeTransformation /\ draft' = NoStatus /\ table' = NoTable

Done == Rest /\ UNCHANGED queue

\* Mutant: an error is logged and not returned to the work queue.
RetryNot == Rest /\ UNCHANGED queue

\* Mutant: the request is put back after it has been cleared.
RetryCleared == Rest /\ queue' = queue \cup {job'}

Retry == Rest /\ queue' = queue \cup {job}

Goto(label) == pc' = label /\ UNCHANGED <<job, queue, snap>>

TakeRequest(e) ==
    /\ pc = "idle" /\ e \in queue
    /\ queue' = queue \ {e}
    /\ IF Exists(cacheETs[e])
       THEN /\ pc' = "plan" /\ job' = e
            /\ snap' = cacheETs[e] /\ draft' = cacheETs[e].status
            /\ UNCHANGED table
       ELSE Rest
    /\ UNCHANGED <<ets, inputs, generated, caches, bounds>>

Target == cacheServices[snap.target]
Ready  == cacheEndpoints[snap.target] # 0

\* The ContextRoute on the target has a selector that LabelSelectorAsSelector rejects.
BadVariants == \E c \in CRs : Wins(c, snap.target) /\ cacheCRs[c].selector = BadSelector

\* The ways out before anything is applied: each reports its reason. Only the mode is
\* looked at before status.targetService is set.
Reject(reason) ==
    /\ draft' = WithReady(IF reason = "ModeNotImplemented" THEN draft
                          ELSE [draft EXCEPT !.target = snap.target], reason)
    /\ Goto("status")
    /\ UNCHANGED <<ets, inputs, generated, caches, table, bounds>>

RejectMode == pc = "plan" /\ ~snap.router /\ Reject("ModeNotImplemented")

RejectTarget ==
    /\ pc = "plan" /\ snap.router
    /\ Target.kind # "clusterip"
    /\ Reject(IF Target.kind = "absent" THEN "TargetNotFound" ELSE "UnsupportedTargetType")

RejectEndpoints ==
    /\ pc = "plan" /\ snap.router
    /\ Target.kind = "clusterip" /\ ~Ready
    /\ Reject("NoReadyEndpoints")

\* collectVariantBackends returns the error, and the status is not written.
RejectVariants ==
    /\ pc = "plan" /\ snap.router
    /\ Target.kind = "clusterip" /\ Ready
    /\ BadVariants
    /\ Retry
    /\ UNCHANGED <<ets, inputs, generated, caches, bounds>>

RenderTable ==
    /\ pc = "plan" /\ snap.router
    /\ Target.kind = "clusterip" /\ Ready
    /\ ~BadVariants
    /\ table' \in Tables(snap.target)
    /\ draft' = [draft EXCEPT !.target = snap.target]
    /\ Goto("configmap")
    /\ UNCHANGED <<ets, inputs, generated, caches, bounds>>

\* Server-side applies that force ownership: none of them asks whether the
\* EdgeTransformation is still there.
ApplyConfigMap ==
    /\ pc = "configmap"
    /\ SetConfigMap(job, [uid |-> snap.uid, table |-> table])
    /\ Goto("service")
    /\ UNCHANGED <<ets, inputs, caches, draft, table, bounds>>

ApplyService ==
    /\ pc = "service"
    /\ SetTranslator(job, snap.uid)
    /\ Goto("deployment")
    /\ UNCHANGED <<ets, inputs, caches, draft, table, bounds>>

\* Mutant: a Deployment that is there keeps its owner reference.
ApplyDeploymentKeepOwner ==
    /\ pc = "deployment"
    /\ SetDeployment(job, [deployments[job] EXCEPT !.uid = IF @ = 0 THEN snap.uid ELSE @,
                                                  !.table = table])
    /\ Goto("httproute")
    /\ UNCHANGED <<ets, inputs, caches, draft, table, bounds>>

\* A new checksum rolls the Pods one by one: the Deployment stays available.
ApplyDeployment ==
    /\ pc = "deployment"
    /\ SetDeployment(job, [deployments[job] EXCEPT !.uid = snap.uid, !.table = table])
    /\ Goto("httproute")
    /\ UNCHANGED <<ets, inputs, caches, draft, table, bounds>>

ApplyHTTPRoute ==
    /\ pc = "httproute"
    /\ SetHTTPRoute(snap.target, [owner |-> job, uid |-> snap.uid])
    /\ Goto("ready")
    /\ UNCHANGED <<ets, inputs, caches, draft, table, bounds>>

\* The Deployment is read back from the cache.
ReadDeployment ==
    /\ pc = "ready"
    /\ draft' = WithReady([draft EXCEPT !.ready = cacheAvailable[job]],
                          IF cacheAvailable[job] THEN "Reconciled" ELSE "TranslatorNotReady")
    /\ Goto("status")
    /\ UNCHANGED <<ets, inputs, generated, caches, table, bounds>>

\* The API server takes the status only for the version that was read. A write that has
\* something new to say is a change in any case; one that has not is a change unless it
\* comes within the second of the write before, and then wakes its own author again.
UpdateStatus ==
    /\ pc = "status" /\ ets[job] = snap
    /\ \E stamp \in IF draft = snap.status THEN BOOLEAN ELSE {draft.stamp} :
          ets' = [ets EXCEPT ![job].status = [draft EXCEPT !.stamp = stamp]]
    /\ Done
    /\ UNCHANGED <<inputs, generated, caches, bounds>>

UpdateRefused ==
    /\ pc = "status" /\ ets[job] # snap
    /\ Retry
    /\ UNCHANGED <<ets, inputs, generated, caches, bounds>>

\* Any other error of a write: what was applied before it stays.
WriteFails ==
    /\ pc \in {"configmap", "service", "deployment", "httproute", "status"}
    /\ Move
    /\ Retry
    /\ UNCHANGED <<ets, inputs, generated, caches, uids, clock>>

\* The operator restarts. Every object a watch lists adds its requests.
Restart ==
    /\ Move
    /\ cacheETs' = ets /\ cacheCRs' = crs
    /\ cacheServices' = services /\ cacheEndpoints' = endpoints
    /\ cacheAvailable' = [e \in ETs |-> deployments[e].available]
    /\ wakeups' = {}
    /\ Rest
    /\ queue' = {e \in ETs : \/ Exists(ets[e]) \/ Exists(configMaps[e])
                             \/ translators[e] # 0 \/ Exists(deployments[e])}
                \cup UNION {MapHTTPRouteToET(httproutes[t]) : t \in Services}
    /\ UNCHANGED <<ets, inputs, configMaps, translators, deployments, httproutes, uids, clock>>

-----------------------------------------------------------------------------
User ==
    \/ \E e \in ETs, spec \in ETSpecs : CreateET(e, spec) \/ EditET(e, spec)
    \/ \E c \in CRs, spec \in CRSpecs, sameSecond \in BOOLEAN :
          SetContextRoute(c, spec, sameSecond)
    \/ \E c \in CRs : DeleteContextRoute(c)
    \/ \E s \in Services : \/ \E svc \in ServiceObjects : SetService(s, svc)
                           \/ \E a \in Addresses \cup {0} : SetEndpoint(s, a)
    \/ \E e \in ETs : DeleteET(e) \/ DropGenerated(e) \/ Disrupt(e)

Deliver ==
    \/ \E e \in ETs : DeliverET(e) \/ DeliverAvailable(e) \/ DeliverGenerated(e)
    \/ \E c \in CRs : DeliverContextRoute(c) \/ DeliverContextRouteStatus(c)
    \/ \E s \in Services : DeliverService(s) \/ DeliverEndpoint(s)

Step ==
    \/ RejectMode \/ RejectTarget \/ RejectEndpoints \/ RejectVariants \/ RenderTable
    \/ ApplyConfigMap \/ ApplyService \/ ApplyDeployment \/ ApplyHTTPRoute
    \/ ReadDeployment \/ UpdateStatus \/ UpdateRefused

Next ==
    \/ User
    \/ Deliver
    \/ \E e \in ETs : TakeRequest(e) \/ Collect(e) \/ RollOut(e)
    \/ Step
    \/ WriteFails
    \/ Restart

\* The operator starts over what users made before, within one second or within two.
Init ==
    /\ ets \in [ETs -> {NoEdgeTransformation} \cup
                       {NewEdgeTransformation(spec, 1) : spec \in ETSpecs}]
    /\ crs \in [CRs -> {NoContextRoute} \cup
                       {Attach(spec, t) : spec \in CRSpecs, t \in {0, 1}}]
    /\ services \in [Services -> ServiceObjects]
    /\ endpoints \in [Services -> Addresses \cup {0}]
    /\ configMaps = [e \in ETs |-> NoConfigMap]
    /\ translators = [e \in ETs |-> 0]
    /\ deployments = [e \in ETs |-> NoDeployment]
    /\ httproutes = [t \in Services |-> NoHTTPRoute]
    /\ wakeups = {}
    /\ cacheETs = ets /\ cacheCRs = crs
    /\ cacheServices = services /\ cacheEndpoints = endpoints
    /\ cacheAvailable = [e \in ETs |-> FALSE]
    /\ queue = {e \in ETs : Exists(ets[e])}
    /\ pc = "idle" /\ job = NoET
    /\ snap = NoEdgeTransformation /\ draft = NoStatus /\ table = NoTable
    /\ uids = [e \in ETs |-> ets[e].uid] /\ clock = 1
    /\ moves = 0

Spec == Init /\ [][Next]_vars

\* As for ContextRoutes: watches deliver, the worker runs, the work queue is a FIFO.
\* Deployments come up, and orphans are collected.
Fairness ==
    /\ \A e \in ETs : /\ WF_vars(DeliverET(e)) /\ WF_vars(DeliverAvailable(e))
                      /\ WF_vars(DeliverGenerated(e)) /\ SF_vars(TakeRequest(e))
                      /\ WF_vars(Collect(e)) /\ WF_vars(RollOut(e))
    /\ \A c \in CRs : WF_vars(DeliverContextRoute(c))
    /\ \A s \in Services : WF_vars(DeliverService(s)) /\ WF_vars(DeliverEndpoint(s))
    /\ WF_vars(Step)

-----------------------------------------------------------------------------
(* Properties. *)

\* Every variable keeps its type.
TypeOK ==
    /\ ets \in [ETs -> EdgeTransformation] /\ cacheETs \in [ETs -> EdgeTransformation]
    /\ crs \in [CRs -> ContextRoute] /\ cacheCRs \in [CRs -> ContextRoute]
    /\ services \in [Services -> ServiceObject] /\ cacheServices \in [Services -> ServiceObject]
    /\ endpoints \in [Services -> Addresses \cup {0}]
    /\ cacheEndpoints \in [Services -> Addresses \cup {0}]
    /\ configMaps \in [ETs -> ConfigMap] /\ translators \in [ETs -> Nat]
    /\ deployments \in [ETs -> Deployment] /\ cacheAvailable \in [ETs -> BOOLEAN]
    /\ httproutes \in [Services -> HTTPRoute]
    /\ wakeups \subseteq ETs /\ queue \subseteq ETs
    /\ pc \in PCs /\ job \in ETs \cup {NoET} /\ (pc # "idle" => job \in ETs /\ Exists(snap))
    /\ snap \in EdgeTransformation /\ draft \in Status /\ table \in Table
    /\ uids \in [ETs -> Nat] /\ clock \in Nat /\ moves \in 0..MaxMoves

Quiescent ==
    /\ pc = "idle" /\ queue = {} /\ wakeups = {}
    /\ cacheETs = ets /\ cacheCRs = crs
    /\ cacheServices = services /\ cacheEndpoints = endpoints
    /\ \A e \in ETs : cacheAvailable[e] = deployments[e].available

\* A translator can be built for e.
Servable(e) ==
    /\ ets[e].router
    /\ services[ets[e].target].kind = "clusterip"
    /\ endpoints[ets[e].target] # 0

Oldest(c, t) ==
    /\ crs[c].target = t
    /\ ~\E d \in CRs : /\ crs[d].target = t
                       /\ \/ crs[d].created < crs[c].created
                          \/ crs[d].created = crs[c].created /\ d < c

\* The table a target should have, from the store.
IsWanted(tb, t) ==
    /\ tb.default = endpoints[t]
    /\ (\A c \in CRs : crs[c].target # t) =>
          tb.key = t /\ \A s \in Services : tb.variants[s] = 0
    /\ \A c \in CRs : Oldest(c, t) =>
          /\ tb.key = EffectiveRoutingKey(crs[c])
          /\ \A s \in Services : tb.variants[s] =
                IF s # t /\ services[s].kind # "absent" /\ services[s].label = crs[c].selector
                THEN endpoints[s] ELSE 0

TranslatorServes(e) ==
    /\ configMaps[e].uid = ets[e].uid /\ deployments[e].uid = ets[e].uid
    /\ translators[e] = ets[e].uid
    /\ configMaps[e].table = deployments[e].table
    /\ IsWanted(configMaps[e].table, ets[e].target)
    /\ httproutes[ets[e].target] = [owner |-> e, uid |-> ets[e].uid]

\* Each EdgeTransformation that can have a translator has one.
Served == \A e \in ETs : Exists(ets[e]) /\ Servable(e) => TranslatorServes(e)

\* Once all is quiet, each EdgeTransformation that can have a translator has one: its
\* objects belong to the living EdgeTransformation, the Pods were rolled for the table
\* in the ConfigMap, that table is the one the oldest ContextRoute, the Services and the
\* endpoints ask for now, and the target's route leads to it.
TableIsCurrent ==
    Quiescent => Served

\* Each Ready condition gives the present reason for the present spec.
Reported ==
    \A e \in ETs : Exists(ets[e]) =>
        /\ ets[e].status.observed = ets[e].generation
        /\ ets[e].status.reason =
              IF ~ets[e].router THEN "ModeNotImplemented"
              ELSE IF services[ets[e].target].kind = "absent" THEN "TargetNotFound"
              ELSE IF services[ets[e].target].kind = "other" THEN "UnsupportedTargetType"
              ELSE IF endpoints[ets[e].target] = 0 THEN "NoReadyEndpoints"
              ELSE IF deployments[e].available THEN "Reconciled" ELSE "TranslatorNotReady"

\* Once all is quiet, the Ready condition gives the present reason for the present spec.
ReasonIsCurrent == Quiescent => Reported

Living(e, uid) == uid # 0 /\ uid = ets[e].uid

\* At every moment, a target's route to the translator of a living EdgeTransformation
\* leads somewhere: the Service and the Deployment are there and belong to that same
\* EdgeTransformation. Users who delete those two are outside this property.
RouteHasTranslator ==
    \A t \in Services, e \in ETs :
        httproutes[t].owner = e /\ Living(e, httproutes[t].uid) =>
            translators[e] = ets[e].uid /\ deployments[e].uid = ets[e].uid

\* The inductive invariant behind RouteHasTranslator, in parts.

\* UIDs in use have been handed out, so a new object's UID is nowhere yet.
UidsHandedOut ==
    /\ \A e \in ETs : /\ ets[e].uid <= uids[e] /\ cacheETs[e].uid <= uids[e]
                      /\ \A t \in Services : httproutes[t].owner = e => httproutes[t].uid <= uids[e]
    /\ pc # "idle" => snap.uid <= uids[job]

\* What the worker reconciles, the cache has shown: if it lives, the cache still shows it.
WorkerSeen == pc # "idle" /\ Living(job, snap.uid) => cacheETs[job].uid = snap.uid

\* A route of a living EdgeTransformation was applied by a worker that had seen that
\* very object; the worker cannot go back to an earlier one of the same name.
RouteSeen ==
    \A t \in Services, e \in ETs :
        httproutes[t].owner = e /\ Living(e, httproutes[t].uid) =>
            /\ cacheETs[e].uid = ets[e].uid
            /\ pc # "idle" /\ job = e => snap.uid = ets[e].uid

\* The translator is there before the worker gets to the route.
WorkloadApplied ==
    pc # "idle" /\ Living(job, snap.uid) =>
        /\ pc \in {"deployment", "httproute"} => translators[job] = snap.uid
        /\ pc = "httproute" => deployments[job].uid = snap.uid

RouteInv == /\ UidsHandedOut
            /\ WorkerSeen
            /\ RouteSeen
            /\ WorkloadApplied
            /\ RouteHasTranslator

\* An EdgeTransformation has one HTTPRoute, on its target.
SingleRoute ==
    Quiescent => \A t \in Services :
        LET e == httproutes[t].owner IN
        e # NoET /\ Living(e, httproutes[t].uid) => ets[e].target = t

\* Two EdgeTransformations that share a target overwrite its route in turn, and a
\* ContextRoute with a rejected selector is retried forever.
Settleable ==
    /\ \A e, f \in ETs : /\ Exists(ets[e]) /\ Exists(ets[f]) /\ e # f
                         /\ ets[e].router /\ ets[f].router
                         => ets[e].target # ets[f].target
    /\ \A e \in ETs, c \in CRs :
          Exists(ets[e]) /\ crs[c].target = ets[e].target => crs[c].selector # BadSelector

\* Apart from these, what the reconciles write comes to rest, although each status write
\* may wake its own author once more, for ever: the translators, the routes and the
\* reasons become what they should be and stay so, and no generated object changes again.
Settles == []<>~Settleable \/ <>[](Served /\ Reported /\ wakeups = {})

\* With Pods that come up, each translator that can be built is reported ready in the end.
ServableComesReady ==
    \/ []<>~Settleable
    \/ <>[](\A e \in ETs : Exists(ets[e]) /\ Servable(e) => ets[e].status.reason = "Reconciled")
=============================================================================
