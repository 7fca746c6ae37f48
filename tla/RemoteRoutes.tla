---------------------------- MODULE RemoteRoutes ----------------------------
(***************************************************************************)
(* The RemoteRoute controller (internal/controller/remoteroute_*.go) with  *)
(* its surroundings, in one namespace.                                     *)
(*                                                                         *)
(* A RemoteRoute hangs on a ContextRoute and leads out of the cluster      *)
(* through an Envoy proxy. Its controller makes the ContextRoute its       *)
(* owner, applies a ConfigMap, two Services and a Deployment, and then     *)
(* asks the running proxy every 15 seconds which upstreams are healthy.    *)
(***************************************************************************)
EXTENDS Naturals, Sequences, FiniteSets

CONSTANTS
    RRs,          \* names of RemoteRoutes
    CRs,          \* names of ContextRoutes
    Hosts,        \* where upstream URLs lead
    Names,        \* names of upstream entries
    LabelKeys, LabelValues,
    NameKey,      \* app.kubernetes.io/name, a label the controller sets itself
    NoRR, NoCR, NoName,
    UpstreamLists, Selectors,  \* what users write
    MaxMoves      \* bound: user steps, hosts that come and go, faults together

ASSUME NullAssumption ==
    /\ NoRR \notin RRs /\ NoCR \notin CRs /\ NoName \notin Names
    /\ NameKey \in LabelKeys /\ RRs \subseteq LabelValues

VARIABLES
    \* The API server
    rrs, crs,
    configMaps, services, adminServices, deployments, \* owned by RemoteRoutes, by name
    pods,         \* the available Pod of each Deployment
    passing,      \* hosts that pass Envoy's health check
    \* The manager's informer caches
    cacheRRs, cacheCRs, cacheAvailable,
    \* The controller
    queue, timers, pc, job,
    snap,         \* the RemoteRoute as Reconcile read it
    parent,       \* the ContextRoute it read
    draft,        \* the status it fills in memory
    \* Bookkeeping of the environment
    uids, moves

owned  == <<configMaps, services, adminServices, deployments, pods>>
caches == <<cacheRRs, cacheCRs, cacheAvailable>>
worker == <<pc, job, snap, parent, draft>>
bounds == <<uids, moves>>
vars   == <<rrs, crs, owned, passing, caches, queue, timers, worker, bounds>>

-----------------------------------------------------------------------------
(* Objects. *)

\* The scheme of a URL; "bad" stands for a URL that resolveUpstreams rejects by itself.
URL      == [host : Hosts, scheme : {"http", "https", "bad"}]
Mode     == {"none", "RoundRobin", "Random"}
Upstream == [name : Names, urls : Seq(URL), mode : Mode]

Label    == LabelKeys \X LabelValues
Selector == [match : SUBSET Label, expressions : BOOLEAN]

ASSUME BoundsAssumption ==
    /\ UpstreamLists \subseteq Seq(Upstream) /\ Selectors \subseteq Selector
    /\ MaxMoves \in Nat

ContextRoute   == [uid : Nat, selector : Selector]
NoContextRoute == [uid |-> 0, selector |-> [match |-> {}, expressions |-> FALSE]]

Reasons == {"none", "ContextRouteNotFound", "UnsupportedSelector", "InvalidUpstream",
            "MixedScheme", "IncompatibleLBModes", "ProxyNotReady", "Reconciled"}

\* healthy names the upstreams that status.upstreams marks healthy. stamp stands for the
\* times in the status (lastTransitionTime, lastProbeTime), of which only matters whether
\* they are those of the write before: it flips when they are not.
Status == [reason : Reasons, proxyReady : BOOLEAN, healthy : SUBSET Names,
           active : Names \cup {NoName}, reachable : {"none", "true", "false"},
           stamp : BOOLEAN]
NoStatus == [reason |-> "none", proxyReady |-> FALSE, healthy |-> {}, active |-> NoName,
             reachable |-> "none", stamp |-> FALSE]

\* owners are the ContextRoutes in metadata.ownerReferences, each with its UID.
RemoteRoute == [uid : Nat, ref : CRs \cup {NoCR}, upstreams : Seq(Upstream),
                owners : SUBSET (CRs \X Nat), status : Status]
NoRemoteRoute == [uid |-> 0, ref |-> NoCR, upstreams |-> <<>>, owners |-> {},
                  status |-> NoStatus]

Exists(obj) == obj.uid # 0

\* The envoy.yaml, as far as users can tell two of them apart.
Conf   == [groups : Seq(SUBSET Hosts), https : BOOLEAN, lb : {"ROUND_ROBIN", "RANDOM"}]
NoConf == [groups |-> <<>>, https |-> FALSE, lb |-> "ROUND_ROBIN"]

ConfigMap    == [owner : Nat, conf : Conf]
Service      == [owner : Nat, labels : SUBSET Label]
Deployment   == [owner : Nat, checksum : Conf]
Pod          == [up : BOOLEAN, checksum : Conf, conf : Conf]
NoConfigMap  == [owner |-> 0, conf |-> NoConf]
NoService    == [owner |-> 0, labels |-> {}]
NoDeployment == [owner |-> 0, checksum |-> NoConf]
NoPod        == [up |-> FALSE, checksum |-> NoConf, conf |-> NoConf]

-----------------------------------------------------------------------------
(* Rendering. *)

\* All URLs of a RemoteRoute, in the order resolveUpstreams looks at them.
Flat(ups) == LET flat[n \in 0..Len(ups)] ==
                     IF n = 0 THEN <<>> ELSE flat[n - 1] \o ups[n].urls
             IN  flat[Len(ups)]

\* A URL is rejected for itself or because its scheme is not that of the first one.
Rejected(urls, i) == urls[i].scheme = "bad" \/ urls[i].scheme # urls[1].scheme

Modes(ups) == {ups[i].mode : i \in DOMAIN ups} \ {"none"}

\* The first rejected URL decides; the modes are looked at last.
UpstreamError(ups) ==
    LET urls == Flat(ups)
        bad  == {i \in DOMAIN urls : Rejected(urls, i)}
    IN  IF bad # {}
        THEN LET i == CHOOSE i \in bad : \A j \in bad : i <= j
             IN  IF urls[i].scheme = "bad" THEN "InvalidUpstream" ELSE "MixedScheme"
        ELSE IF urls = <<>> THEN "InvalidUpstream"
        ELSE IF Cardinality(Modes(ups)) > 1 THEN "IncompatibleLBModes"
        ELSE "none"

RenderEnvoyConfig(ups) ==
    [groups |-> [i \in DOMAIN ups |-> {ups[i].urls[j].host : j \in DOMAIN ups[i].urls}],
     https  |-> Flat(ups)[1].scheme = "https",
     lb     |-> IF "Random" \in Modes(ups) THEN "RANDOM" ELSE "ROUND_ROBIN"]

\* The variant labels, over which the controller puts its own name label.
RRServiceLabels(r, match) == {l \in match : l[1] # NameKey} \cup {<<NameKey, r>>}

\* Which upstreams the dump of the running proxy shows healthy: by priority, that is by
\* position in the configuration the proxy runs, under the names of the present spec.
HealthyIn(ups, conf) ==
    {ups[i].name : i \in {i \in DOMAIN ups \cap DOMAIN conf.groups :
                              conf.groups[i] \cap passing # {}}}

\* The first healthy entry.
FirstOf(ups, healthy) ==
    LET found == {i \in DOMAIN ups : ups[i].name \in healthy}
    IN  IF found = {} THEN NoName
        ELSE ups[CHOOSE i \in found : \A j \in found : i <= j].name

-----------------------------------------------------------------------------
(* Writes to owned objects. Their events wake the RemoteRoute that owns them; an event is
   as late as the worker that takes the request. *)

Wake(changed, r) == queue' = IF changed THEN queue \cup {r} ELSE queue

SetConfigMap(r, cm) ==
    /\ configMaps' = [configMaps EXCEPT ![r] = cm]
    /\ Wake(cm # configMaps[r], r)
    /\ UNCHANGED <<services, adminServices, deployments, pods>>

SetService(r, svc) ==
    /\ services' = [services EXCEPT ![r] = svc]
    /\ Wake(svc # services[r], r)
    /\ UNCHANGED <<configMaps, adminServices, deployments, pods>>

SetAdminService(r, uid) ==
    /\ adminServices' = [adminServices EXCEPT ![r] = uid]
    /\ Wake(uid # adminServices[r], r)
    /\ UNCHANGED <<configMaps, services, deployments, pods>>

\* The Pods go with the Deployment.
SetDeployment(r, d) ==
    /\ deployments' = [deployments EXCEPT ![r] = d]
    /\ pods' = IF d = NoDeployment THEN [pods EXCEPT ![r] = NoPod] ELSE pods
    /\ Wake(d # deployments[r], r)
    /\ UNCHANGED <<configMaps, services, adminServices>>

-----------------------------------------------------------------------------
(* Users, upstream hosts and Kubernetes' own controllers. *)

Move == moves < MaxMoves /\ moves' = moves + 1

CreateRR(r, c, ups) ==
    /\ Move
    /\ ~Exists(rrs[r])
    /\ uids' = [uids EXCEPT ![r] = @ + 1]
    /\ rrs' = [rrs EXCEPT ![r] = [NoRemoteRoute EXCEPT !.uid = uids'[r], !.ref = c,
                                                       !.upstreams = ups]]
    /\ UNCHANGED <<crs, owned, passing, caches, queue, timers, worker>>

EditRR(r, c, ups) ==
    /\ Move
    /\ Exists(rrs[r]) /\ <<rrs[r].ref, rrs[r].upstreams>> # <<c, ups>>
    /\ rrs' = [rrs EXCEPT ![r].ref = c, ![r].upstreams = ups]
    /\ UNCHANGED <<crs, owned, passing, caches, queue, timers, worker, uids>>

DeleteRR(r) ==
    /\ Move
    /\ Exists(rrs[r])
    /\ rrs' = [rrs EXCEPT ![r] = NoRemoteRoute]
    /\ UNCHANGED <<crs, owned, passing, caches, queue, timers, worker, uids>>

CreateCR(c, sel) ==
    /\ Move
    /\ ~Exists(crs[c])
    /\ uids' = [uids EXCEPT ![c] = @ + 1]
    /\ crs' = [crs EXCEPT ![c] = [uid |-> uids'[c], selector |-> sel]]
    /\ UNCHANGED <<rrs, owned, passing, caches, queue, timers, worker>>

EditCR(c, sel) ==
    /\ Move
    /\ Exists(crs[c]) /\ crs[c].selector # sel
    /\ crs' = [crs EXCEPT ![c].selector = sel]
    /\ UNCHANGED <<rrs, owned, passing, caches, queue, timers, worker, uids>>

DeleteCR(c) ==
    /\ Move
    /\ Exists(crs[c])
    /\ crs' = [crs EXCEPT ![c] = NoContextRoute]
    /\ UNCHANGED <<rrs, owned, passing, caches, queue, timers, worker, uids>>

\* A developer's PC comes online or drops.
FlipHost(h) ==
    /\ Move
    /\ passing' = IF h \in passing THEN passing \ {h} ELSE passing \cup {h}
    /\ UNCHANGED <<rrs, crs, owned, caches, queue, timers, worker, uids>>

\* Somebody deletes an owned object by hand.
DropOwned(r) ==
    /\ Move
    /\ \/ configMaps[r] # NoConfigMap /\ SetConfigMap(r, NoConfigMap)
       \/ services[r] # NoService /\ SetService(r, NoService)
       \/ deployments[r] # NoDeployment /\ SetDeployment(r, NoDeployment)
    /\ UNCHANGED <<rrs, crs, passing, caches, timers, worker, uids>>

\* The garbage collector: the owner's UID is gone; of a RemoteRoute's, all are. It takes
\* the three kinds in any order, and the two Services together.
Orphan(r, uid) == uid # 0 /\ uid # rrs[r].uid

CollectServices(r) ==
    /\ Orphan(r, services[r].owner) \/ Orphan(r, adminServices[r])
    /\ services' = IF Orphan(r, services[r].owner) THEN [services EXCEPT ![r] = NoService]
                   ELSE services
    /\ adminServices' = IF Orphan(r, adminServices[r]) THEN [adminServices EXCEPT ![r] = 0]
                        ELSE adminServices
    /\ Wake(TRUE, r)
    /\ UNCHANGED <<configMaps, deployments, pods>>

Collect(r) ==
    /\ \/ Orphan(r, configMaps[r].owner) /\ SetConfigMap(r, NoConfigMap)
       \/ CollectServices(r)
       \/ Orphan(r, deployments[r].owner) /\ SetDeployment(r, NoDeployment)
    /\ UNCHANGED <<rrs, crs, passing, caches, timers, worker, bounds>>

Lives(owner) == crs[owner[1]].uid = owner[2]

CollectRR(r) ==
    /\ rrs[r].owners # {} /\ \A o \in rrs[r].owners : ~Lives(o)
    /\ rrs' = [rrs EXCEPT ![r] = NoRemoteRoute]
    /\ UNCHANGED <<crs, owned, passing, caches, queue, timers, worker, bounds>>

\* A new Pod replaces the one of an older template, or one that failed. It mounts the
\* ConfigMap of that moment and does not look at it again.
RollOut(r) ==
    /\ deployments[r] # NoDeployment /\ configMaps[r] # NoConfigMap
    /\ ~pods[r].up \/ pods[r].checksum # deployments[r].checksum
    /\ pods' = [pods EXCEPT ![r] = [up |-> TRUE, checksum |-> deployments[r].checksum,
                                    conf |-> configMaps[r].conf]]
    /\ UNCHANGED <<rrs, crs, configMaps, services, adminServices, deployments, passing, caches, queue, timers, worker, bounds>>

Disrupt(r) ==
    /\ Move
    /\ pods[r].up
    /\ pods' = [pods EXCEPT ![r] = NoPod]
    /\ UNCHANGED <<rrs, crs, configMaps, services, adminServices, deployments, passing, caches, queue, timers, worker, uids>>

-----------------------------------------------------------------------------
(* Informers and timers. *)

\* Mutant: the watch on ContextRoutes is missing.
MapCRToNone(c) == {}

\* The RemoteRoutes that name a ContextRoute, from the cache.
MapCRToRRs(c) == {r \in RRs : Exists(cacheRRs[r]) /\ cacheRRs[r].ref = c}

DeliverRR(r) ==
    /\ cacheRRs[r] # rrs[r]
    /\ cacheRRs' = [cacheRRs EXCEPT ![r] = rrs[r]]
    /\ queue' = queue \cup {r}
    /\ UNCHANGED <<rrs, crs, owned, passing, cacheCRs, cacheAvailable, timers, worker, bounds>>

DeliverCR(c) ==
    /\ cacheCRs[c] # crs[c]
    /\ cacheCRs' = [cacheCRs EXCEPT ![c] = crs[c]]
    /\ queue' = queue \cup MapCRToRRs(c)
    /\ UNCHANGED <<rrs, crs, owned, passing, cacheRRs, cacheAvailable, timers, worker, bounds>>

\* The status of a ContextRoute is written, perhaps with a new time only: its event wakes
\* the RemoteRoutes as well, as often as that controller likes.
DeliverCRStatus(c) ==
    /\ Exists(cacheCRs[c])
    /\ queue' = queue \cup MapCRToRRs(c)
    /\ UNCHANGED <<rrs, crs, owned, passing, caches, timers, worker, bounds>>

\* Mutant: the controller does not own its Deployments, so their status wakes nobody.
DeliverAvailableUnheard(r) ==
    /\ cacheAvailable[r] # pods[r].up
    /\ cacheAvailable' = [cacheAvailable EXCEPT ![r] = pods[r].up]
    /\ UNCHANGED <<rrs, crs, owned, passing, cacheRRs, cacheCRs, queue, timers, worker, bounds>>

DeliverAvailable(r) ==
    /\ cacheAvailable[r] # pods[r].up
    /\ cacheAvailable' = [cacheAvailable EXCEPT ![r] = pods[r].up]
    /\ queue' = queue \cup {r}
    /\ UNCHANGED <<rrs, crs, owned, passing, cacheRRs, cacheCRs, timers, worker, bounds>>

\* RequeueAfter runs out.
Poll(r) ==
    /\ r \in timers
    /\ timers' = timers \ {r}
    /\ queue' = queue \cup {r}
    /\ UNCHANGED <<rrs, crs, owned, passing, caches, worker, bounds>>

-----------------------------------------------------------------------------
(* The worker. Each action ends with one call on the API server or the proxy. *)

Rest == /\ pc' = "idle" /\ job' = NoRR
        /\ snap' = NoRemoteRoute /\ parent' = NoContextRoute /\ draft' = NoStatus

Retry == Rest /\ queue' = queue \cup {job}

Goto(label) == pc' = label /\ UNCHANGED <<job, snap, parent>>

\* The manager stops at any point and another one starts: it lists everything.
Restart ==
    /\ Move
    /\ Rest
    /\ cacheRRs' = rrs /\ cacheCRs' = crs
    /\ cacheAvailable' = [r \in RRs |-> pods[r].up]
    /\ queue' = {r \in RRs : Exists(rrs[r])} /\ timers' = {}
    /\ UNCHANGED <<rrs, crs, configMaps, services, adminServices, deployments, pods,
                   passing, uids>>

OwnerRef(rr, cr) == <<rr.ref, cr.uid>>

\* What is wrong with the parent's selector or the upstreams, in the order of the checks.
SpecError(rr, cr) ==
    IF cr.selector.expressions \/ cr.selector.match = {} THEN "UnsupportedSelector"
    ELSE UpstreamError(rr.upstreams)

\* Mutant: a RemoteRoute that is not found is reconciled all the same.
TakeAnyRequest(r) ==
    /\ pc = "idle" /\ r \in queue
    /\ queue' = queue \ {r}
    /\ job' = r /\ snap' = cacheRRs[r] /\ parent' = NoContextRoute
    /\ pc' = "reject" /\ draft' = [cacheRRs[r].status EXCEPT !.reason = "ContextRouteNotFound"]
    /\ UNCHANGED <<rrs, crs, owned, passing, caches, timers, bounds>>

\* The start of Reconcile, up to its first write. Parent and RemoteRoute are read from
\* two caches that move on their own.
TakeRequest(r) ==
    /\ pc = "idle" /\ r \in queue
    /\ queue' = queue \ {r}
    /\ LET rr == cacheRRs[r]
           cr == cacheCRs[rr.ref]
           Reject(reason) == pc' = "reject" /\ draft' = [rr.status EXCEPT !.reason = reason]
       IN  IF ~Exists(rr) THEN Rest
           ELSE /\ job' = r /\ snap' = rr /\ parent' = cr
                /\ IF ~Exists(cr) THEN Reject("ContextRouteNotFound")
                   ELSE IF OwnerRef(rr, cr) \notin rr.owners
                   THEN pc' = "own" /\ draft' = rr.status
                   ELSE IF SpecError(rr, cr) # "none" THEN Reject(SpecError(rr, cr))
                   ELSE pc' = "configmap" /\ draft' = rr.status
    /\ UNCHANGED <<rrs, crs, owned, passing, caches, timers, bounds>>

\* The API server takes an update of what was read, and no second controller reference.
InstallOwner ==
    /\ pc = "own"
    /\ Retry
    /\ IF rrs[job] = snap /\ snap.owners = {}
       THEN rrs' = [rrs EXCEPT ![job].owners = {OwnerRef(snap, parent)}]
       ELSE UNCHANGED rrs
    /\ UNCHANGED <<crs, owned, passing, caches, timers, bounds>>

ApplyConfigMap ==
    /\ pc = "configmap"
    /\ SetConfigMap(job, [owner |-> snap.uid, conf |-> RenderEnvoyConfig(snap.upstreams)])
    /\ Goto("service")
    /\ UNCHANGED <<rrs, crs, passing, caches, timers, draft, bounds>>

ApplyService ==
    /\ pc = "service"
    /\ SetService(job, [owner |-> snap.uid,
                        labels |-> RRServiceLabels(job, parent.selector.match)])
    /\ Goto("admin")
    /\ UNCHANGED <<rrs, crs, passing, caches, timers, draft, bounds>>

ApplyAdminService ==
    /\ pc = "admin"
    /\ SetAdminService(job, snap.uid)
    /\ Goto("deployment")
    /\ UNCHANGED <<rrs, crs, passing, caches, timers, draft, bounds>>

\* Mutant: a Deployment that is there is left alone.
CreateDeployment ==
    /\ pc = "deployment"
    /\ IF deployments[job] = NoDeployment
       THEN SetDeployment(job, [owner |-> snap.uid, checksum |-> RenderEnvoyConfig(snap.upstreams)])
       ELSE UNCHANGED <<owned, queue>>
    /\ Goto("observe")
    /\ UNCHANGED <<rrs, crs, passing, caches, timers, draft, bounds>>

ApplyDeployment ==
    /\ pc = "deployment"
    /\ SetDeployment(job, [owner |-> snap.uid, checksum |-> RenderEnvoyConfig(snap.upstreams)])
    /\ Goto("observe")
    /\ UNCHANGED <<rrs, crs, passing, caches, timers, draft, bounds>>

\* The status after a scrape that found these upstreams healthy. Without an available
\* proxy the condition UpstreamReachable keeps the value it had.
Report(available, healthy) ==
    [reason |-> IF available THEN "Reconciled" ELSE "ProxyNotReady",
     proxyReady |-> available, healthy |-> healthy,
     active |-> FirstOf(snap.upstreams, healthy),
     reachable |-> IF ~available THEN draft.reachable
                   ELSE IF healthy = {} THEN "false" ELSE "true",
     stamp |-> draft.stamp]

ObserveNoProxy ==
    /\ pc = "observe" /\ ~cacheAvailable[job]
    /\ draft' = Report(FALSE, {})
    /\ Goto("report")
    /\ UNCHANGED <<rrs, crs, owned, passing, caches, queue, timers, bounds>>

Answers(r) == pods[r].up /\ adminServices[r] # 0

Scrape ==
    /\ pc = "observe" /\ cacheAvailable[job] /\ Answers(job)
    /\ draft' = Report(TRUE, HealthyIn(snap.upstreams, pods[job].conf))
    /\ Goto("report")
    /\ UNCHANGED <<rrs, crs, owned, passing, caches, queue, timers, bounds>>

\* No answer within two seconds: every upstream is reported unhealthy.
ScrapeFails ==
    /\ pc = "observe" /\ cacheAvailable[job]
    /\ IF Answers(job) THEN Move ELSE UNCHANGED moves
    /\ draft' = Report(TRUE, {})
    /\ Goto("report")
    /\ UNCHANGED <<rrs, crs, owned, passing, caches, queue, timers, uids>>

\* A write fails before it gets through.
WriteFails ==
    /\ Move
    /\ pc \in {"own", "configmap", "service", "admin", "deployment", "reject", "report"}
    /\ Retry
    /\ UNCHANGED <<rrs, crs, owned, passing, caches, timers, uids>>

\* Mutant: the status is patched onto whatever RemoteRoute there is by now.
PatchStatus ==
    /\ pc \in {"reject", "report"}
    /\ IF Exists(rrs[job])
       THEN /\ rrs' = [rrs EXCEPT ![job].status = draft]
            /\ timers' = IF pc = "report" THEN timers \cup {job} ELSE timers
            /\ Rest /\ UNCHANGED queue
       ELSE Retry /\ UNCHANGED <<rrs, timers>>
    /\ UNCHANGED <<crs, owned, passing, caches, bounds>>

\* Mutant: no RequeueAfter.
UpdateStatusOnce ==
    /\ pc \in {"reject", "report"}
    /\ IF rrs[job] = snap
       THEN rrs' = [rrs EXCEPT ![job].status = draft] /\ Rest /\ UNCHANGED queue
       ELSE Retry /\ UNCHANGED rrs
    /\ UNCHANGED <<crs, owned, passing, caches, timers, bounds>>

\* The write of the status, refused when the RemoteRoute changed since it was read.
\* Only a reconcile that came to the end asks for another one in 15 seconds. A write that
\* has nothing new to say but the time is a change, whose event wakes its author again,
\* unless it comes within the second of the write before.
UpdateStatus ==
    /\ pc \in {"reject", "report"}
    /\ IF rrs[job] = snap
       THEN /\ \E stamp \in IF draft = snap.status THEN BOOLEAN ELSE {draft.stamp} :
                  rrs' = [rrs EXCEPT ![job].status = [draft EXCEPT !.stamp = stamp]]
            /\ timers' = IF pc = "report" THEN timers \cup {job} ELSE timers
            /\ Rest /\ UNCHANGED queue
       ELSE Retry /\ UNCHANGED <<rrs, timers>>
    /\ UNCHANGED <<crs, owned, passing, caches, bounds>>

Step == \/ InstallOwner
        \/ ApplyConfigMap \/ ApplyService \/ ApplyAdminService \/ ApplyDeployment
        \/ ObserveNoProxy \/ Scrape \/ ScrapeFails
        \/ UpdateStatus

Init ==
    /\ rrs = [r \in RRs |-> NoRemoteRoute] /\ cacheRRs = rrs
    /\ crs = [c \in CRs |-> NoContextRoute] /\ cacheCRs = crs
    /\ configMaps = [r \in RRs |-> NoConfigMap] /\ services = [r \in RRs |-> NoService]
    /\ adminServices = [r \in RRs |-> 0] /\ deployments = [r \in RRs |-> NoDeployment]
    /\ pods = [r \in RRs |-> NoPod] /\ cacheAvailable = [r \in RRs |-> FALSE]
    /\ passing \in SUBSET Hosts
    /\ queue = {} /\ timers = {}
    /\ pc = "idle" /\ job = NoRR /\ snap = NoRemoteRoute /\ parent = NoContextRoute
    /\ draft = NoStatus
    /\ uids = [n \in RRs \cup CRs |-> 0] /\ moves = 0

Next ==
    \/ \E r \in RRs, c \in CRs, ups \in UpstreamLists : CreateRR(r, c, ups) \/ EditRR(r, c, ups)
    \/ \E c \in CRs, sel \in Selectors : CreateCR(c, sel) \/ EditCR(c, sel)
    \/ \E c \in CRs : DeleteCR(c) \/ DeliverCR(c) \/ DeliverCRStatus(c)
    \/ \E h \in Hosts : FlipHost(h)
    \/ \E r \in RRs : \/ DeleteRR(r) \/ DropOwned(r) \/ Collect(r) \/ CollectRR(r)
                      \/ RollOut(r) \/ Disrupt(r)
                      \/ DeliverRR(r) \/ DeliverAvailable(r) \/ Poll(r)
                      \/ TakeRequest(r)
    \/ Step \/ WriteFails \/ Restart

Spec == Init /\ [][Next]_vars

\* Watches deliver, timers run out, Pods come up, orphans are collected, and the worker
\* does not rest while there are requests.
Fairness ==
    /\ \A r \in RRs : /\ WF_vars(DeliverRR(r)) /\ WF_vars(DeliverAvailable(r)) /\ WF_vars(Poll(r))
                      /\ WF_vars(Collect(r)) /\ WF_vars(CollectRR(r)) /\ WF_vars(RollOut(r))
    /\ \A c \in CRs : WF_vars(DeliverCR(c))
    /\ WF_vars(Step \/ \E r \in RRs : TakeRequest(r))

-----------------------------------------------------------------------------
(* Properties. *)

TypeOK ==
    /\ rrs \in [RRs -> RemoteRoute] /\ cacheRRs \in [RRs -> RemoteRoute]
    /\ crs \in [CRs -> ContextRoute] /\ cacheCRs \in [CRs -> ContextRoute]
    /\ configMaps \in [RRs -> ConfigMap] /\ services \in [RRs -> Service]
    /\ adminServices \in [RRs -> Nat] /\ deployments \in [RRs -> Deployment]
    /\ pods \in [RRs -> Pod] /\ cacheAvailable \in [RRs -> BOOLEAN]
    /\ passing \subseteq Hosts
    /\ queue \subseteq RRs /\ timers \subseteq RRs
    /\ pc \in {"idle", "own", "configmap", "service", "admin", "deployment", "observe",
               "reject", "report"}
    /\ job \in RRs \cup {NoRR} /\ (pc # "idle" => job \in RRs /\ Exists(snap))
    /\ snap \in RemoteRoute /\ parent \in ContextRoute /\ draft \in Status
    /\ uids \in [RRs \cup CRs -> Nat] /\ moves \in 0..MaxMoves

\* Nothing is under way but the timers.
Settled ==
    /\ pc = "idle" /\ queue = {}
    /\ cacheRRs = rrs /\ cacheCRs = crs
    /\ \A r \in RRs : cacheAvailable[r] = pods[r].up

Attached(r) ==
    /\ Exists(rrs[r]) /\ Exists(crs[rrs[r].ref])
    /\ rrs[r].owners \subseteq {OwnerRef(rrs[r], crs[rrs[r].ref])}

\* r can have a proxy: it has always been on the ContextRoute it is on, and both are sound.
Servable(r) == Attached(r) /\ SpecError(rrs[r], crs[rrs[r].ref]) = "none"

\* Once all is quiet, the proxy's Service carries the labels that its ContextRoute selects
\* its variants by now, so the ContextRoute finds it, and it belongs to the living
\* RemoteRoute. Selectors on the label the controller sets itself are outside.
ProxyIsVariant ==
    Settled => \A r \in RRs : Servable(r) =>
        /\ services[r].owner = rrs[r].uid
        /\ \A l \in crs[rrs[r].ref].selector.match : l[1] # NameKey => l \in services[r].labels

\* Once all is quiet, the configuration of the present upstreams is installed, and the
\* template of the Pods names it.
ProxyIsConfigured ==
    Settled => \A r \in RRs : Servable(r) =>
        LET conf == RenderEnvoyConfig(rrs[r].upstreams) IN
        /\ configMaps[r] = [owner |-> rrs[r].uid, conf |-> conf]
        /\ deployments[r] = [owner |-> rrs[r].uid, checksum |-> conf]
        /\ adminServices[r] = rrs[r].uid

\* Once all is quiet, the Ready condition gives the present reason.
ReasonIsCurrent ==
    Settled => \A r \in RRs : Exists(rrs[r]) =>
        LET cr == crs[rrs[r].ref] IN
        rrs[r].status.reason =
            IF ~Exists(cr) THEN "ContextRouteNotFound"
            ELSE IF SpecError(rrs[r], cr) # "none" THEN SpecError(rrs[r], cr)
            ELSE IF pods[r].up THEN "Reconciled" ELSE "ProxyNotReady"

NamesOf(ups) == {ups[i].name : i \in DOMAIN ups}

\* A reported health is of the spec it is written onto, whatever edits, deletions and
\* re-creations came between the scrape and the write: it marks upstreams of that spec,
\* and the active one is the highest-priority one it marks. Whether the marks are right is
\* another matter: see HealthIsTracked and HealthyHasPassed.
ActiveIsFirstHealthy ==
    [][\A r \in RRs :
          LET old == rrs[r].status  new == rrs'[r].status IN
          Exists(rrs'[r]) /\ <<new.healthy, new.active>> # <<old.healthy, old.active>> =>
              /\ new.healthy \subseteq NamesOf(rrs'[r].upstreams)
              /\ new.active = FirstOf(rrs'[r].upstreams, new.healthy)]_rrs

\* What the status should say of the upstreams once hosts and users are quiet: what the
\* proxy that runs sees of them.
TellsHealth(r) ==
    LET ups     == rrs[r].upstreams
        healthy == HealthyIn(ups, pods[r].conf)
        st      == rrs[r].status
    IN  /\ pods[r].up /\ st.reason = "Reconciled" /\ st.healthy = healthy
        /\ st.active = FirstOf(ups, healthy)
        /\ st.reachable = IF healthy = {} THEN "false" ELSE "true"

\* The polls find every change of the upstreams' health in the end, which no watch tells
\* of, whatever scrapes failed or went to a proxy with an older configuration.
HealthIsTracked == <>[](\A r \in RRs : Servable(r) => TellsHealth(r))

\* "Healthy is true when at least one endpoint in this priority slot passed Envoy's last
\* active health check": while the hosts are quiet, no write newly marks an upstream
\* healthy of which no host passes.
HealthyHasPassed ==
    [][\A r \in RRs : Exists(rrs'[r]) =>
          \A i \in DOMAIN rrs'[r].upstreams :
              LET up == rrs'[r].upstreams[i] IN
              up.name \in rrs'[r].status.healthy \ rrs[r].status.healthy =>
                  \E j \in DOMAIN up.urls : up.urls[j].host \in passing]_vars
=============================================================================
