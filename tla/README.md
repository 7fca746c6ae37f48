# route-prism in TLA+

route-prism is a Kubernetes operator for preview environments: a request that carries a
routing tuple (`<routing key>=<variant Service>`, in the Baggage header or in a cookie) is
diverted from a target Service to a variant of it, inside the cluster's mesh. This directory
holds TLA+ models of its state machines, the TLC runs that check them, and theorems that the
TLA+ proof system checks.

    tlc -config context_routes.cfg MCContextRoutes    # one file .cfg per run
    tlapm ContextRoutesProofs.tla                     # and the other *Proofs modules

## The system

All paths below are under `modules/`.

| Part | Source | State | Operations | What makes it correct |
|---|---|---|---|---|
| ContextRoute controller | `operator/internal/controller/contextroute_controller.go`, `render_httproute.go` | finalizer and status of each ContextRoute, HTTPRoutes `route-prism-cr-<target>`, the work queue | Reconcile, deletion, conflict rules, watches | the installed routes are those the specs, Services and EdgeTransformations ask for, and nothing is written for an owner that is gone |
| EdgeTransformation controller | `edgetransformation_controller.go`, `translator_render.go` | translator ConfigMap, Service, Deployment; HTTPRoutes `route-prism-et-<target>`; status | Reconcile, watches | the translator's table is that of the ContextRoute on the target; one translator per target |
| RemoteRoute controller | `remoteroute_controller.go`, `remoteroute_render.go` | proxy ConfigMap, Services, Deployment; owner references; upstream health | Reconcile (polled every 15 s), scrape, watches | the proxy is a variant of its ContextRoute and configured with its upstreams; the reported health is of upstreams of this spec and keeps up |
| Routing API and index | `operator/internal/apiserver` | an atomic snapshot of routing keys, tuples and alternatives; a debounce timer | event handlers, Rebuild, filter, paginate | the snapshot never goes back and catches up; walking the pages lists everything once |
| Translator data plane | `controller/templates/nginx.smart.conf.tmpl` | none (per request) | parse Baggage and cookie, choose a Pod | the own key decides, unknown variants fall back |
| Widget | `web-widget/src` | cookie, page of tuples, request counter | search, commit, poll | late answers are dropped, other keys of the cookie survive |
| Dashboard | `web-dashboard/src` | last answers of the API | fetch page after page, render | what is shown belongs to what is selected |
| Verify | `operator/internal/verify` | pipeline goroutine, two channels, a namespace, a terminal UI | run, inspect, consent, clean up | a run that makes its namespace judges what it deployed; no namespace gets a mesh label or is wiped unasked; the result arrives |
| Preflight | `operator/internal/preflight` | one probe HTTPRoute | probe at start-up | it removes what it made |
| Operator process | `operator/internal/cmd` | the manager: caches, workers, leader election | start, stop | a restart repairs what a crash left |

The parts interact through the API server's objects only. A controller writes objects, the
informers of the others see them later, and event handlers turn what they see into requests.
ContextRoute and EdgeTransformation controllers share the target Service: the first steps
back from a target (drops its HTTPRoute) when it sees any EdgeTransformation on it, and the
second renders the table of the oldest ContextRoute it sees there. A RemoteRoute's proxy Service carries the
labels its ContextRoute selects variants by, so that the other two controllers find it as one more
variant. The routing API reads all four kinds and serves widget and dashboard. `verify` is a command of
its own that looks at a cluster's mesh and meets the operator nowhere.

The hard behaviours: reads from caches that lag behind the writes; steps of users between two
writes of one reconcile; a reconcile that fails half-way or dies with the process; objects
deleted and made again under one name; events that wake the wrong ContextRoute or none; writes
that wake their own author, as each status update does that stamps a new time.

## Modules

| Module | What it is |
|---|---|
| `ContextRoutes` | the ContextRoute controller with API server, caches, watches, users, garbage collector and faults |
| `MCContextRoutes` | its small instances for TLC |
| `ContextRoutesProofs` | theorems about `ContextRoutes` for any constants |
| `EdgeTransformations` | the EdgeTransformation controller with the objects it generates and their surroundings |
| `MCEdgeTransformations` | its small instances for TLC |
| `EdgeTransformationsProofs` | theorems about `EdgeTransformations` for any constants |
| `RemoteRoutes` | the RemoteRoute controller with its proxy, upstream hosts and surroundings |
| `MCRemoteRoutes`, `RemoteRoutesProofs` | its small instances; theorems for any constants |
| `RoutingView` | abstract: what the routing API promises of its data |
| `RoutingIndex` | informers, debouncer, concurrent rebuilds and the swapped snapshot; implements `RoutingView` |
| `MCRoutingIndex`, `RoutingIndexProofs` | its small instance; theorems for any constants, the refinement among them |
| `LeastNumbers` | a lemma the proofs share: a non-empty set of numbers has a least one |
| `Listing` | filters, limits, binary search and pages as operators, with a reference definition |
| `ApiClients` | clients that follow `nextCursor` and the dashboard's panel, while snapshots are swapped; extends `Listing` |
| `ListingProofs` | theorems about the operators of `Listing` for lists and strings of any length |
| `MCApiClients`, `ApiClientsProofs` | the small instance of `ApiClients`; theorems for any constants |
| `Verify` | the `verify` command: goroutine, channels, interface, namespace and what is deployed in it |
| `MCVerify`, `VerifyProofs` | its small instances; theorems for any constants |

### ContextRoutes: how state and actions correspond to the code

*Store.* `crs` maps every namespaced name to a ContextRoute (`uid = 0` when there is none): its
spec, its deletionTimestamp (`deleting`), its finalizer, its status. The generation grows with
every edit of the spec and with a deletion. `services` gives kind and variant label of each
Service, `ets` the targets some live EdgeTransformation names. `httproutes` maps a target to its
route `route-prism-cr-<target>`: owner label and owner UID, routing key, and the variants that
have a rule; the catch-all rule to the target is always there. A default routing key, the string
`<namespace>.<target>`, is the pair of the two: neither part can contain a dot.

*Caches.* `cacheCRs`, `cacheServices`, `cacheETs` are the informer caches every read goes to.
A `Deliver...` action brings one object up to date and adds the requests the watch maps the old
and the new version to. Versions between two deliveries are skipped, as informers may; no version
goes backwards. Events on HTTPRoutes are not cached, so each route write puts the requests its
event will add in `routeEvents`, for the version before and the one after.

*Worker.* controller-runtime runs one Reconcile at a time per controller. `TakeRequest` reads the
ContextRoute from the cache into `snap` and runs up to the first write; `pc` names the write, or
the read, that comes next:

| pc | Code | Actions |
|---|---|---|
| `release` | deletion: `deleteOwnedHTTPRoute`, by the name in `status.targetService` | `ReleaseHTTPRoute` |
| `finalizer` | `Update` that adds or removes the finalizer | `UpdateFinalizer` |
| `check` | `checkConflicts` | `TargetConflict`, `RoutingKeyConflict`, `NoConflict` |
| `resolve` | `resolveTarget`, variants, EdgeTransformations | `RejectTarget`, `RejectSelector`, `PlanHTTPRoute` |
| `route` | server-side apply, or delete, of the HTTPRoute | `ApplyHTTPRoute`, `DropDelegatedHTTPRoute` |
| `status` | `Status().Update` | `UpdateStatus` |

`UpdateRefused` is the API server's optimistic lock: the object is not the one read. Comparing
whole objects stands for comparing resourceVersions, since an edit changes the generation and only
this worker writes status and finalizer. `WriteFails` is any other error of a write. Both put the
request back. A server-side apply is forced and carries no version, so it is never refused.

*Environment.* Users create, edit and delete ContextRoutes, change Services, add and remove
EdgeTransformations and delete generated routes. Two objects made within one second get the same
creationTimestamp. `CollectHTTPRoute` is the garbage collector acting on an ownerReference whose
UID is gone. `Restart` empties the queue, lists the caches anew and adds a request for all that is
listed.

*Time.* `setReadyCondition` stamps `lastTransitionTime` with the present second at every reconcile, and no
predicate filters what the watch of ContextRoutes reports. So `UpdateStatus` chooses whether its write
falls into a new second: `stamp` in the status then changes, and with it the object, whose event adds a
request for the very ContextRoute that was reconciled, without limit. Within one second a status that has
nothing new to say is no change and raises no event. Two values of `stamp` are enough, since nothing reads
the time but the comparison of old and new object.

*Abstractions.* Cache reads of one step (the two lists of `checkConflicts`; the target, the variants
and the EdgeTransformations of `resolve`) happen at one moment; the code reads them one after
the other with nothing of its own in between. Ports, protocols and the wording of conditions are
left out, as are Kubernetes events, which report and change no state. Selectors are a single label
value. The handover of leadership between two operator processes is not modelled.

### EdgeTransformations: how state and actions correspond to the code

*Store.* All reads and writes of this controller stay in the namespace of the EdgeTransformation,
so there is one namespace, and names are plain values. `ets` holds each EdgeTransformation with spec
and status; there is no finalizer, so a deleted one is gone at once. Of a ContextRoute the
controller reads only creation time, target, selector and routing key, and one that is being deleted
counts as absent. `endpoints` is, for each Service, what `firstReadyEndpoint` returns: an address,
or 0. The generated objects are `configMaps`, `translators` (the Service), `deployments`, by
EdgeTransformation, and `httproutes`, by target; each carries the UID of its owner. The `table` in
the ConfigMap is what the text of `nginx.conf` depends on: routing key, target Pod, and one Pod per
variant; the Deployment carries its checksum, which is taken to be injective.

*Caches and watches.* As for `ContextRoutes`. The worker reads of generated objects only whether its
Deployment is available (`cacheAvailable`); the events of the others are the requests in `wakeups`.
An apply that changes nothing
raises no event. A status update is another matter: `setETCondition` stamps the time, so each one may wake its
author (`stamp`, as above), and the status of a ContextRoute, which says nothing to this controller, wakes it as
well (`DeliverContextRouteStatus`).

*Worker.*

| pc | Code | Actions |
|---|---|---|
| `plan` | mode, target, endpoints, ContextRoute, variants, rendering | `RejectMode`, `RejectTarget`, `RejectEndpoints`, `RejectVariants`, `RenderTable` |
| `configmap`, `service`, `deployment`, `httproute` | the four server-side applies | `ApplyConfigMap`, `ApplyService`, `ApplyDeployment`, `ApplyHTTPRoute` |
| `ready` | the Deployment is read back | `ReadDeployment` |
| `status` | `Status().Update` | `UpdateStatus`, `UpdateRefused` |

`RejectVariants` is the one early return that does not report anything: the selector of the
ContextRoute does not parse, and the error goes to the work queue.

*Environment.* Users write EdgeTransformations, ContextRoutes and Services, and delete generated
objects of the kinds in `Deletable`. Pods of Services come and go (`SetEndpoint`); the translator's
own Pod comes up once its ConfigMap is there (`RollOut`) and fails (`Disrupt`). `Collect` is the
garbage collector. A new checksum rolls the Pods while the old ones serve, so the Deployment stays
available.

*Abstractions.* All cache reads of `plan` happen at one moment. Widget settings, the DNS address and
the operator's address end up in the text and decide nothing. The translator's own Service does not
match the variant selectors of the instances. The ContextRoute controller's routes on the same
target are the subject of `ContextRoutes`; the two modules are not composed. A Pod is not modelled with
the configuration it mounted, as in `RemoteRoutes`; the translator's ConfigMap and Deployment are written
in the same two steps, so a Pod can keep an older table here as well (see *What the code does not promise*).

### RemoteRoutes: how state and actions correspond to the code

*Store.* `rrs` holds each RemoteRoute with the ContextRoute it names, its upstreams, its owner references
and its status; `crs` the UID and the selector of each ContextRoute. `configMaps`, `services`, `adminServices` and
`deployments` are the owned objects, each with the UID of its owner. `pods` is the available Pod of a
Deployment: the checksum of its template and the configuration it mounted when it started. `passing` are
the hosts that answer Envoy's health checks. A `Conf` is the rendered `envoy.yaml` as far as two of them
differ to a user: priority groups of hosts, TLS or not, the balancing policy. The order in which
`resolveUpstreams` finds fault with a list is kept (`UpstreamError`).

*Worker.*

| pc | Code | Actions |
|---|---|---|
| (start) | the reads up to the first write | `TakeRequest` |
| `own` | `ensureRROwnerRef` and `Update`, then requeue | `InstallOwner` |
| `configmap`, `service`, `admin`, `deployment` | the four server-side applies | `ApplyConfigMap`, `ApplyService`, `ApplyAdminService`, `ApplyDeployment` |
| `observe` | the Deployment is read, the admin endpoint scraped | `ObserveNoProxy`, `Scrape`, `ScrapeFails` |
| `reject`, `report` | `Status().Update`; only the second asks for the next poll | `UpdateStatus` |

A scrape matches the running proxy's groups to the names of the present spec by position, as
`applyDumpToStatus` does by priority. A failed one reports every upstream unhealthy.

*Environment.* Users write both kinds and delete owned objects; hosts come and go; the garbage collector
takes owned objects in any order and a RemoteRoute all of whose owners are gone; a Pod comes up with the
ConfigMap of that moment, and fails; writes and scrapes fail; the process restarts. `WriteFails` is at every write,
the owner reference and the rejecting status among them. Events of owned
objects wake the RemoteRoute at once: such a request carries no data, and its being late is the worker
being late.

*Time.* `stamp` stands for the two times of the status, the condition's and the last probe's; the status
update of a RemoteRoute, and that of its ContextRoute (`DeliverCRStatus`), wakes it without limit.

*Abstractions.* TLS settings, health-check settings and the variant's name in the status are
left out: they are copied. The second parent of a moved RemoteRoute is modelled (`OwnerRef`: the API
server refuses a second controller reference, and the reconcile is retried) but needs two ContextRoutes,
which no run has.

### RoutingIndex and RoutingView

`store` has one field per kind that `Rebuild` lists; `revs` counts the changes of each kind, and
`cacheRevs` says what the caches have seen. `Deliver` is an informer that updates its cache and triggers
the debouncer. `Fire` is `time.AfterFunc` running out: the function starts on a goroutine of its own and
cannot be stopped any more, so several wait for `rebuildMu` (`Lock`). A rebuild lists ContextRoutes,
EdgeTransformations and RemoteRoutes in a step each, then the Services once for every owner
(`ListServices`, in any order, as the code ranges over a map), and swaps the snapshot in (`Publish`). `Restart`
is the process starting anew on synced caches: the handlers are called for all there is, the first rebuild runs
before the server listens. Times are whole seconds, ties go by name; one EdgeTransformation per target,
one namespace. A rebuild does not fail, since lists of a synced cache do not.

`RoutingView` is the abstract specification: for each kind the view shows some state the cluster was in,
no view shows an earlier state of any kind than the one before it, and a view is replaced as a whole; a restart
empties it. `NeverGoesBack` is that specification under `source <- revs, view <- snap.revs`. The ghost
`revs` in a snapshot is what its lists saw; `SnapshotIsCurrent` ties it to the entries that are served.

### Listing and ApiClients

`Listing` has `filter.apply`, `paginate`, `parseLimit` and `subseqMatch` as operators over sequences of
numbers that stand for strings in Go's order, binary search included. `Search` takes the places that pass its
test as a set, and recursive functions (over the interval, over the scanned prefix) stand for the code's loops.
`Ranked` lists a set in an order, which is what Go's sort leaves of a slice without repetitions. `Wanted` is the reference
definition of the filters, string by string: each filter that is given must be satisfied, as the comment of
`filter` has it. The code does not always do so (`FuzzyIgnored`, below). The tuple list has a filter of its own
(`ApplyTupleFilter`), which looks for the pattern anywhere in the string. Patterns are brought to lower
case, in which names already are, so letters have no case here. 
`ApiClients` has two clients. `walk` follows `nextCursor` on one of
the three endpoints, each page from the snapshot of the moment. `loads` are the runs of the dashboard's effect: selecting
another target cancels the last one, which goes on loading and sets nothing. `Swap` puts any snapshot in the
place of any other, which covers every rebuild between two pages.

### Verify

`run` is the goroutine of `verify.Run`: its `pc` names the next call. `ReadNamespace` is the decision of
`reconcileNamespace`; `DeployNext` to `ReadLogs` are `DeepProbe`; `EarlyReturn`, `ProbeError`, `NoController` and
`TrafficError` are its calls failing or its waits running out, anywhere; `Cleanup` works with a context of its own.
`chan` has the fill of the step channel, the result, and which of the two is closed. `ui` is the interface:
for the interactive one the context list, the inspection, the mode picker, the consent prompt, running and done;
the plain one starts with running. `waitStep`'s select is the choice between `ReadStep` and `ReadResult`.
`objects` is what the probe deploys, with the run that made it and the images it talks to; `AlreadyExists` counts as
made. Users create and label the namespace; a terminating one goes when its objects are gone, kind by kind.
After the prompt the window may or may not hold the cancel function (`return m, m.startVerification()`, whose
order Go leaves open), so `Quit` cancels or does not. `DetectMesh` takes reads that fail for nothing found.

## Runs

| Run | Instance | Shows |
|---|---|---|
| `context_routes` | two ContextRoutes of one namespace, two Services, a colliding key and a rejected selector, one move, also from states in which a ContextRoute has been made again or moved unseen; 107 thousand states | `TypeOK`, `FinalizerHoldsOwner`, `ReadyRouteInstalled`, `OthersTurnedAway`, `DelegatedHasNoRoute`, `Converges`, `DeletionCompletes`, `EligibleGetsRoute` |
| `conflict_stale` | two ContextRoutes, one move | a violation of `ConflictNamesOwner` |
| `et_safety` | one EdgeTransformation, two ContextRoutes, two Services, two moves; 1.2 million states | `TypeOK`, `TableIsCurrent`, `ReasonIsCurrent`, `RouteHasTranslator` |
| `et_liveness` | two EdgeTransformations, one ContextRoute with a good or a bad selector, one move; 165 thousand states | `Settles`, `ServableComesReady` |
| `et_retarget` | one EdgeTransformation, no ContextRoute, one move | a violation of `SingleRoute` |
| `remote_routes` | one RemoteRoute, one ContextRoute, two hosts, three upstream lists (one is rejected), three selectors, two moves, or one if it is the ContextRoute's; 320 thousand states | `TypeOK`, `ProxyIsVariant`, `ProxyIsConfigured`, `ReasonIsCurrent`, `ActiveIsFirstHealthy`, `HealthIsTracked` |
| `remote_stale_health` | the same with two lists and one selector; one host passes all the time, the other never | a violation of `HealthyHasPassed` |
| `routing_index` | two ContextRoutes, three keys, two targets, one variant, three rebuilds at a time, two moves; 295 thousand states | `TypeOK`, `SnapshotIsCurrent`, `NeverGoesBack`, `CatchesUp` |
| `api_clients` | five snapshots, 36 requests, pages of one to three, three moves; 121 thousand states | `TypeOK`, `WalkIsExact`, `PanelFollowsSelection`, `WalkEnds` |
| `filters_and` | the same | a violation of `FiltersAreAnded` |
| `verify` | an old or an interactive command, then one that may wipe; one move; 481 thousand states | `TypeOK`, `VerdictIsFresh`, `NothingLeftBehind`, `ResultIsShown`, `ConsentGiven`, `RunEnds` |
| `verify_keep` | one command that may patch only | a violation of `PatchKeepsNamespace` |

*Bounds.* `MaxMoves` bounds together what users do, restarts and failed writes; deliveries,
reconciles, status writes and what they wake, refused updates and garbage collection are unbounded. With
everything interleaved, one move is a deletion, an edit or a failed write in the middle of a reconcile that then
goes on, or is repeated, from stale caches. A name used again takes two moves more, and an older claimant that
moves onto a target one more; so `context_routes` also starts from states in which these have just happened and no
cache shows it. There the Service `b` keeps being a target, which `a` need not. Two names give every conflict between a
ContextRoute and the winner it is compared with; two Services give every role (target, variant, other's
target). Who ends up serving takes three ContextRoutes, and there the code makes no promise beyond
`OthersTurnedAway`, which is proved for any number: see below. What more moves could bring is for the safety
properties left to the proofs, which bound nothing.

Safety properties about the outcome are stated of *quiescent* states: nothing left to deliver, no
request queued, the worker idle. They hold in every such state, however it was reached, so they do not
rest on fairness. The stamped times do not put such states out of reach,
since a status write within the second of the last one raises no event. In no run is deadlock checked: once
everything is reconciled and the moves are used up the system may rest.

*Fairness.* Watches deliver (the informers' connection is re-established by client-go), the worker
takes its next step, the garbage collector runs, and every queued request is taken in the end,
which is strong fairness per request because the work queue is first in, first out while `idle`
comes and goes. Fairness is stated per object, since each kind has a watch of its own: with fairness
of deliveries only as a whole, a watch could lag forever while another one delivers, and a deleted
loser's retried release could keep removing the winner's HTTPRoute meanwhile. Deployments come up
when they can. Nothing is assumed of users and faults; since moves are bounded, they end.
Nothing is assumed of the clock either: every status write may fall into a new second, and then the controllers
reconcile for ever. What `Converges`, `Settles` and `HealthIsTracked` say is therefore that the content comes to
rest (specs, statuses but for their times, routes and generated objects), not that the worker does.

*What the violations say.*
1. `conflict_stale`: a ContextRoute that lost its target keeps `status.conflict` and has no route
   after the winner is gone, because no event of the winner is mapped to the loser. With three ContextRoutes
   on one target the same cause decides who serves: two older claimants move onto the target, the first of them is
   turned away for the second, the second moves on, and the youngest, which nothing woke meanwhile, goes on
   serving while the oldest stays turned away. "The oldest live claimant serves" is therefore no property of this
   code; that the others were turned away is.
2. `et_retarget`: an EdgeTransformation is pointed at another target. The route of the old one stays and
   leads to a translator that now serves the Pods of the new one.
3. `remote_stale_health`: upstreams are edited while the Pod of the old list still answers. Its dump is matched with
   the new list by position, and an upstream is newly reported healthy none of whose hosts passes. The next polls of the
   new Pod correct it (`HealthIsTracked`).
4. `filters_and`: a request with `equals` and `fuzzy` gets a name that `fuzzy` does not match, since `apply` returns
   once `equals` is done. "All filters are AND-ed" (`api.go:194`) is not so for this pair.
5. `verify_keep`: the clean-up deletes every namespace it was not told to keep, also one that its user only
   agreed to have patched.

*What the code does not promise, or does not do, and no run shows.* The conditions' `lastTransitionTime` moves with every
reconcile in a new second although nothing transitions. A Pod that starts between the writes of ConfigMap and Deployment
mounts the new configuration under the old checksum; if the spec is edited back, the template is the one it has, nothing
rolls it, and it runs other upstreams (or another table) than the spec says. A verification that finds a
namespace kept or left behind takes its backends as they are, of whatever image, and reports what they answer. A
namespace that somebody makes between `reconcileNamespace`'s read and its create is used as it is, labels or not, and
deleted in the end. A list of tuples has one string twice when two ContextRoutes of one namespace on one target have
different routing keys (owners are kept per key, `index.go:202-262`), and a client that pages through it with a small
limit may be served the same page for ever. After an error the dashboard's panel shows the old target's data under
the new heading. Two ContextRoutes can end up ready with one
routing key (an edit of the older one wakes nobody; names are not unique across namespaces), and the route of a
former target stays when a ContextRoute is pointed elsewhere. `status.translatorReady` keeps its value through early
returns. The condition `UpstreamReachable` keeps its value while the proxy is down, and the index serves
it. Names of RemoteRoutes and variant labels can collide in `app.kubernetes.io/name`. With `Auto` in the mode
picker and `--mesh-mode` given, the prompt is about the forced mode and the run uses the detected one. A key
that quits ends the process before the detached clean-up is through. A run right after another takes a
namespace that is still terminating for its own.

`Settles` and `ServableComesReady` name two exceptions (`Settleable`), in which the code does run
forever: two EdgeTransformations in router mode on one target overwrite each other's route, each
write waking the other, and a ContextRoute whose selector is rejected makes each reconcile fail.
`et_liveness` has the second case; the first would last, with one move, and make both properties true for nothing, so
its second EdgeTransformation is on the other target or not in router mode.

*Bounds of the EdgeTransformation runs.* One EdgeTransformation is enough for what `et_safety` asks:
the controller handles each on its own, they meet only in a shared target, and `et_liveness` has two.
Two ContextRoutes give an oldest and another, two Services a target and a variant, or two targets.
`RouteHasTranslator` is about Services and Deployments nobody deletes by hand, so `et_safety` lets
users delete the other two kinds and `et_liveness` all four.

*Bounds of the other runs.* One RemoteRoute is enough, as RemoteRoutes share nothing but their ContextRoute;
its upstreams are two in priority order, one of them alone, and a list with a rejected URL behind one of
another scheme. Two moves let an edit fall between any two writes and be taken back; what happens to the ContextRoute
happens once, by itself, and the ContextRoute may be missing at first. `routing_index` has
a key that both ContextRoutes can hold, a target that is the variant, one shared selector, and three
goroutines: two that wait and one that lists. The snapshots of `api_clients` differ in every way that matters
to a cursor (the named item goes, others come before and after it, all go); `WalkIsExact` and `WalkEnds`
except walks over a snapshot with one tuple string twice, which may be served for ever. In `verify` two
commands let the second meet what the first left behind, a step channel of one is full at every step, and
the mesh is the one that asks for a label.

*Fairness of the other runs.* `remote_routes`: watches deliver, timers run out, Pods come up, orphans are
collected, and the worker does not rest while there are requests. `routing_index`: each informer delivers, a
timer that is set runs out, and every goroutine gets the mutex and runs. `verify`: the goroutine is scheduled (its
waits have a timeout, so some action of it is always enabled) and the interface listens; nothing is assumed
of the cluster or of users.

## Proofs

`ContextRoutesProofs` proves for all constants that satisfy the three assumptions of
`ContextRoutes` (names are pairs of a string and a positive number; null values are not values;
the specs and Services offered to users are well-formed), with no bound on lag, faults or moves:

* `TypeCorrect`: `Spec => []TypeOK`.
* `FinalizerInvariant`: `Spec => []FinalizerInv`.
* `RoutesAreHeld`: `Spec => FinalizerHoldsOwner`. A route is only created, or given to another
  owner, while the ContextRoute it names exists and has its finalizer.

The argument. When a route is applied, the worker acts on `snap`, which came from a cache. It
could be a version from before a deletion, or of an earlier object of the same name. `TypeOK`
does not exclude this, so it is strengthened to `FinalizerInv`: what a cache shows as *held*
(finalizer on, not being deleted) is still the same object in the store with its finalizer on
(`CacheHolds`), and so is what the worker is reconciling (`WorkerHolds`). The only step that takes
a finalizer off an object is the worker's own, and it does so for a version that is being deleted.
To know that no cache shows that object as held, a deletion once seen must be in the cache and in
the store from then on (`DeletionKnown`, `DeletionServed`); and for objects made again under
the name, UIDs must be fresh (`UidsHandedOut`). `DesiredNamesJob` ties the rendered route to the
ContextRoute it was rendered for. The proof has one lemma per kind of step.

* `NothingIsForgotten`: `Spec => []QuietInv`, and from it
* `ReadyRouteIsInstalled`: `Spec => []ReadyRouteInstalled`,
* `DelegatedRouteIsGone`: `Spec => []DelegatedHasNoRoute`,
* `OthersAreTurnedAway`: `Spec => []OthersTurnedAway`.

The argument. These three speak of quiescent states, and no invariant about quiescent states is inductive: one
must say what holds on the way there. `DoneInv` does: a live ContextRoute for which no request is queued or on its way
(`Pending`) and on which the worker is not busy is reconciled with the *present caches*, unless the store has another
version of it, whose event is then still to come. "Reconciled" (the definition of that name) is the outcome of a whole
Reconcile, early returns included; only whether the ContextRoute was turned away for another one may be out of date,
since events of others do not wake it. `CurrentInv` says the same of the worker half-way: unless its ContextRoute is
pending again, what it has read and rendered is what the present caches ask for. `AgeInv` gives that an old version never comes
back, so a cache that differs from the store is not made equal to it by an edit. The forced apply needs `LateRouteInv`: a
worker may apply its route after an EdgeTransformation on the target has been seen, and then put a route where another
ContextRoute has rightly dropped its own; but the event of that EdgeTransformation has queued everyone on the target.
A step of anybody else keeps all this if it is `Undisturbed`: whatever it changes of what a ContextRoute relies on, it wakes
that ContextRoute. That is one lemma about users, one about deliveries and the garbage collector, one about route writes
(`SetHTTPRouteUndisturbed`), and they are where the watches' mappings are used. The time a status write stamps changes no more than an event to
come (`SameButTime`). `OthersAreTurnedAway` then follows
because two ContextRoutes that both serve a target would both own its one route.

`EdgeTransformationsProofs` proves, from the two assumptions of `EdgeTransformations`:

* `TypeCorrect`: `Spec => []TypeOK`.
* `RoutesLeadToTranslators`: `Spec => []RouteHasTranslator`, if `Deletable` holds neither Services nor
  Deployments. The route of a living EdgeTransformation leads to a Service and a Deployment that belong
  to that same object.

The argument. The order of the applies gives the property within one reconcile, but the
EdgeTransformation may be deleted and made again under its name at any moment, and a worker that
still acts for the first would hand the objects of the second to a UID that is gone. `RouteInv` says
why this does not happen: once a route of the living object exists, the cache has shown that object
(`RouteSeen`), and a worker on that name acts for it and for no earlier one, since the name is
reconciled by one worker and a cache never goes back. `WorkerSeen` is the step from what the worker
read to what the cache shows, `WorkloadApplied` says what the pc has established, and `UidsHandedOut`
that a new object's UID is nowhere yet. The garbage collector takes nothing whose owner lives.

* `NothingIsForgotten`: `Spec => []QuietInv`, and from it
* `TableIsAlwaysCurrent`: `Spec => []TableIsCurrent`,
* `ReasonIsAlwaysCurrent`: `Spec => []ReasonIsCurrent`.

The argument is the one of `ContextRoutes`, in the same parts: `AgeInv`, `DoneInv`, `CurrentInv`, and `Undisturbed` steps.
`CurrentInv` goes apply by apply: what the pc has passed is applied, with the table that is current, unless a request
is pending. An apply that changes an object wakes its owner, which is how a worker that overwrites what another
EdgeTransformation has put there leaves that one pending. The table depends on the oldest ContextRoute the cache shows on
the target (`OneWinner`: there is one at most), and any event that can change which one that is wakes the
EdgeTransformations of the target. No deletion by hand is excluded here.

`RemoteRoutesProofs` proves, from `NullAssumption` and `BoundsAssumption`:

* `RemoteTypeCorrect`: `Spec => []TypeOK`.
* `RemoteActiveFirst`: `Spec => ActiveIsFirstHealthy`. What is written of health marks upstreams of the spec it is
  written onto, and the active one is the first it marks. Whether the marks are true is not part of it: see
  `remote_stale_health`.

The argument. What is written is the `draft`, filled for `snap`, the spec of the cache. `DraftMatches` says
that a draft about to be reported names upstreams of `snap` only and its active one accordingly, and the optimistic
lock of the status update that `snap` is what is stored; `RefsKnown` keeps the ContextRoute a RemoteRoute names inside the map it is
looked up in. Drafts of a rejected spec keep the health of the stored object, which is no change of it.

* `RemoteQuiet`: `Spec => [](TypeInv /\ QuietInv)`, and from it
* `RemoteProxyIsVariant`, `RemoteProxyIsConfigured`, `RemoteReasonIsCurrent`: `ProxyIsVariant`, `ProxyIsConfigured` and
  `ReasonIsCurrent` always hold.

The argument. `QuietInv` has the shape described for `ContextRoutes` above: `DoneInv` for RemoteRoutes nothing will
reconcile; `StageInv` for what the worker found before it came where it is (its parent exists, the spec is accepted or
rejected); `CurrentInv` for what it has read and applied, unless its request is queued again. A status or a UID that the cache
has not shown yet is an event still to come (`Stale`), while an edit may be taken back unseen. A UID is given once
(`UidsInv`), so the garbage collector removes nothing of a living RemoteRoute.

`RoutingIndexProofs` proves, from `OrderAssumption` and `BoundsAssumption`, for any number of rebuilds:

* `IndexTypeCorrect`: `Spec => []TypeOK`.
* `IndexRefinesView`: `Spec => NeverGoesBack`, the refinement of `RoutingView`.
* `IndexSettlesCurrent`: `Spec => []SnapshotIsCurrent`.

The argument. For the refinement: the snapshot is behind the caches and these behind the store (`Behind`), one
rebuild at a time is between lock and swap (`Exclusive`), and what it has listed lies between the snapshot
and the caches (`Between`); so each swap goes forward in every kind. For the settled state: whatever the caches
have that the snapshot has not is either still to be listed by a rebuild under way, or a timer or a
waiting goroutine will see to it (`Upcoming`), and caches that have seen every change equal the store
(`Delivered`). With nothing under way, the snapshot was made from the store. That the owner of a key exists
(`Owners` chooses the oldest) rests on `LeastNumber`.

`VerifyProofs` proves, from `VerifyAssumption` (there is a command, and commands are well-formed) and
`NullAssumption`, for any number of commands and any capacity of the step channel:

* `TypesHold`: `Spec => []TypeOK`, and `InvHolds`: `Spec => []Inv`.
* `NothingIsLeftBehind`, `ResultIsAlwaysShown`: `NothingLeftBehind` and `ResultIsShown`.
* `CreatorsJudgeTheirOwn`: `Spec => []VerdictIsFresh`. A run that came to create its namespace reports what its own
  deployments answered. A run that found one (kept, or left behind) is outside: what is there counts as made
  (`AlreadyExists`), and the verdict is of whatever it runs.
* `LabelsAndWipesNeedPolicy`: `Spec => ConsentGiven`. No mesh label is added to a namespace of its users, and none is
  wiped before the probe, without the policy for it. Which label was agreed to is not kept; what the probe deploys, also
  after a create that met `AlreadyExists`, and the clean-up's deletion are outside.

The argument. `Inv` says at each point of the goroutine what the later points need: an object stands in a namespace and is
in a state of its kind (`Standing`); the outcome is known when the clean-up begins, and cases only follow an accepted
route (`Flow`); each channel is closed at its place, and the result is with the goroutine, in the channel or on the
screen (`Channels`); a namespace is patched or deleted under the policy that allows it (`Allowed`); a namespace is not of
this command before its run has made one, nor after it has cleaned up (`Owned`); and in a namespace made afresh all
is of this command, images and answers included (`Fresh`). `Typed` is the type invariant with the goroutine's points spelt
out. The model lets every call fail, so these must hold at every point a failure can lead on from.

`ListingProofs` proves, for lists and strings of any length, from `LimitAssumption` (limits are positive):

* `SearchFinds`: binary search returns the first place that passes a test which, once passed, stays passed.
* `FilterMembers`: a filtered list is in order, a part of the list, and has every member that all its filters ask for
  (`Wanted`); it has no others unless `equals` and `fuzzy` are both given (`FuzzyIgnored`), where the code drops the second.
* `TupleFilterMembers`: the tuple list filtered by a pattern has exactly the tuples that contain it, in order.
* `PageMembers`: a page has all that lies behind its cursor and not behind the next one.

The argument. `Less` is a total order because two strings part at one place (`PartAt`). The recursive functions are
`CHOOSE` expressions, so one must show that a function with that equation exists: for `Search` it is written down (the
place sought, moved into the interval), for `SubseqMatch` it is built prefix by prefix. What it computes then follows
from `LeastNumber`: there is no shortest interval, and no shortest prefix, on which it is wrong. The greedy scan is right since
after every prefix it has found as much of the pattern as can be found there (`Embeds`). `RankedOrders` counts, for each
member, those before it: distinct numbers, hence all of them.

`ApiClientsProofs` proves, for any snapshots, requests, targets and limits that satisfy the three assumptions of
`ApiClients` (entries are finite sets of non-empty keys and alternatives, and a key has one Service, which is what
`Rebuild` produces; requests are well-formed; no target and no walk is the null value):

* `ClientsTyped`: `Spec => []TypeOK`.
* `WalksAreExact`: `Spec => []WalkIsExact`, where "only what was asked for" leaves out `FuzzyIgnored` requests, and `WalksGoOn`: `Spec => WalkEnds`.
* `PanelShowsSelection`: `Spec => []PanelFollowsSelection`.

The argument. `WalkInv` relates a walk to snapshots that are long gone: of what was there the whole time, it has got
everything that is not behind its cursor, and nothing it has got is behind it. An answer from any other snapshot
keeps this by `PageMembers`, because the cursor is looked up by its place in the order and not by an item that may be
gone. The exception for a list with a string twice enters where a list that ascends need not ascend strictly. For the
panel, `LoadsInv` says that the one load which is not cancelled is for the selected target, and `DataInv` that what is shown is for
it too unless that load or an error is there.

Only model-checked: all liveness (`Converges`, `DeletionCompletes`, `EligibleGetsRoute`, `Settles`,
`ServableComesReady`, `HealthIsTracked`, `CatchesUp`, `RunEnds`), which the prover does not reach; and the five
violations, which are counterexamples.

## Not modelled

* The informers' resync every ten hours, which reconciles everything anew: it can only repair, so the properties must
  hold without it.
* The target list of the dashboard: two loads without a guard against late answers, hence nothing to state.
* The widget: the hard part is the browser (cookies that other tabs write, paths that hide one cookie behind
  another), of which the source says little. Its paging is that of `ApiClients`.
* Preflight but for `DetectMesh`: one probe object at start-up, and version tables.
* The nginx and Envoy templates: configuration whose meaning is nginx's and Envoy's.
* Leader election, flags, metrics and logging of the operator process.
* Sample workload, test drivers, charts and scripts.

## Plan

All modules above are done, and every safety property the passing runs check is a theorem. Left, in
this order: a composition of `ContextRoutes` and `EdgeTransformations`, in which one ContextRoute is turned away for its
routing key and the translator is still rendered for it; a run of `RemoteRoutes` with two ContextRoutes; the widget's
request counter.
