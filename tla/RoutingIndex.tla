---------------------------- MODULE RoutingIndex ----------------------------
(***************************************************************************)
(* The routing API of one replica (internal/apiserver), in one namespace.  *)
(*                                                                         *)
(* Four informers feed a debounced rebuild of an immutable snapshot, which *)
(* is swapped in as a whole; HTTP handlers answer from the snapshot of the *)
(* moment. A rebuild lists the four kinds one after the other while the    *)
(* caches move on, and several rebuilds may be under way.                  *)
(*                                                                         *)
(* An object under deletion is the same as none to a rebuild, so it is     *)
(* none here. An EdgeTransformation is the cookie on its target.           *)
(***************************************************************************)
EXTENDS Naturals

CONSTANTS
    CRs,          \* ContextRoutes, as numbers in the order of their names
    Keys,         \* routing keys
    Targets,      \* names of Services that routes lead to
    Variants,     \* names of Services that may be variants
    Labels,       \* the labels variants are selected by
    Cookies,      \* source cookies
    Rebuilders,   \* bound: goroutines for rebuilds, beside the one that Start runs on
    Self,         \* ".", the alternative that is the target itself
    NoCR, NoLabel, BadSelector, NoCookie, NoOne,
    Times,        \* seconds of creation
    CRSpecs,      \* what users write into a ContextRoute
    MaxMoves      \* bound: changes of the cluster and restarts together

ASSUME OrderAssumption == CRs \subseteq Nat /\ Times \subseteq Nat

ASSUME BoundsAssumption ==
    /\ MaxMoves \in Nat
    /\ "start" \notin Rebuilders /\ NoOne \notin Rebuilders \cup {"start"}
    /\ Self \notin Variants
    /\ CRSpecs \subseteq [key : Keys, target : Targets, selector : Labels \cup {BadSelector}]

VARIABLES
    store,     \* the cluster: one field per kind
    revs,      \* how often each kind has changed
    cache,     \* the manager's informer caches
    cacheRevs,
    timer,     \* the debouncer's
    serving,   \* the HTTP server listens
    lock,      \* rebuildMu
    pc, draft, \* of each rebuild: where it is and what it has listed
    snap,      \* the published snapshot
    moves

cluster == <<store, revs>>
caches  == <<cache, cacheRevs>>
builds  == <<lock, pc, draft>>
vars    == <<cluster, caches, timer, serving, builds, snap, moves>>

-----------------------------------------------------------------------------
Kinds     == {"cr", "et", "rr", "svc"}
Goroutine == Rebuilders \cup {"start"}

ContextRoute == [key : Keys, target : Targets, selector : Labels \cup {BadSelector},
                 created : Times]
Reachability == {"none", "unknown", "true", "false"}

Objects == [cr  : [CRs -> ContextRoute \cup {NoCR}],
            et  : [Targets -> Cookies \cup {NoCookie}],
            rr  : [Variants -> Reachability],
            svc : [Variants -> Labels \cup {NoLabel}]]

\* One (target x alternative) pair. remote is "none" without a RemoteRoute.
TupleEntry == [service : Targets, alternative : Variants \cup {Self}, key : Keys,
               cookie : Cookies \cup {NoCookie}, remote : Reachability]

\* targets, altByTarget and the other maps are read off the entries: every key has one.
Snapshot      == [revs : [Kinds -> Nat], entries : SUBSET TupleEntry]
EmptySnapshot == [revs |-> [k \in Kinds |-> 0], entries |-> {}]

\* What a rebuild has listed so far; alts is filled key by key.
Draft   == [owners : UNION {[K -> ContextRoute] : K \in SUBSET Keys},
            et : [Targets -> Cookies \cup {NoCookie}], rr : [Variants -> Reachability],
            alts : UNION {[K -> SUBSET (Variants \cup {Self})] : K \in SUBSET Keys},
            revs : [Kinds -> Nat]]
NoDraft == [owners |-> <<>>, et |-> [s \in Targets |-> NoCookie],
            rr |-> [s \in Variants |-> "none"], alts |-> <<>>, revs |-> [k \in Kinds |-> 0]]

-----------------------------------------------------------------------------
(* What a rebuild makes of the lists. *)

\* The older ContextRoute owns a routing key, then the one first by name.
Owns(crs, c) ==
    /\ crs[c] # NoCR
    /\ \A d \in CRs : crs[d] # NoCR /\ crs[d].key = crs[c].key =>
          \/ crs[c].created < crs[d].created
          \/ crs[c].created = crs[d].created /\ c <= d

\* Mutant: the younger ContextRoute.
OwnersYounger(crs) ==
    [k \in {crs[c].key : c \in {c \in CRs : crs[c] # NoCR}} |->
        crs[CHOOSE c \in CRs : /\ crs[c] # NoCR /\ crs[c].key = k
                               /\ \A d \in CRs : crs[d] # NoCR /\ crs[d].key = k =>
                                     crs[c].created >= crs[d].created]]

Owners(crs) ==
    [k \in {crs[c].key : c \in {c \in CRs : crs[c] # NoCR}} |->
        crs[CHOOSE c \in CRs : Owns(crs, c) /\ crs[c].key = k]]

Alternatives(svcs, cr) ==
    {Self} \cup {s \in Variants : svcs[s] = cr.selector /\ s # cr.target}

Entries(owners, alts, ets, rrs) ==
    UNION {{[service |-> owners[k].target, alternative |-> a, key |-> k,
             cookie |-> ets[owners[k].target],
             remote |-> IF a = Self THEN "none" ELSE rrs[a]] : a \in alts[k]} :
           k \in DOMAIN owners}

-----------------------------------------------------------------------------
(* The cluster and the informers. *)

Move == moves < MaxMoves /\ moves' = moves + 1

Change(kind, objs) ==
    /\ Move
    /\ store[kind] # objs
    /\ store' = [store EXCEPT ![kind] = objs]
    /\ revs' = [revs EXCEPT ![kind] = @ + 1]
    /\ UNCHANGED <<caches, timer, serving, builds, snap>>

\* A ContextRoute is created, edited or deleted; an edit keeps its creation time.
SetContextRoute(c, spec, time) ==
    /\ store.cr[c] # NoCR => time = store.cr[c].created
    /\ Change("cr", [store.cr EXCEPT ![c] =
           [key |-> spec.key, target |-> spec.target, selector |-> spec.selector,
            created |-> time]])

DeleteContextRoute(c) == Change("cr", [store.cr EXCEPT ![c] = NoCR])

SetEdgeTransformation(s, cookie) == Change("et", [store.et EXCEPT ![s] = cookie])

SetRemoteRoute(s, reachable) == Change("rr", [store.rr EXCEPT ![s] = reachable])

SetService(s, label) == Change("svc", [store.svc EXCEPT ![s] = label])

\* An informer brings its cache up to date and calls the handlers, which start the
\* debouncer's timer again.
Deliver(kind) ==
    /\ cacheRevs[kind] # revs[kind]
    /\ cache' = [cache EXCEPT ![kind] = store[kind]]
    /\ cacheRevs' = [cacheRevs EXCEPT ![kind] = revs[kind]]
    /\ timer' = TRUE
    /\ UNCHANGED <<cluster, serving, builds, snap, moves>>

-----------------------------------------------------------------------------
(* Rebuilds. *)

\* Mutant: while one rebuild is under way the timer starts no other.
FireOnce(g) ==
    /\ timer
    /\ pc[g] = "idle"
    /\ timer' = FALSE
    /\ pc' = IF \A h \in Goroutine : pc[h] = "idle" THEN [pc EXCEPT ![g] = "lock"] ELSE pc
    /\ UNCHANGED <<cluster, caches, serving, lock, draft, snap, moves>>

\* The timer runs out and its function starts on a goroutine. To stop the timer later
\* does not stop the function.
Fire(g) ==
    /\ timer
    /\ pc[g] = "idle"
    /\ timer' = FALSE
    /\ pc' = [pc EXCEPT ![g] = "lock"]
    /\ UNCHANGED <<cluster, caches, serving, lock, draft, snap, moves>>

Goto(g, label) == pc' = [pc EXCEPT ![g] = label]

\* Mutant: rebuilds are not serialised.
LockNothing(g) ==
    /\ pc[g] = "lock"
    /\ Goto(g, "cr")
    /\ UNCHANGED <<cluster, caches, timer, serving, lock, draft, snap, moves>>

Lock(g) ==
    /\ pc[g] = "lock" /\ lock = NoOne
    /\ lock' = g
    /\ Goto(g, "cr")
    /\ UNCHANGED <<cluster, caches, timer, serving, draft, snap, moves>>

Read(g, kind) == [draft[g].revs EXCEPT ![kind] = cacheRevs[kind]]

ListContextRoutes(g) ==
    /\ pc[g] = "cr"
    /\ draft' = [draft EXCEPT ![g].owners = Owners(cache.cr), ![g].revs = Read(g, "cr")]
    /\ Goto(g, "et")
    /\ UNCHANGED <<cluster, caches, timer, serving, lock, snap, moves>>

ListEdgeTransformations(g) ==
    /\ pc[g] = "et"
    /\ draft' = [draft EXCEPT ![g].et = cache.et, ![g].revs = Read(g, "et")]
    /\ Goto(g, "rr")
    /\ UNCHANGED <<cluster, caches, timer, serving, lock, snap, moves>>

ListRemoteRoutes(g) ==
    /\ pc[g] = "rr"
    /\ draft' = [draft EXCEPT ![g].rr = cache.rr, ![g].revs = Read(g, "rr")]
    /\ Goto(g, "svc")
    /\ UNCHANGED <<cluster, caches, timer, serving, lock, snap, moves>>

\* buildAltEntry, for the owners in any order: each lists the Services anew. The revision
\* is that of the first list.
ListServices(g, k) ==
    /\ pc[g] = "svc"
    /\ k \in DOMAIN draft[g].owners \ DOMAIN draft[g].alts
    /\ draft' = [draft EXCEPT
           ![g].alts = [j \in DOMAIN @ \cup {k} |->
               IF j = k THEN Alternatives(cache.svc, draft[g].owners[k]) ELSE @[j]],
           ![g].revs = IF draft[g].alts = <<>> THEN Read(g, "svc") ELSE @]
    /\ UNCHANGED <<cluster, caches, timer, serving, lock, pc, snap, moves>>

\* Mutant: the map of alternatives outlives the rebuild.
PublishKeeping(g) ==
    /\ pc[g] = "svc"
    /\ DOMAIN draft[g].owners \subseteq DOMAIN draft[g].alts
    /\ snap' = [revs    |-> IF draft[g].alts = <<>> THEN Read(g, "svc") ELSE draft[g].revs,
                entries |-> Entries(draft[g].owners, draft[g].alts, draft[g].et, draft[g].rr)]
    /\ lock' = NoOne
    /\ Goto(g, "idle")
    /\ draft' = [draft EXCEPT ![g] = [NoDraft EXCEPT !.alts = draft[g].alts]]
    /\ serving' = (serving \/ g = "start")
    /\ UNCHANGED <<cluster, caches, timer, moves>>

\* The swap, the end of the critical section and, for the first rebuild, the start of the
\* HTTP server. Without owners no Service was listed, and any revision is right.
Publish(g) ==
    /\ pc[g] = "svc"
    /\ DOMAIN draft[g].alts = DOMAIN draft[g].owners
    /\ snap' = [revs    |-> IF draft[g].alts = <<>> THEN Read(g, "svc") ELSE draft[g].revs,
                entries |-> Entries(draft[g].owners, draft[g].alts, draft[g].et, draft[g].rr)]
    /\ lock' = NoOne
    /\ Goto(g, "idle")
    /\ draft' = [draft EXCEPT ![g] = NoDraft]
    /\ serving' = (serving \/ g = "start")
    /\ UNCHANGED <<cluster, caches, timer, moves>>

Rebuild(g) == \/ Lock(g)
              \/ ListContextRoutes(g) \/ ListEdgeTransformations(g) \/ ListRemoteRoutes(g)
              \/ \E k \in Keys : ListServices(g, k)
              \/ Publish(g)

\* The process as Start leaves it after registering the handlers, which are called for all
\* that is in the synced caches: the first rebuild is next.
Fresh ==
    /\ cache' = store /\ cacheRevs' = revs
    /\ timer' = TRUE /\ serving' = FALSE
    /\ lock' = NoOne
    /\ pc' = [g \in Goroutine |-> IF g = "start" THEN "lock" ELSE "idle"]
    /\ draft' = [g \in Goroutine |-> NoDraft]
    /\ snap' = EmptySnapshot

Restart == Move /\ Fresh /\ UNCHANGED cluster

-----------------------------------------------------------------------------
Init ==
    /\ store \in Objects
    /\ revs = [k \in Kinds |-> 1]
    /\ cache = store /\ cacheRevs = revs
    /\ timer = TRUE /\ serving = FALSE
    /\ lock = NoOne
    /\ pc = [g \in Goroutine |-> IF g = "start" THEN "lock" ELSE "idle"]
    /\ draft = [g \in Goroutine |-> NoDraft]
    /\ snap = EmptySnapshot
    /\ moves = 0

Next ==
    \/ \E c \in CRs : \/ \E spec \in CRSpecs, time \in Times : SetContextRoute(c, spec, time)
                      \/ DeleteContextRoute(c)
    \/ \E s \in Targets, cookie \in Cookies \cup {NoCookie} : SetEdgeTransformation(s, cookie)
    \/ \E s \in Variants : \/ \E reachable \in Reachability : SetRemoteRoute(s, reachable)
                           \/ \E label \in Labels \cup {NoLabel} : SetService(s, label)
    \/ \E k \in Kinds : Deliver(k)
    \/ \E g \in Goroutine : Fire(g) \/ Rebuild(g)
    \/ Restart

Spec == Init /\ [][Next]_vars

\* Informers deliver, the timer runs out, and goroutines run and get the mutex in the end.
Fairness ==
    /\ \A k \in Kinds : WF_vars(Deliver(k))
    /\ \A g \in Goroutine : WF_vars(Rebuild(g))
    /\ WF_vars(\E g \in Goroutine : Fire(g))

-----------------------------------------------------------------------------
(* Properties. *)

TypeOK ==
    /\ store \in Objects /\ cache \in Objects
    /\ revs \in [Kinds -> Nat] /\ cacheRevs \in [Kinds -> Nat]
    /\ timer \in BOOLEAN /\ serving \in BOOLEAN
    /\ lock \in Goroutine \cup {NoOne}
    /\ pc \in [Goroutine -> {"idle", "lock", "cr", "et", "rr", "svc"}]
    /\ draft \in [Goroutine -> Draft]
    /\ \A g \in Goroutine : DOMAIN draft[g].alts \subseteq DOMAIN draft[g].owners
    /\ snap \in Snapshot
    /\ moves \in 0..MaxMoves

\* Nothing is under way.
Settled ==
    /\ cacheRevs = revs /\ ~timer
    /\ \A g \in Goroutine : pc[g] = "idle"

\* What the API should say of the cluster as it is.
Current ==
    {e \in TupleEntry : \E c \in CRs :
        LET cr == store.cr[c] IN
        /\ Owns(store.cr, c) /\ e.key = cr.key /\ e.service = cr.target
        /\ e.cookie = store.et[cr.target]
        /\ \/ e.alternative = Self /\ e.remote = "none"
           \/ /\ e.alternative # cr.target /\ e.alternative # Self
              /\ store.svc[e.alternative] = cr.selector
              /\ e.remote = store.rr[e.alternative]}

\* Once all is delivered and every rebuild is through, the snapshot is that of the cluster
\* as it is: no change falls between the lists, the debouncer and the swap, and of two
\* rebuilds the later one stays.
SnapshotIsCurrent == Settled => snap.entries = Current

\* The API shows the newest state of every kind in the end.
CatchesUp == <>[](snap.revs = revs)

\* The published revisions are a view in the sense of RoutingView.
View == INSTANCE RoutingView WITH source <- revs, view <- snap.revs

NeverGoesBack == View!Spec
=============================================================================
