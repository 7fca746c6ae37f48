------------------------ MODULE ContextRoutesProofs ------------------------
(***************************************************************************)
(* Theorems about ContextRoutes, for any set of routes, services, labels,  *)
(* keys and specs, and any number of user steps and faults.                *)
(***************************************************************************)
EXTENDS ContextRoutes, TLAPS

(* The absent objects have the types of the present ones. *)
LEMMA NullTypes ==
    /\ NoStatus \in Status
    /\ NoContextRoute \in ContextRoute
    /\ NoHTTPRoute \in HTTPRoute
  BY DEF NoStatus, Status, NoContextRoute, ContextRoute, NoHTTPRoute, HTTPRoute,
         Reasons, RoutingKeys

(* A namespaced name splits into a namespace and a name in use. *)
LEMMA RouteParts ==
    ASSUME NEW r \in Routes
    PROVE  Ns(r) \in Namespaces /\ Name(r) \in Names /\ Name(r) \in Nat \ {0}
  BY RoutesAssumption DEF Namespaces, Names, Ns, Name

(* What a user writes becomes a well-formed object. *)
LEMMA NewContextRouteType ==
    ASSUME NEW spec \in Specs, NEW uid \in Nat, NEW created \in Nat
    PROVE  NewContextRoute(spec, uid, created) \in ContextRoute
  BY NullTypes, BoundsAssumption DEF NewContextRoute, ContextRoute, ContextRouteSpec, NoContextRoute

(* setReadyCondition keeps a status well-formed. *)
LEMMA WithReadyType ==
    ASSUME NEW status \in Status, NEW reason \in Reasons, NEW generation \in Nat
    PROVE  WithReady(status, reason, generation) \in Status
  BY DEF WithReady, Status

(* The key in use is a key, and the rendered route a route. *)
LEMMA RenderType ==
    ASSUME NEW r \in Routes, NEW cr \in ContextRoute, NEW variants \in SUBSET Services
    PROVE  RenderHTTPRoute(r, cr, variants) \in HTTPRoute
  <1>1. EffectiveRoutingKey(r, cr) \in RoutingKeys
    BY RouteParts DEF EffectiveRoutingKey, RoutingKeys, ContextRoute
  <1>2. QED
    BY <1>1, RouteParts DEF RenderHTTPRoute, HTTPRoute, ContextRoute

(* Event mapping yields requests for ContextRoutes, and a route write keeps its types. *)
LEMMA SetHTTPRouteType ==
    ASSUME TypeOK, NEW k, NEW hr \in HTTPRoute, SetHTTPRoute(k, hr)
    PROVE  httproutes' \in [Slots -> HTTPRoute] /\ routeEvents' \subseteq Routes
  <1>1. httproutes' \in [Slots -> HTTPRoute]
    BY DEF TypeOK, SetHTTPRoute
  <1>2. \A h : MapHTTPRouteToCR(k, h) \subseteq Routes
    BY DEF MapHTTPRouteToCR
  <1>3. routeEvents' \subseteq Routes
    BY <1>2, Zenon DEF TypeOK, SetHTTPRoute
  <1>4. QED
    BY <1>1, <1>3

(* The worker's variables are well-formed after it has returned. *)
LEMMA RestType ==
    ASSUME Rest
    PROVE  /\ pc' \in PCs /\ job' \in Routes \cup {NoJob} /\ (pc' # "idle" => job' \in Routes)
           /\ snap' \in ContextRoute /\ draft' \in Status /\ desired' \in HTTPRoute
  BY NullTypes DEF Rest, PCs

LEMMA InitTypeOK == Init => TypeOK
  <1> SUFFICES ASSUME Init PROVE TypeOK
    OBVIOUS
  <1>1. \A spec \in Specs, t \in {0, 1} : NewContextRoute(spec, 1, t) \in ContextRoute
    BY NewContextRouteType
  <1>2. crs \in [Routes -> ContextRoute]
    BY <1>1, NullTypes DEF Init
  <1>3. uids \in [Routes -> Nat]
    BY <1>2 DEF Init, ContextRoute
  <1>4. services \in [Slots -> ServiceObject]
    BY BoundsAssumption DEF Init
  <1>5. httproutes \in [Slots -> HTTPRoute]
    BY NullTypes DEF Init
  <1>6. QED
    BY <1>2, <1>3, <1>4, <1>5, NullTypes, BoundsAssumption DEF Init, TypeOK, PCs

(* A user step keeps the types. *)
LEMMA UserTypeOK == TypeOK /\ User => TypeOK'
  <1> SUFFICES ASSUME TypeOK, User PROVE TypeOK'
    OBVIOUS
  <1> USE DEF TypeOK, vars, store, routes, caches, worker, bounds, Move
  <1>0. moves < MaxMoves /\ moves' = moves + 1 => moves' \in 0..MaxMoves
    BY BoundsAssumption
  <1>1. ASSUME NEW r \in Routes, NEW spec \in Specs, NEW sameSecond \in BOOLEAN,
               CreateContextRoute(r, spec, sameSecond)
        PROVE  TypeOK'
    <2>1. uids'[r] \in Nat /\ clock' \in Nat /\ uids' \in [Routes -> Nat]
      BY <1>1 DEF CreateContextRoute
    <2>2. NewContextRoute(spec, uids'[r], clock') \in ContextRoute
      BY <2>1, NewContextRouteType
    <2>3. crs' \in [Routes -> ContextRoute]
      BY <1>1, <2>2 DEF CreateContextRoute
    <2>4. QED
      BY <1>0, <1>1, <2>1, <2>3 DEF CreateContextRoute
  <1>2. ASSUME NEW r \in Routes, NEW spec \in Specs, EditContextRoute(r, spec)
        PROVE  TypeOK'
    <2>1. spec \in ContextRouteSpec
      BY BoundsAssumption
    <2>2. crs' \in [Routes -> ContextRoute]
      BY <1>2, <2>1 DEF EditContextRoute, ContextRoute, ContextRouteSpec
    <2>3. QED
      BY <1>0, <1>2, <2>2 DEF EditContextRoute
  <1>3. ASSUME NEW r \in Routes, DeleteContextRoute(r)
        PROVE  TypeOK'
    <2>1. \A n \in Nat : [crs[r] EXCEPT !.generation = n, !.deleting = TRUE] \in ContextRoute
      <3>1. crs[r] \in ContextRoute
        OBVIOUS
      <3>2. QED
        BY <3>1 DEF ContextRoute
    <2>2. crs[r].generation + 1 \in Nat
      BY DEF ContextRoute
    <2>3. crs' \in [Routes -> ContextRoute]
      <3>1. [crs[r] EXCEPT !.generation = crs[r].generation + 1, !.deleting = TRUE] \in ContextRoute
        BY <2>1, <2>2, Zenon
      <3>2. [crs EXCEPT ![r].generation = @ + 1, ![r].deleting = TRUE] \in [Routes -> ContextRoute]
        BY <3>1
      <3>3. [crs EXCEPT ![r] = NoContextRoute] \in [Routes -> ContextRoute]
        BY NullTypes
      <3>4. QED
        BY <1>3, <3>2, <3>3, Zenon DEF DeleteContextRoute
    <2>4. QED
      BY <1>0, <1>3, <2>3 DEF DeleteContextRoute
  <1>4. ASSUME NEW k \in Slots, NEW svc \in ServiceObjects, SetService(k, svc)
        PROVE  TypeOK'
    BY <1>0, <1>4, BoundsAssumption DEF SetService
  <1>5. ASSUME NEW k \in Slots, ToggleET(k)
        PROVE  TypeOK'
    BY <1>0, <1>5 DEF ToggleET
  <1>6. ASSUME NEW k \in Slots, DropHTTPRoute(k)
        PROVE  TypeOK'
    <2>1. httproutes' \in [Slots -> HTTPRoute] /\ routeEvents' \subseteq Routes
      BY <1>6, SetHTTPRouteType, NullTypes DEF DropHTTPRoute
    <2>2. QED
      BY <1>0, <1>6, <2>1 DEF DropHTTPRoute
  <1>7. QED
    BY <1>1, <1>2, <1>3, <1>4, <1>5, <1>6 DEF User

(* A delivery and the garbage collector keep the types. *)
LEMMA DeliverTypeOK ==
    ASSUME TypeOK,
           Deliver \/ \E k \in Slots : CollectHTTPRoute(k)
    PROVE  TypeOK'
  <1> USE DEF TypeOK, vars, store, routes, caches, worker, bounds, Move
  <1>1. ASSUME NEW r \in Routes, DeliverContextRoute(r)
        PROVE  TypeOK'
    BY <1>1 DEF DeliverContextRoute
  <1>2. ASSUME NEW r \in Routes, DeliverHTTPRoute(r)
        PROVE  TypeOK'
    BY <1>2 DEF DeliverHTTPRoute
  <1>3. ASSUME NEW k \in Slots, DeliverService(k)
        PROVE  TypeOK'
    <2>1. \A svc : MapServiceToCRs(k, svc) \subseteq Routes
      BY DEF MapServiceToCRs
    <2>2. queue' \subseteq Routes
      BY <1>3, <2>1, Zenon DEF DeliverService
    <2>3. QED
      BY <1>3, <2>2 DEF DeliverService
  <1>4. ASSUME NEW k \in Slots, DeliverET(k)
        PROVE  TypeOK'
    <2>1. queue' \subseteq Routes
      BY <1>4 DEF DeliverET, MapETToCR
    <2>2. QED
      BY <1>4, <2>1 DEF DeliverET
  <1>5. ASSUME NEW k \in Slots, CollectHTTPRoute(k)
        PROVE  TypeOK'
    <2>1. httproutes' \in [Slots -> HTTPRoute] /\ routeEvents' \subseteq Routes
      BY <1>5, SetHTTPRouteType, NullTypes DEF CollectHTTPRoute
    <2>2. QED
      BY <1>5, <2>1 DEF CollectHTTPRoute
  <1>6. QED
    BY <1>1, <1>2, <1>3, <1>4, <1>5 DEF Deliver

(* What is written into the status is the draft, with a time of its own. *)
SameButTime(written, status) ==
    /\ written.target = status.target /\ written.variants = status.variants
    /\ written.ready = status.ready /\ written.reason = status.reason
    /\ written.observed = status.observed /\ written.conflict = status.conflict

LEMMA StatusWritten ==
    ASSUME TypeOK, UpdateStatus
    PROVE  \E written \in Status : /\ crs' = [crs EXCEPT ![job].status = written]
                                   /\ SameButTime(written, draft)
  <1>1. PICK stamp \in BOOLEAN : crs' = [crs EXCEPT ![job].status = [draft EXCEPT !.stamp = stamp]]
    BY DEF UpdateStatus, TypeOK, Status
  <1>2. [draft EXCEPT !.stamp = stamp] \in Status /\ SameButTime([draft EXCEPT !.stamp = stamp], draft)
    BY DEF TypeOK, Status, SameButTime
  <1>3. QED
    BY <1>1, <1>2

(* Taking a request and every step of the worker keep the types. *)
LEMMA WorkerTypeOK ==
    ASSUME TypeOK, Step \/ \E r \in Routes : TakeRequest(r)
    PROVE  TypeOK'
  <1> USE DEF TypeOK, vars, store, routes, caches, worker, bounds
  <1>1. ASSUME NEW r \in Routes, TakeRequest(r)
        PROVE  TypeOK'
    <2>1. CASE Rest
      BY <1>1, <2>1, RestType DEF TakeRequest
    <2>2. CASE ~Rest
      <3>1. [cacheCRs[r].status EXCEPT !.target = cacheCRs[r].target] \in Status
        BY DEF ContextRoute, Status
      <3>2. snap' \in ContextRoute /\ draft' \in Status /\ pc' \in PCs /\ job' \in Routes
        BY <1>1, <2>2, <3>1 DEF TakeRequest, Begin, ContextRoute, PCs
      <3>3. desired' \in HTTPRoute /\ queue' \subseteq Routes
        BY <1>1, <2>2 DEF TakeRequest, Begin
      <3>4. QED
        BY <1>1, <3>2, <3>3 DEF TakeRequest
    <2>3. QED
      BY <2>1, <2>2
  <1>2. CASE ReleaseHTTPRoute
    <2>1. httproutes' \in [Slots -> HTTPRoute] /\ routeEvents' \subseteq Routes
      BY <1>2, SetHTTPRouteType, NullTypes DEF ReleaseHTTPRoute, DeleteOwnedHTTPRoute
    <2>2. QED
      BY <1>2, <2>1 DEF ReleaseHTTPRoute, Goto, PCs
  <1>3. CASE UpdateFinalizer
    <2>1. job \in Routes /\ queue' \subseteq Routes
      BY <1>3 DEF UpdateFinalizer, Done, Retry
    <2>2. crs' \in [Routes -> ContextRoute]
      <3>1. [crs[job] EXCEPT !.finalizer = TRUE] \in ContextRoute
        BY <2>1 DEF ContextRoute
      <3>2. [crs EXCEPT ![job].finalizer = TRUE] \in [Routes -> ContextRoute]
        BY <2>1, <3>1
      <3>3. [crs EXCEPT ![job] = NoContextRoute] \in [Routes -> ContextRoute]
        BY <2>1, NullTypes
      <3>4. QED
        BY <1>3, <3>2, <3>3, Zenon DEF UpdateFinalizer
    <2>3. Rest
      BY <1>3 DEF UpdateFinalizer, Done, Retry
    <2>4. QED
      BY <1>3, <2>1, <2>2, <2>3, RestType DEF UpdateFinalizer
  <1>4. CASE TargetConflict
    <2>1. PICK w \in Routes :
             draft' = WithReady([draft EXCEPT !.conflict = Name(w), !.variants = {}],
                                "Conflict", snap.generation)
      BY <1>4 DEF TargetConflict
    <2>2. [draft EXCEPT !.conflict = Name(w), !.variants = {}] \in Status
      BY RouteParts DEF Status
    <2>3. draft' \in Status
      BY <2>1, <2>2, WithReadyType DEF Reasons, ContextRoute
    <2>4. QED
      BY <1>4, <2>3 DEF TargetConflict, Goto, PCs
  <1>5. CASE RoutingKeyConflict
    <2>1. [draft EXCEPT !.conflict = 0, !.variants = {}] \in Status
      BY DEF Status
    <2>2. draft' \in Status
      BY <1>5, <2>1, WithReadyType DEF RoutingKeyConflict, Reasons, ContextRoute
    <2>3. QED
      BY <1>5, <2>2 DEF RoutingKeyConflict, Goto, PCs
  <1>6. CASE NoConflict
    <2>1. draft' \in Status
      BY <1>6 DEF NoConflict, Status
    <2>2. QED
      BY <1>6, <2>1 DEF NoConflict, Goto, PCs
  <1>7. CASE RejectTarget
    <2>1. draft' \in Status
      BY <1>7, WithReadyType DEF RejectTarget, Reasons, ContextRoute
    <2>2. QED
      BY <1>7, <2>1 DEF RejectTarget, Goto, PCs
  <1>8. CASE RejectSelector
    <2>1. queue' \subseteq Routes
      BY <1>8 DEF RejectSelector, Retry
    <2>2. QED
      BY <1>8, <2>1, RestType DEF RejectSelector, Retry
  <1>9. CASE PlanHTTPRoute
    <2> DEFINE variants == Variants(Ns(job), snap)
               reason == IF <<Ns(job), snap.target>> \in cacheETs
                         THEN "DelegatedToEdgeTransformation" ELSE "Reconciled"
    <2>1. job \in Routes /\ variants \in SUBSET Services
      BY <1>9 DEF PlanHTTPRoute, Variants
    <2>2. desired' \in HTTPRoute
      BY <1>9, <2>1, RenderType, NullTypes DEF PlanHTTPRoute
    <2>3. [draft EXCEPT !.variants = variants] \in Status
      BY <2>1 DEF Status
    <2>4. reason \in Reasons /\ snap.generation \in Nat
      BY DEF Reasons, ContextRoute
    <2>5. draft' = WithReady([draft EXCEPT !.variants = variants], reason, snap.generation)
      BY <1>9 DEF PlanHTTPRoute
    <2>6. draft' \in Status
      BY <2>3, <2>4, <2>5, WithReadyType
    <2>7. QED
      BY <1>9, <2>2, <2>6 DEF PlanHTTPRoute, Goto, PCs
  <1>10. CASE ApplyHTTPRoute
    <2>1. httproutes' \in [Slots -> HTTPRoute] /\ routeEvents' \subseteq Routes
      BY <1>10, SetHTTPRouteType DEF ApplyHTTPRoute
    <2>2. QED
      BY <1>10, <2>1 DEF ApplyHTTPRoute, Goto, PCs
  <1>11. CASE DropDelegatedHTTPRoute
    <2>1. httproutes' \in [Slots -> HTTPRoute] /\ routeEvents' \subseteq Routes
      BY <1>11, SetHTTPRouteType, NullTypes DEF DropDelegatedHTTPRoute, DeleteOwnedHTTPRoute
    <2>2. QED
      BY <1>11, <2>1 DEF DropDelegatedHTTPRoute, Goto, PCs
  <1>12. CASE UpdateStatus
    <2>1. job \in Routes
      BY <1>12 DEF UpdateStatus, PCs
    <2>2. PICK written \in Status : crs' = [crs EXCEPT ![job].status = written]
      BY <1>12, StatusWritten
    <2>3. crs' \in [Routes -> ContextRoute]
      BY <2>1, <2>2 DEF ContextRoute
    <2>4. QED
      BY <1>12, <2>3, RestType DEF UpdateStatus, Done
  <1>13. CASE UpdateRefused
    <2>1. queue' \subseteq Routes
      BY <1>13 DEF UpdateRefused, Retry
    <2>2. QED
      BY <1>13, <2>1, RestType DEF UpdateRefused, Retry
  <1>14. QED
    BY <1>1, <1>2, <1>3, <1>4, <1>5, <1>6, <1>7, <1>8, <1>9, <1>10, <1>11, <1>12, <1>13
       DEF Step

(* A failed write and a restart keep the types. *)
LEMMA FaultTypeOK == TypeOK /\ (WriteFails \/ Restart) => TypeOK'
  <1> SUFFICES ASSUME TypeOK, WriteFails \/ Restart PROVE TypeOK'
    OBVIOUS
  <1> USE DEF TypeOK, vars, store, routes, caches, worker, bounds, Move
  <1>0. moves < MaxMoves /\ moves' = moves + 1 => moves' \in 0..MaxMoves
    BY BoundsAssumption
  <1>1. CASE WriteFails
    <2>1. queue' \subseteq Routes
      BY <1>1 DEF WriteFails, Retry, PCs
    <2>2. QED
      BY <1>0, <1>1, <2>1, RestType DEF WriteFails, Retry
  <1>2. CASE Restart
    <2>1. \A k, h : MapHTTPRouteToCR(k, h) \subseteq Routes
      BY DEF MapHTTPRouteToCR
    <2>2. queue' \subseteq Routes
      BY <1>2, <2>1 DEF Restart
    <2>3. QED
      BY <1>0, <1>2, <2>2, RestType DEF Restart
  <1>3. QED
    BY <1>1, <1>2

(* Every step keeps the types. *)
LEMMA NextTypeOK == TypeOK /\ [Next]_vars => TypeOK'
  <1> SUFFICES ASSUME TypeOK, [Next]_vars PROVE TypeOK'
    OBVIOUS
  <1>1. CASE UNCHANGED vars
    BY <1>1 DEF TypeOK, vars, store, routes, caches, worker, bounds
  <1>2. CASE Next
    BY <1>2, UserTypeOK, DeliverTypeOK, WorkerTypeOK, FaultTypeOK DEF Next
  <1>3. QED
    BY <1>1, <1>2

(* TypeOK is an invariant: in particular the status the reconciler writes is always  *)
(* one its type allows, and requests only ever name ContextRoutes.                   *)
THEOREM TypeCorrect == Spec => []TypeOK
  <1>1. Init => TypeOK
    BY InitTypeOK
  <1>2. TypeOK /\ [Next]_vars => TypeOK'
    BY NextTypeOK
  <1>3. QED
    BY <1>1, <1>2, PTL DEF Spec

-----------------------------------------------------------------------------
(* The finalizer. *)

(* Whoever leaves the ContextRoutes, their cache and the worker alone keeps FinalizerInv. *)
LEMMA FinalizerFrame ==
    ASSUME FinalizerInv, UNCHANGED <<crs, cacheCRs, uids, pc, job, snap, desired>>
    PROVE  FinalizerInv'
  BY DEF FinalizerInv, UidsHandedOut, CacheHolds, WorkerHolds, DeletionKnown, DeletionServed,
         DesiredNamesJob

(* A worker that returns without writing a ContextRoute keeps FinalizerInv. *)
LEMMA FinalizerRest ==
    ASSUME FinalizerInv, Rest, UNCHANGED <<crs, cacheCRs, uids>>
    PROVE  FinalizerInv'
  BY DEF FinalizerInv, UidsHandedOut, CacheHolds, WorkerHolds, DeletionKnown, DeletionServed,
         DesiredNamesJob, Rest

(* A worker that goes on to its next write with the same snapshot keeps FinalizerInv. *)
LEMMA FinalizerGoto ==
    ASSUME FinalizerInv, UNCHANGED <<crs, cacheCRs, uids, job, snap>>,
           pc # "idle",
           pc' \in {"check", "resolve", "route"} => pc \in {"check", "resolve", "route"},
           desired' # NoHTTPRoute => /\ pc' \in {"route", "status"}
                                     /\ desired'.owner = Name(job) /\ desired'.uid = snap.uid
    PROVE  FinalizerInv'
  BY DEF FinalizerInv, UidsHandedOut, CacheHolds, WorkerHolds, DeletionKnown, DeletionServed,
         DesiredNamesJob

LEMMA FinalizerInit == Init => FinalizerInv
  <1> SUFFICES ASSUME Init PROVE FinalizerInv
    OBVIOUS
  <1>1. TypeOK
    BY InitTypeOK
  <1>2. \A r \in Routes : crs[r].uid \in Nat /\ uids[r] = crs[r].uid
    BY <1>1 DEF TypeOK, Init, ContextRoute
  <1>3. cacheCRs = crs /\ pc = "idle" /\ desired = NoHTTPRoute
    BY DEF Init
  <1>4. QED
    BY <1>2, <1>3 DEF Held, FinalizerInv, UidsHandedOut, CacheHolds, WorkerHolds, DeletionKnown,
                DeletionServed, DesiredNamesJob

(* A user who makes a ContextRoute makes one with a UID no cache and no worker knows. *)
LEMMA FinalizerCreate ==
    ASSUME TypeOK, FinalizerInv,
           NEW r \in Routes, NEW spec \in Specs, NEW sameSecond \in BOOLEAN,
           CreateContextRoute(r, spec, sameSecond)
    PROVE  FinalizerInv'
  <1> USE DEF FinalizerInv, Held, Exists
  <1>1. UNCHANGED <<cacheCRs, pc, job, snap, desired>>
    BY DEF CreateContextRoute, caches, worker
  <1>2. /\ crs[r].uid = 0 /\ uids[r] \in Nat
        /\ uids' = [uids EXCEPT ![r] = uids[r] + 1] /\ uids'[r] = uids[r] + 1
        /\ crs'[r].uid = uids[r] + 1 /\ ~crs'[r].deleting
        /\ \A s \in Routes \ {r} : crs'[s] = crs[s] /\ uids'[s] = uids[s]
    BY DEF CreateContextRoute, TypeOK, NewContextRoute, NoContextRoute
  <1>3. \A s \in Routes : /\ crs[s].uid \in Nat /\ cacheCRs[s].uid \in Nat
                          /\ uids[s] \in Nat
    BY DEF TypeOK, ContextRoute
  <1>4. snap.uid \in Nat /\ (pc # "idle" => job \in Routes)
    BY DEF TypeOK, ContextRoute
  <1>5. UidsHandedOut'
    BY <1>1, <1>2, <1>3, <1>4 DEF UidsHandedOut
  <1>6. CacheHolds'
    BY <1>1, <1>2 DEF CacheHolds
  <1>7. WorkerHolds'
    BY <1>1, <1>2, <1>4 DEF WorkerHolds
  <1>8. DeletionKnown'
    BY <1>1, <1>2, <1>3 DEF DeletionKnown, UidsHandedOut
  <1>9. DeletionServed'
    BY <1>1, <1>2, <1>3, <1>4 DEF DeletionServed, UidsHandedOut
  <1>10. DesiredNamesJob'
    BY <1>1 DEF DesiredNamesJob
  <1>11. QED
    BY <1>5, <1>6, <1>7, <1>8, <1>9, <1>10

(* A user's edit or deletion spares what is held: it changes no UID and takes no finalizer. *)
LEMMA FinalizerEditDelete ==
    ASSUME TypeOK, FinalizerInv, NEW r \in Routes,
           DeleteContextRoute(r) \/ \E spec \in Specs : EditContextRoute(r, spec)
    PROVE  FinalizerInv'
  <1> USE DEF FinalizerInv, Held, Exists
  <1>1. UNCHANGED <<cacheCRs, uids, pc, job, snap, desired>>
    BY DEF EditContextRoute, DeleteContextRoute, caches, worker
  <1>2. \A s \in Routes \ {r} : crs'[s] = crs[s]
    BY DEF TypeOK, EditContextRoute, DeleteContextRoute
  <1>3. \/ /\ crs'[r].uid = crs[r].uid /\ crs'[r].finalizer = crs[r].finalizer
           /\ crs[r].deleting => crs'[r].deleting
        \/ crs'[r].uid = 0 /\ ~crs[r].finalizer
    <2>1. ASSUME NEW spec \in Specs, EditContextRoute(r, spec)
          PROVE  /\ crs'[r].uid = crs[r].uid /\ crs'[r].finalizer = crs[r].finalizer
                 /\ crs'[r].deleting = crs[r].deleting
      <3>1. crs'[r] = [crs[r] EXCEPT !.generation = crs[r].generation + 1, !.target = spec.target,
                                     !.selector = spec.selector, !.key = spec.key]
        BY <2>1 DEF TypeOK, EditContextRoute
      <3>2. crs[r] \in ContextRoute
        BY DEF TypeOK
      <3>3. QED
        BY <3>1, <3>2 DEF ContextRoute
    <2>2. CASE DeleteContextRoute(r) /\ crs[r].finalizer
      BY <2>2 DEF TypeOK, DeleteContextRoute, ContextRoute
    <2>3. CASE DeleteContextRoute(r) /\ ~crs[r].finalizer
      BY <2>3 DEF TypeOK, DeleteContextRoute, NoContextRoute
    <2>4. QED
      BY <2>1, <2>2, <2>3
  <1>4. \A s \in Routes : /\ crs[s].uid \in Nat /\ uids[s] \in Nat
    BY DEF TypeOK, ContextRoute
  <1>5. pc # "idle" => job \in Routes
    BY DEF TypeOK
  <1>6. UidsHandedOut'
    BY <1>1, <1>2, <1>3, <1>4 DEF UidsHandedOut
  <1>7. CacheHolds'
    BY <1>1, <1>2, <1>3 DEF CacheHolds
  <1>8. WorkerHolds'
    BY <1>1, <1>2, <1>3, <1>5 DEF WorkerHolds
  <1>9. DeletionKnown'
    BY <1>1, <1>2, <1>3 DEF DeletionKnown
  <1>10. DeletionServed'
    BY <1>1, <1>2, <1>3, <1>5 DEF DeletionServed
  <1>11. DesiredNamesJob'
    BY <1>1 DEF DesiredNamesJob
  <1>12. QED
    BY <1>6, <1>7, <1>8, <1>9, <1>10, <1>11

(* A cache that catches up keeps FinalizerInv, whether by one event or by a restart. *)
LEMMA FinalizerCatchUp ==
    ASSUME TypeOK, FinalizerInv, UNCHANGED <<crs, uids>>,
           \A r \in Routes : cacheCRs'[r] = cacheCRs[r] \/ cacheCRs'[r] = crs[r],
           UNCHANGED <<pc, job, snap, desired>> \/ Rest
    PROVE  FinalizerInv'
  <1> USE DEF FinalizerInv, Held, Exists
  <1>1. pc # "idle" => job \in Routes
    BY DEF TypeOK
  <1>2. UidsHandedOut'
    BY DEF UidsHandedOut, Rest
  <1>3. CacheHolds'
    BY DEF CacheHolds
  <1>4. WorkerHolds'
    BY DEF WorkerHolds, Rest
  <1>5. DeletionKnown'
    BY DEF DeletionKnown
  <1>6. DeletionServed'
    BY <1>1 DEF DeletionServed, Rest
  <1>7. DesiredNamesJob'
    BY DEF DesiredNamesJob, Rest
  <1>8. QED
    BY <1>2, <1>3, <1>4, <1>5, <1>6, <1>7

(* The worker starts on what a cache shows, and CacheHolds and DeletionKnown carry over. *)
LEMMA FinalizerTake ==
    ASSUME TypeOK, FinalizerInv, NEW r \in Routes, TakeRequest(r)
    PROVE  FinalizerInv'
  <1>1. UNCHANGED <<crs, cacheCRs, uids>>
    BY DEF TakeRequest, store, caches, bounds
  <1>2. CASE Rest
    BY <1>1, <1>2, FinalizerRest
  <1>3. CASE ~Rest
    <2> USE DEF FinalizerInv, Held, Exists
    <2>1. /\ job' = r /\ snap' = cacheCRs[r] /\ desired' = desired /\ pc = "idle"
          /\ Exists(cacheCRs[r])
          /\ pc' \in {"check", "resolve", "route"} =>
                cacheCRs[r].finalizer /\ ~cacheCRs[r].deleting
      BY <1>3 DEF TakeRequest, Begin
    <2>2. UidsHandedOut'
      BY <1>1, <2>1 DEF UidsHandedOut
    <2>3. CacheHolds' /\ DeletionKnown'
      BY <1>1 DEF CacheHolds, DeletionKnown
    <2>4. WorkerHolds'
      BY <1>1, <2>1 DEF WorkerHolds, CacheHolds
    <2>5. DeletionServed'
      BY <1>1, <2>1 DEF DeletionServed, DeletionKnown
    <2>6. DesiredNamesJob'
      BY <2>1 DEF DesiredNamesJob
    <2>7. QED
      BY <2>2, <2>3, <2>4, <2>5, <2>6
  <1>4. QED
    BY <1>2, <1>3

(* Adding the finalizer, or removing it with the object: no cache shows as held what   *)
(* goes, since the deletion being served is in every version from then on.             *)
LEMMA FinalizerUpdate ==
    ASSUME TypeOK, FinalizerInv, UpdateFinalizer
    PROVE  FinalizerInv'
  <1> USE DEF FinalizerInv, Held, Exists
  <1>1. /\ UNCHANGED <<cacheCRs, uids>> /\ Rest
        /\ pc = "finalizer" /\ job \in Routes /\ crs[job] = snap
    BY DEF TypeOK, UpdateFinalizer, caches, bounds, Done, Retry, Fresh
  <1>2. \A s \in Routes : crs[s].uid \in Nat /\ uids[s] \in Nat
    BY DEF TypeOK, ContextRoute
  <1>3. \A s \in Routes \ {job} : crs'[s] = crs[s]
    BY <1>1 DEF TypeOK, UpdateFinalizer
  <1>4. WorkerHolds' /\ DeletionServed' /\ DesiredNamesJob'
    BY <1>1 DEF WorkerHolds, DeletionServed, DesiredNamesJob, Rest
  <1>5. CASE snap.deleting
    <2>1. crs'[job].uid = 0
      BY <1>1, <1>5 DEF UpdateFinalizer, TypeOK, NoContextRoute
    <2>2. ~Held(cacheCRs[job])
      BY <1>1, <1>5 DEF CacheHolds, DeletionServed
    <2>3. UidsHandedOut'
      BY <1>1, <1>2, <1>3, <2>1 DEF UidsHandedOut, Rest
    <2>4. CacheHolds'
      BY <1>1, <1>3, <2>2 DEF CacheHolds
    <2>5. DeletionKnown'
      BY <1>1, <1>3, <2>1 DEF DeletionKnown
    <2>6. QED
      BY <1>4, <2>3, <2>4, <2>5
  <1>6. CASE ~snap.deleting
    <2>1. /\ crs'[job].uid = crs[job].uid /\ crs'[job].finalizer
          /\ crs'[job].deleting = crs[job].deleting
      BY <1>1, <1>6 DEF UpdateFinalizer, TypeOK, ContextRoute
    <2>2. UidsHandedOut'
      BY <1>1, <1>3, <2>1 DEF UidsHandedOut, Rest
    <2>3. CacheHolds'
      BY <1>1, <1>3, <2>1 DEF CacheHolds
    <2>4. DeletionKnown'
      BY <1>1, <1>3, <2>1 DEF DeletionKnown
    <2>5. QED
      BY <1>4, <2>2, <2>3, <2>4
  <1>7. QED
    BY <1>5, <1>6

(* A status update changes nothing the invariant is about. *)
LEMMA FinalizerStatus ==
    ASSUME TypeOK, FinalizerInv, UpdateStatus
    PROVE  FinalizerInv'
  <1> USE DEF FinalizerInv, Held, Exists
  <1>1. UNCHANGED <<cacheCRs, uids>> /\ Rest /\ job \in Routes
    BY DEF TypeOK, UpdateStatus, caches, bounds, Done
  <1>2. \A s \in Routes : /\ crs'[s].uid = crs[s].uid /\ crs'[s].finalizer = crs[s].finalizer
                          /\ crs'[s].deleting = crs[s].deleting
    <2>1. PICK written \in Status : crs' = [crs EXCEPT ![job].status = written]
      BY StatusWritten
    <2>2. QED
      BY <1>1, <2>1 DEF TypeOK, ContextRoute
  <1>3. UidsHandedOut' /\ CacheHolds' /\ DeletionKnown'
    BY <1>1, <1>2 DEF UidsHandedOut, CacheHolds, DeletionKnown, Rest
  <1>4. WorkerHolds' /\ DeletionServed' /\ DesiredNamesJob'
    BY <1>1 DEF WorkerHolds, DeletionServed, DesiredNamesJob, Rest
  <1>5. QED
    BY <1>3, <1>4

(* Every step keeps FinalizerInv. *)
LEMMA FinalizerNext == TypeOK /\ FinalizerInv /\ [Next]_vars => FinalizerInv'
  <1> SUFFICES ASSUME TypeOK, FinalizerInv, [Next]_vars PROVE FinalizerInv'
    OBVIOUS
  <1> USE DEF vars, store, caches, worker, bounds
  <1>1. CASE UNCHANGED vars
    BY <1>1, FinalizerFrame
  <1>2. CASE User
    <2>1. ASSUME NEW k \in Slots,
                 ToggleET(k) \/ DropHTTPRoute(k) \/ \E svc \in ServiceObjects : SetService(k, svc)
          PROVE  FinalizerInv'
      BY <2>1, FinalizerFrame DEF ToggleET, DropHTTPRoute, SetService
    <2>2. QED
      BY <1>2, <2>1, FinalizerCreate, FinalizerEditDelete DEF User
  <1>3. CASE Deliver
    <2>1. ASSUME NEW r \in Routes, DeliverContextRoute(r)
          PROVE  FinalizerInv'
      BY <2>1, FinalizerCatchUp DEF DeliverContextRoute, TypeOK
    <2>2. ASSUME NEW r \in Routes, DeliverHTTPRoute(r)
          PROVE  FinalizerInv'
      BY <2>2, FinalizerFrame DEF DeliverHTTPRoute
    <2>3. ASSUME NEW k \in Slots, DeliverService(k) \/ DeliverET(k)
          PROVE  FinalizerInv'
      BY <2>3, FinalizerFrame DEF DeliverService, DeliverET
    <2>4. QED
      BY <1>3, <2>1, <2>2, <2>3 DEF Deliver
  <1>4. ASSUME NEW k \in Slots, CollectHTTPRoute(k)
        PROVE  FinalizerInv'
    BY <1>4, FinalizerFrame DEF CollectHTTPRoute
  <1>5. CASE RejectSelector \/ UpdateRefused \/ WriteFails
    BY <1>5, FinalizerRest DEF RejectSelector, UpdateRefused, WriteFails, Retry
  <1>6. CASE Restart
    BY <1>6, FinalizerCatchUp DEF Restart
  <1>7. CASE ReleaseHTTPRoute \/ TargetConflict \/ RoutingKeyConflict \/ NoConflict \/ RejectTarget
    <2>1. /\ UNCHANGED <<crs, cacheCRs, uids, job, snap, desired>>
          /\ pc \in {"release", "check", "resolve"}
          /\ pc' \in {"check", "resolve", "route"} => pc \in {"check", "resolve", "route"}
      BY <1>7 DEF ReleaseHTTPRoute, TargetConflict, RoutingKeyConflict, NoConflict, RejectTarget,
                  Goto
    <2>2. desired' = NoHTTPRoute
      BY <2>1 DEF FinalizerInv, DesiredNamesJob
    <2>3. QED
      BY <2>1, <2>2, FinalizerGoto
  <1>8. CASE PlanHTTPRoute
    <2>1. /\ UNCHANGED <<crs, cacheCRs, uids, job, snap>>
          /\ pc = "resolve" /\ pc' = "route"
          /\ desired' # NoHTTPRoute => desired'.owner = Name(job) /\ desired'.uid = snap.uid
      BY <1>8 DEF PlanHTTPRoute, Goto, RenderHTTPRoute
    <2>2. QED
      BY <2>1, FinalizerGoto
  <1>9. CASE ApplyHTTPRoute \/ DropDelegatedHTTPRoute
    <2>1. /\ UNCHANGED <<crs, cacheCRs, uids, job, snap, desired>>
          /\ pc = "route" /\ pc' = "status"
      BY <1>9 DEF ApplyHTTPRoute, DropDelegatedHTTPRoute, Goto
    <2>2. desired' # NoHTTPRoute => desired'.owner = Name(job) /\ desired'.uid = snap.uid
      BY <2>1 DEF FinalizerInv, DesiredNamesJob
    <2>3. QED
      BY <2>1, <2>2, FinalizerGoto
  <1>10. QED
    BY <1>1, <1>2, <1>3, <1>4, <1>5, <1>6, <1>7, <1>8, <1>9,
       FinalizerTake, FinalizerUpdate, FinalizerStatus DEF Next, Step

(* The strengthened invariant holds of every behaviour, however far caches lag and      *)
(* however often the operator fails or restarts.                                        *)
THEOREM FinalizerInvariant == Spec => []FinalizerInv
  <1>1. Init => FinalizerInv
    BY FinalizerInit
  <1>2. TypeOK /\ FinalizerInv /\ [Next]_vars => FinalizerInv'
    BY FinalizerNext
  <1>3. QED
    BY <1>1, <1>2, TypeCorrect, PTL DEF Spec

(* Only an apply writes a route, and WorkerHolds is about the ContextRoute it names. *)
LEMMA FinalizerHoldsOwnerStep ==
    ASSUME TypeOK, FinalizerInv, [Next]_vars, NEW k \in Slots,
           httproutes'[k] # httproutes[k], httproutes'[k] # NoHTTPRoute
    PROVE  \E r \in Routes : /\ Ns(r) = k[1] /\ Name(r) = httproutes'[k].owner
                             /\ crs[r].uid = httproutes'[k].uid /\ crs[r].finalizer
  <1> USE DEF vars, store, routes
  <1>1. \A s : SetHTTPRoute(s, NoHTTPRoute) => httproutes'[k] \in {httproutes[k], NoHTTPRoute}
    BY DEF SetHTTPRoute, TypeOK
  <1>2. ApplyHTTPRoute
    <2>1. ~\E s : SetHTTPRoute(s, NoHTTPRoute)
      BY <1>1
    <2>2. ~User
      BY <2>1 DEF User, CreateContextRoute, EditContextRoute, DeleteContextRoute, SetService,
                  ToggleET, DropHTTPRoute
    <2>3. ~Deliver
      BY DEF Deliver, DeliverContextRoute, DeliverHTTPRoute, DeliverService, DeliverET
    <2>4. ~\E r \in Routes : TakeRequest(r)
      BY DEF TakeRequest
    <2>5. ~\E s \in Slots : CollectHTTPRoute(s)
      BY <2>1 DEF CollectHTTPRoute
    <2>6. ~WriteFails /\ ~Restart
      BY DEF WriteFails, Restart
    <2>7. Step
      BY <2>2, <2>3, <2>4, <2>5, <2>6 DEF Next
    <2>8. ~(ReleaseHTTPRoute \/ DropDelegatedHTTPRoute)
      BY <2>1 DEF ReleaseHTTPRoute, DropDelegatedHTTPRoute, DeleteOwnedHTTPRoute
    <2>9. QED
      BY <2>7, <2>8 DEF Step, UpdateFinalizer, TargetConflict, RoutingKeyConflict, NoConflict,
            RejectTarget, RejectSelector, PlanHTTPRoute, UpdateStatus, UpdateRefused
  <1>3. httproutes' = [httproutes EXCEPT ![<<Ns(job), snap.target>>] = desired]
    BY <1>2 DEF ApplyHTTPRoute, SetHTTPRoute
  <1>4. k = <<Ns(job), snap.target>> /\ httproutes'[k] = desired
    BY <1>3 DEF TypeOK
  <1>5. pc = "route" /\ job \in Routes /\ desired # NoHTTPRoute
    BY <1>2 DEF ApplyHTTPRoute, TypeOK
  <1>6. desired.owner = Name(job) /\ desired.uid = crs[job].uid /\ crs[job].finalizer
    BY <1>5 DEF FinalizerInv, WorkerHolds, DesiredNamesJob
  <1>7. QED
    BY <1>4, <1>5, <1>6

(* No reconcile, whatever its caches show, creates or takes over a route for a           *)
(* ContextRoute that is gone or that has no finalizer.                                   *)
THEOREM RoutesAreHeld == Spec => FinalizerHoldsOwner
  <1>1. TypeOK /\ FinalizerInv /\ [Next]_vars =>
          [\A k \in Slots :
              httproutes'[k] # httproutes[k] /\ httproutes'[k] # NoHTTPRoute =>
                 \E r \in Routes : /\ Ns(r) = k[1] /\ Name(r) = httproutes'[k].owner
                                   /\ crs[r].uid = httproutes'[k].uid /\ crs[r].finalizer]_vars
    BY FinalizerHoldsOwnerStep
  <1>2. QED
    BY <1>1, TypeCorrect, FinalizerInvariant, PTL DEF Spec, FinalizerHoldsOwner


-----------------------------------------------------------------------------
(* What is left when all is quiet. *)

(* Something will have r reconciled again. *)
Pending(r) == r \in queue \cup routeEvents

Busy(r) == pc # "idle" /\ job = r

Slot(r, cr) == <<Ns(r), cr.target>>

(* The route r has for the version cr of it and the present caches. *)
PresentRoute(r, cr) == RenderHTTPRoute(r, cr, Variants(Ns(r), cr))

(* The status is the one a reconcile of cr would write, as far as it depends on r's own   *)
(* target, and the route is as that status says. Whether r was turned away depends on the *)
(* other ContextRoutes, whose events do not wake r: here it may be out of date.           *)
Reconciled(r, cr, status) ==
    LET kind == cacheServices[Slot(r, cr)].kind IN
    /\ status.observed = cr.generation
    /\ status.reason \notin {"Conflict", "RoutingKeyConflict"} =>
         /\ kind = "absent" => status.reason = "TargetNotFound"
         /\ kind = "other" => status.reason = "UnsupportedTargetType"
         /\ kind = "clusterip" /\ Slot(r, cr) \in cacheETs =>
               /\ status.reason = "DelegatedToEdgeTransformation"
               /\ httproutes[Slot(r, cr)] = NoHTTPRoute
         /\ kind = "clusterip" /\ Slot(r, cr) \notin cacheETs =>
               /\ status.reason = "Reconciled"
               /\ status.variants = Variants(Ns(r), cr)
               /\ httproutes[Slot(r, cr)] = PresentRoute(r, cr)

(* A cache never shows a later object, nor a later generation of the living one; whatever *)
(* exists has a target.                                                                   *)
AgeInv ==
    /\ \A r \in Routes :
          /\ crs[r].uid <= uids[r] /\ cacheCRs[r].uid <= uids[r]
          /\ Exists(crs[r]) /\ cacheCRs[r].uid = crs[r].uid =>
                cacheCRs[r].generation <= crs[r].generation
          /\ Exists(crs[r]) => crs[r].target \in Services
          /\ Exists(cacheCRs[r]) => cacheCRs[r].target \in Services
    /\ pc # "idle" => Exists(snap) /\ snap.target \in Services
    /\ pc \in {"check", "resolve", "route"} => draft.target = snap.target

(* A ContextRoute that nothing will have reconciled again either is reconciled, or has    *)
(* changed in the store and its event is still to come.                                   *)
DoneWith(r) ==
    Exists(cacheCRs[r]) /\ ~cacheCRs[r].deleting /\ ~Pending(r) /\ ~Busy(r) =>
        crs[r] # cacheCRs[r] \/ Reconciled(r, cacheCRs[r], cacheCRs[r].status)

DoneInv == \A r \in Routes : DoneWith(r)

(* What the worker has planned is what the present caches ask for, unless it will start   *)
(* over.                                                                                  *)
CurrentInv ==
    pc # "idle" /\ ~Pending(job) =>
        /\ cacheCRs[job] = snap
        /\ pc = "route" =>
              /\ draft.observed = snap.generation
              /\ cacheServices[Slot(job, snap)].kind = "clusterip"
              /\ Slot(job, snap) \in cacheETs =>
                    draft.reason = "DelegatedToEdgeTransformation" /\ desired = NoHTTPRoute
              /\ Slot(job, snap) \notin cacheETs =>
                    /\ draft.reason = "Reconciled"
                    /\ draft.variants = Variants(Ns(job), snap)
                    /\ desired = PresentRoute(job, snap)
        /\ pc = "status" => Reconciled(job, snap, draft)

(* A worker about to apply a route although an EdgeTransformation has come meanwhile:     *)
(* every ContextRoute on that target will be reconciled after it.                         *)
LateRouteInv ==
    pc = "route" /\ desired # NoHTTPRoute /\ Slot(job, snap) \in cacheETs =>
        \A r \in Routes :
            Exists(cacheCRs[r]) /\ Slot(r, cacheCRs[r]) = Slot(job, snap) => Pending(r)

QuietInv == AgeInv /\ DoneInv /\ CurrentInv /\ LateRouteInv

(* A step disturbs r if it changes what DoneWith(r) and the worker rely on, and nothing    *)
(* will have r reconciled for it.                                                          *)
Steady(r) ==
    /\ crs[r] # cacheCRs[r] => crs'[r] # cacheCRs[r]
    /\ \A s \in Services : Matches(cacheCRs[r].selector, cacheServices'[<<Ns(r), s>>])
                              <=> Matches(cacheCRs[r].selector, cacheServices[<<Ns(r), s>>])
    /\ \A k \in Slots : k = Slot(r, cacheCRs[r]) =>
          /\ cacheServices'[k].kind = cacheServices[k].kind
          /\ k \in cacheETs' <=> k \in cacheETs
          /\ httproutes[k].owner = Name(r) => httproutes'[k] = httproutes[k]
          /\ httproutes[k] = NoHTTPRoute /\ k \in cacheETs => httproutes'[k] = NoHTTPRoute

Undisturbed(r) ==
    /\ Pending(r) => Pending(r)'
    /\ ~Pending(r)' => /\ cacheCRs'[r] = cacheCRs[r]
                       /\ Exists(cacheCRs[r]) => Steady(r)

LEMMA SlotType ==
    ASSUME NEW r \in Routes, NEW cr, cr.target \in Services
    PROVE  Slot(r, cr) \in Slots
  BY RouteParts DEF Slot, Slots

LEMMA SteadyVariants ==
    ASSUME NEW r \in Routes, NEW cr, cr.selector = cacheCRs[r].selector, Steady(r)
    PROVE  Variants(Ns(r), cr)' = Variants(Ns(r), cr) /\ PresentRoute(r, cr)' = PresentRoute(r, cr)
  <1>1. Variants(Ns(r), cr)' = Variants(Ns(r), cr)
    BY DEF Steady, Variants
  <1>2. QED
    BY <1>1 DEF PresentRoute

(* What is reconciled stays so in a step that disturbs nothing. *)
LEMMA SteadyReconciled ==
    ASSUME NEW r \in Routes, NEW cr, NEW status, cr = cacheCRs[r], cr.target \in Services,
           Steady(r), Reconciled(r, cr, status)
    PROVE  Reconciled(r, cr, status)'
  <1>1. PICK k \in Slots : k = Slot(r, cr)
    BY SlotType
  <1>2. /\ cacheServices'[k].kind = cacheServices[k].kind
        /\ k \in cacheETs' <=> k \in cacheETs
        /\ httproutes[k].owner = Name(r) => httproutes'[k] = httproutes[k]
        /\ httproutes[k] = NoHTTPRoute /\ k \in cacheETs => httproutes'[k] = NoHTTPRoute
    BY <1>1 DEF Steady
  <1>3. Variants(Ns(r), cr)' = Variants(Ns(r), cr) /\ PresentRoute(r, cr)' = PresentRoute(r, cr)
    BY SteadyVariants
  <1>4. PresentRoute(r, cr).owner = Name(r)
    BY DEF PresentRoute, RenderHTTPRoute
  <1>5. Slot(r, cr)' = k
    BY <1>1 DEF Slot
  <1>6. QED
    BY <1>1, <1>2, <1>3, <1>4, <1>5 DEF Reconciled

LEMMA UndisturbedDone ==
    ASSUME AgeInv, NEW r \in Routes, DoneWith(r), Undisturbed(r), Busy(r) => Busy(r)' \/ Pending(r)'
    PROVE  DoneWith(r)'
  <1> SUFFICES ASSUME Exists(cacheCRs'[r]), ~cacheCRs'[r].deleting, ~Pending(r)', ~Busy(r)'
               PROVE  crs'[r] # cacheCRs'[r] \/ Reconciled(r, cacheCRs[r], cacheCRs[r].status)'
    BY DEF DoneWith
  <1>1. /\ cacheCRs'[r] = cacheCRs[r] /\ Exists(cacheCRs[r]) /\ Steady(r)
        /\ ~cacheCRs[r].deleting /\ ~Pending(r) /\ ~Busy(r)
    BY DEF Undisturbed
  <1>2. CASE crs[r] # cacheCRs[r]
    BY <1>1, <1>2 DEF Steady
  <1>3. CASE Reconciled(r, cacheCRs[r], cacheCRs[r].status)
    <2>1. PICK cr : cr = cacheCRs[r]
      OBVIOUS
    <2>2. Reconciled(r, cr, cr.status)'
      BY <1>1, <1>3, <2>1, SteadyReconciled DEF AgeInv
    <2>3. QED
      BY <1>1, <2>1, <2>2
  <1>4. QED
    BY <1>1, <1>2, <1>3 DEF DoneWith

(* Steps of others than the worker, and returns of the worker that put the request back. *)
LEMMA UndisturbedQuiet ==
    ASSUME TypeOK, AgeInv, DoneInv, CurrentInv, \A r \in Routes : Undisturbed(r),
           \/ UNCHANGED worker
           \/ Rest /\ \A r \in Routes : Busy(r) => Pending(r)'
    PROVE  DoneInv' /\ CurrentInv'
  <1>1. \A r \in Routes : Busy(r) => Busy(r)' \/ Pending(r)'
    BY DEF Busy, worker
  <1>2. DoneInv'
    BY <1>1, UndisturbedDone DEF DoneInv
  <1>3. CASE Rest
    BY <1>2, <1>3 DEF CurrentInv, Rest
  <1>4. CASE UNCHANGED worker
    <2> SUFFICES ASSUME pc # "idle", ~Pending(job)' PROVE CurrentInv'
      BY <1>2, <1>4 DEF CurrentInv, worker
    <2>1. PICK r \in Routes : r = job
      BY DEF TypeOK
    <2>2. ~Pending(r)'
      BY <1>4, <2>1 DEF worker, Pending
    <2>3. ~Pending(r) /\ cacheCRs'[r] = cacheCRs[r]
      BY <2>2 DEF Undisturbed
    <2>4. cacheCRs[r] = snap /\ Exists(snap) /\ snap.target \in Services
      BY <2>1, <2>3 DEF CurrentInv, AgeInv
    <2>5. Steady(r)
      BY <2>2, <2>4 DEF Undisturbed
    <2>6. PICK cr : cr = snap
      OBVIOUS
    <2>7. PICK status : status = draft
      OBVIOUS
    <2>8. Reconciled(r, cr, status) => Reconciled(r, cr, status)'
      BY <2>4, <2>5, <2>6, SteadyReconciled
    <2>9. Variants(Ns(r), cr)' = Variants(Ns(r), cr) /\ PresentRoute(r, cr)' = PresentRoute(r, cr)
      BY <2>4, <2>5, <2>6, SteadyVariants
    <2>10. Slot(r, cr) \in Slots
      BY <2>4, <2>6, SlotType
    <2>11. /\ cacheServices'[Slot(r, cr)].kind = cacheServices[Slot(r, cr)].kind
           /\ Slot(r, cr) \in cacheETs' <=> Slot(r, cr) \in cacheETs
      BY <2>4, <2>5, <2>6, <2>10 DEF Steady
    <2>12. /\ snap' = cr /\ job' = r /\ draft' = status
           /\ UNCHANGED <<pc, desired>>
      BY <1>4, <2>1, <2>6, <2>7 DEF worker
    <2>13. pc = "status" => Reconciled(r, cr, status)'
      BY <2>1, <2>3, <2>6, <2>7, <2>8 DEF CurrentInv
    <2>14. pc = "route" =>
              /\ status.observed = cr.generation
              /\ cacheServices'[Slot(r, cr)].kind = "clusterip"
              /\ Slot(r, cr) \in cacheETs' =>
                    status.reason = "DelegatedToEdgeTransformation" /\ desired = NoHTTPRoute
              /\ Slot(r, cr) \notin cacheETs' =>
                    /\ status.reason = "Reconciled"
                    /\ status.variants = Variants(Ns(r), cr)
                    /\ desired = PresentRoute(r, cr)
      BY <2>1, <2>3, <2>6, <2>7, <2>11 DEF CurrentInv
    <2>15. QED
      BY <2>3, <2>4, <2>6, <2>9, <2>12, <2>13, <2>14 DEF CurrentInv, Slot
  <1>5. QED
    BY <1>3, <1>4

LEMMA InitQuiet == Init => QuietInv
  <1> SUFFICES ASSUME Init PROVE QuietInv
    OBVIOUS
  <1>1. TypeOK
    BY InitTypeOK
  <1>2. \A r \in Routes : Exists(crs[r]) => crs[r].target \in Services
    <2>1. \A spec \in Specs, t \in {0, 1} : NewContextRoute(spec, 1, t).target \in Services
      BY BoundsAssumption DEF NewContextRoute, NoContextRoute, ContextRouteSpec
    <2>2. NoContextRoute.uid = 0
      BY DEF NoContextRoute
    <2>3. QED
      BY <2>1, <2>2 DEF Init, Exists
  <1>3. AgeInv
    BY <1>1, <1>2 DEF Init, AgeInv, TypeOK, ContextRoute
  <1>4. QED
    BY <1>3 DEF QuietInv, DoneInv, DoneWith, CurrentInv, LateRouteInv, Pending, Init

(* Nothing but these steps changes a ContextRoute or what the cache shows of it. *)
LEMMA AgeFrame ==
    ASSUME AgeInv, UNCHANGED <<crs, cacheCRs, uids>>,
           \/ UNCHANGED <<pc, snap, draft>>
           \/ Rest
           \/ pc # "idle" /\ snap' = snap /\ pc' \notin {"check", "resolve", "route"}
           \/ /\ pc \in {"check", "resolve", "route"} /\ snap' = snap
              /\ draft'.target = draft.target
    PROVE  AgeInv'
  <1>1. \A r \in Routes :
          /\ crs'[r].uid <= uids'[r] /\ cacheCRs'[r].uid <= uids'[r]
          /\ Exists(crs'[r]) /\ cacheCRs'[r].uid = crs'[r].uid =>
                cacheCRs'[r].generation <= crs'[r].generation
          /\ Exists(crs'[r]) => crs'[r].target \in Services
          /\ Exists(cacheCRs'[r]) => cacheCRs'[r].target \in Services
    BY DEF AgeInv
  <1>2. /\ pc' # "idle" => Exists(snap') /\ snap'.target \in Services
        /\ pc' \in {"check", "resolve", "route"} => draft'.target = snap'.target
    BY DEF AgeInv, Rest
  <1>3. QED
    BY <1>1, <1>2 DEF AgeInv

LEMMA NextAge ==
    ASSUME TypeOK, AgeInv, [Next]_vars
    PROVE  AgeInv'
  <1> USE DEF store, routes, caches, worker, bounds, Exists
  <1>0. \A r \in Routes : /\ crs[r].uid \in Nat /\ crs[r].generation \in Nat
                          /\ cacheCRs[r].uid \in Nat /\ cacheCRs[r].generation \in Nat
                          /\ uids[r] \in Nat
    BY DEF TypeOK, ContextRoute
  <1>1. ASSUME NEW r \in Routes, NEW spec \in Specs, NEW sameSecond \in BOOLEAN,
               CreateContextRoute(r, spec, sameSecond)
        PROVE  AgeInv'
    <2>1. /\ crs' = [crs EXCEPT ![r] = NewContextRoute(spec, uids'[r], clock')]
          /\ uids' = [uids EXCEPT ![r] = @ + 1] /\ UNCHANGED <<cacheCRs, pc, snap, draft>>
      BY <1>1 DEF CreateContextRoute
    <2>2. crs'[r].uid = uids[r] + 1 /\ uids'[r] = uids[r] + 1 /\ crs'[r].target \in Services
      BY <2>1, BoundsAssumption DEF NewContextRoute, NoContextRoute, TypeOK, ContextRouteSpec
    <2>3. \A s \in Routes \ {r} : crs'[s] = crs[s] /\ uids'[s] = uids[s]
      BY <2>1 DEF TypeOK
    <2>4. QED
      BY <1>0, <2>1, <2>2, <2>3 DEF AgeInv
  <1>2. ASSUME NEW r \in Routes, NEW spec \in Specs, EditContextRoute(r, spec)
        PROVE  AgeInv'
    <2>1. /\ \A s \in Routes \ {r} : crs'[s] = crs[s]
          /\ crs'[r].uid = crs[r].uid /\ crs'[r].generation = crs[r].generation + 1
          /\ crs'[r].target = spec.target /\ spec.target \in Services
      BY <1>2, BoundsAssumption DEF EditContextRoute, TypeOK, ContextRoute, ContextRouteSpec
    <2>2. UNCHANGED <<cacheCRs, uids, pc, snap, draft>>
      BY <1>2 DEF EditContextRoute
    <2>3. QED
      BY <1>0, <2>1, <2>2 DEF AgeInv
  <1>3. ASSUME NEW r \in Routes, DeleteContextRoute(r)
        PROVE  AgeInv'
    <2>1. /\ \A s \in Routes \ {r} : crs'[s] = crs[s]
          /\ \/ /\ crs'[r].uid = crs[r].uid /\ crs'[r].generation = crs[r].generation + 1
                /\ crs'[r].target = crs[r].target
             \/ crs'[r].uid = 0
      BY <1>3 DEF DeleteContextRoute, TypeOK, ContextRoute, NoContextRoute
    <2>2. UNCHANGED <<cacheCRs, uids, pc, snap, draft>>
      BY <1>3 DEF DeleteContextRoute
    <2>3. QED
      BY <1>0, <2>1, <2>2 DEF AgeInv
  <1>4. CASE UpdateStatus \/ UpdateFinalizer
    <2>1. \A s \in Routes : \/ /\ crs'[s].uid = crs[s].uid /\ crs'[s].generation = crs[s].generation
                               /\ crs'[s].target = crs[s].target
                            \/ crs'[s].uid = 0
      <3>1. CASE UpdateStatus
        <4>1. PICK written \in Status : crs' = [crs EXCEPT ![job].status = written]
          BY <3>1, StatusWritten
        <4>2. QED
          BY <4>1 DEF TypeOK, ContextRoute
      <3>2. CASE UpdateFinalizer
        <4>1. \/ crs' = [crs EXCEPT ![job] = NoContextRoute]
              \/ crs' = [crs EXCEPT ![job].finalizer = TRUE]
          BY <3>2 DEF UpdateFinalizer
        <4>2. CASE crs' = [crs EXCEPT ![job] = NoContextRoute]
          BY <4>2 DEF TypeOK, NoContextRoute
        <4>3. CASE crs' = [crs EXCEPT ![job].finalizer = TRUE]
          BY <4>3 DEF TypeOK, ContextRoute
        <4>4. QED
          BY <4>1, <4>2, <4>3
      <3>3. QED
        BY <1>4, <3>1, <3>2
    <2>2. UNCHANGED <<cacheCRs, uids>> /\ pc' = "idle"
      BY <1>4 DEF UpdateStatus, UpdateFinalizer, Done, Retry, Rest
    <2>3. QED
      BY <1>0, <2>1, <2>2 DEF AgeInv
  <1>5. ASSUME NEW r \in Routes, DeliverContextRoute(r)
        PROVE  AgeInv'
    <2>1. /\ \A s \in Routes : cacheCRs'[s] \in {cacheCRs[s], crs[s]}
          /\ UNCHANGED <<crs, uids, pc, snap, draft>>
      BY <1>5 DEF DeliverContextRoute, TypeOK
    <2>2. QED
      BY <1>0, <2>1 DEF AgeInv
  <1>6. CASE Restart
    BY <1>0, <1>6 DEF Restart, Rest, AgeInv
  <1>7. ASSUME NEW r \in Routes, TakeRequest(r)
        PROVE  AgeInv'
    <2>1. UNCHANGED <<crs, cacheCRs, uids>>
      BY <1>7 DEF TakeRequest
    <2>2. CASE Rest
      BY <2>1, <2>2, AgeFrame
    <2>3. CASE ~Rest
      <3>1. /\ snap' = cacheCRs[r] /\ Exists(cacheCRs[r])
            /\ pc' = "check" =>
                  draft' = [cacheCRs[r].status EXCEPT !.target = cacheCRs[r].target]
            /\ pc' \in {"release", "check", "finalizer"}
        BY <1>7, <2>3 DEF TakeRequest, Begin
      <3>2. [cacheCRs[r].status EXCEPT !.target = cacheCRs[r].target].target = cacheCRs[r].target
        BY DEF TypeOK, ContextRoute, Status
      <3>3. QED
        BY <2>1, <3>1, <3>2 DEF AgeInv
    <2>4. QED
      BY <2>2, <2>3
  <1>8. CASE NoConflict \/ PlanHTTPRoute
    <2>1. UNCHANGED <<crs, cacheCRs, uids, snap>> /\ pc \in {"check", "resolve"}
      BY <1>8 DEF NoConflict, PlanHTTPRoute
    <2>2. draft'.target = draft.target
      BY <1>8 DEF NoConflict, PlanHTTPRoute, WithReady, TypeOK, Status
    <2>3. QED
      BY <2>1, <2>2, AgeFrame
  <1>9. CASE ReleaseHTTPRoute \/ TargetConflict \/ RoutingKeyConflict \/ RejectTarget
             \/ ApplyHTTPRoute \/ DropDelegatedHTTPRoute
    <2>1. UNCHANGED <<crs, cacheCRs, uids, snap>> /\ pc # "idle" /\ pc' \in {"finalizer", "status"}
      BY <1>9 DEF ReleaseHTTPRoute, TargetConflict, RoutingKeyConflict, RejectTarget,
         ApplyHTTPRoute, DropDelegatedHTTPRoute, Goto
    <2>2. QED
      BY <2>1, AgeFrame
  <1>10. CASE RejectSelector \/ UpdateRefused \/ WriteFails
    BY <1>10, AgeFrame DEF RejectSelector, UpdateRefused, WriteFails, Retry
  <1>11. ASSUME \/ \E r \in Routes : DeliverHTTPRoute(r)
                \/ \E k \in Slots : \/ \E svc \in ServiceObjects : SetService(k, svc)
                                    \/ ToggleET(k) \/ DropHTTPRoute(k)
                                    \/ DeliverService(k) \/ DeliverET(k) \/ CollectHTTPRoute(k)
                \/ UNCHANGED vars
         PROVE  AgeInv'
    BY <1>11, AgeFrame DEF DeliverHTTPRoute, SetService, ToggleET, DropHTTPRoute,
       DeliverService, DeliverET, CollectHTTPRoute, vars
  <1>12. QED
    BY <1>1, <1>2, <1>3, <1>4, <1>5, <1>6, <1>7, <1>8, <1>9, <1>10, <1>11
       DEF Next, User, Deliver, Step

(* A write of a route disturbs nobody, as long as it removes one or puts it where no      *)
(* EdgeTransformation is: it wakes the owner of what it removes.                          *)
LEMMA SetHTTPRouteUndisturbed ==
    ASSUME TypeOK, NEW k, NEW hr, SetHTTPRoute(k, hr), UNCHANGED <<crs, caches, queue>>,
           NEW r \in Routes,
           \/ hr = NoHTTPRoute
           \/ k \notin cacheETs
           \/ Exists(cacheCRs[r]) /\ k = Slot(r, cacheCRs[r]) => Pending(r)
    PROVE  Undisturbed(r)
  <1>1. UNCHANGED <<cacheCRs, cacheServices, cacheETs>>
    BY DEF caches
  <1>2. routeEvents \subseteq routeEvents' /\ (Pending(r) => Pending(r)')
    BY DEF SetHTTPRoute, Pending
  <1>3. ASSUME ~Pending(r)', NEW l \in Slots, l = Slot(r, cacheCRs[r]), Exists(cacheCRs[r])
        PROVE  /\ httproutes[l].owner = Name(r) => httproutes'[l] = httproutes[l]
               /\ httproutes[l] = NoHTTPRoute /\ l \in cacheETs => httproutes'[l] = NoHTTPRoute
    <2>1. CASE l # k
      BY <2>1 DEF SetHTTPRoute, TypeOK
    <2>2. CASE l = k
      <3>1. httproutes'[l] = hr
        BY <2>2 DEF SetHTTPRoute, TypeOK
      <3>2. ASSUME httproutes[l].owner = Name(r)
            PROVE  httproutes'[l] = httproutes[l]
        <4>1. l[1] = Ns(r)
          BY <1>3 DEF Slot
        <4>2. httproutes[l] # NoHTTPRoute
          BY <3>2, RouteParts DEF NoHTTPRoute
        <4>3. r \in MapHTTPRouteToCR(k, httproutes[k])
          BY <2>2, <3>2, <4>1, <4>2 DEF MapHTTPRouteToCR
        <4>4. QED
          BY <1>3, <2>2, <3>1, <4>3 DEF SetHTTPRoute, Pending
      <3>3. ASSUME httproutes[l] = NoHTTPRoute, l \in cacheETs
            PROVE  httproutes'[l] = NoHTTPRoute
        BY <1>2, <1>3, <2>2, <3>1, <3>3
      <3>4. QED
        BY <3>2, <3>3
    <2>3. QED
      BY <2>1, <2>2
  <1>4. QED
    BY <1>1, <1>2, <1>3 DEF Undisturbed, Steady

LEMMA UserUndisturbed ==
    ASSUME TypeOK, AgeInv, User, NEW f \in Routes
    PROVE  Undisturbed(f)
  <1> USE DEF worker, bounds
  <1>0. \A r \in Routes : /\ crs[r].uid \in Nat /\ crs[r].generation \in Nat
                          /\ cacheCRs[r].uid \in Nat /\ cacheCRs[r].generation \in Nat
                          /\ uids[r] \in Nat
    BY DEF TypeOK, ContextRoute
  <1>1. UNCHANGED <<caches, queue>>
    BY DEF User, CreateContextRoute, EditContextRoute, DeleteContextRoute, SetService, ToggleET,
       DropHTTPRoute
  <1>2. ASSUME NEW r \in Routes,
               \/ DeleteContextRoute(r)
               \/ \E spec \in Specs : EditContextRoute(r, spec)
               \/ \E spec \in Specs, sameSecond \in BOOLEAN : CreateContextRoute(r, spec, sameSecond)
        PROVE  Undisturbed(f)
    <2>1. UNCHANGED routes /\ \A s \in Routes \ {r} : crs'[s] = crs[s]
      BY <1>2 DEF DeleteContextRoute, EditContextRoute, CreateContextRoute, TypeOK
    <2>2. \/ crs'[r].uid = 0
          \/ crs'[r].uid = uids[r] + 1
          \/ /\ Exists(crs[r]) /\ crs'[r].uid = crs[r].uid
             /\ crs'[r].generation = crs[r].generation + 1
      <3>1. CASE DeleteContextRoute(r)
        BY <3>1 DEF DeleteContextRoute, TypeOK, ContextRoute, NoContextRoute
      <3>2. CASE \E spec \in Specs : EditContextRoute(r, spec)
        BY <3>2 DEF EditContextRoute, TypeOK, ContextRoute
      <3>3. CASE \E spec \in Specs, sameSecond \in BOOLEAN : CreateContextRoute(r, spec, sameSecond)
        <4>1. uids'[r] = uids[r] + 1
          BY <3>3 DEF CreateContextRoute, TypeOK
        <4>2. crs'[r].uid = uids'[r]
          BY <3>3 DEF CreateContextRoute, NewContextRoute, NoContextRoute, TypeOK
        <4>3. QED
          BY <4>1, <4>2
      <3>4. QED
        BY <1>2, <3>1, <3>2, <3>3
    <2>3. Exists(cacheCRs[r]) => crs'[r] # cacheCRs[r]
      BY <1>0, <2>2 DEF AgeInv, Exists
    <2>4. Exists(cacheCRs[f]) /\ crs[f] # cacheCRs[f] => crs'[f] # cacheCRs[f]
      BY <2>1, <2>3
    <2>5. QED
      BY <1>1, <2>1, <2>4 DEF Undisturbed, Steady, Pending, caches, routes
  <1>3. ASSUME NEW k \in Slots, DropHTTPRoute(k)
        PROVE  Undisturbed(f)
    BY <1>1, <1>3, SetHTTPRouteUndisturbed DEF DropHTTPRoute
  <1>4. ASSUME NEW k \in Slots, ToggleET(k) \/ \E svc \in ServiceObjects : SetService(k, svc)
        PROVE  Undisturbed(f)
    <2>1. UNCHANGED <<crs, routes>>
      BY <1>4 DEF ToggleET, SetService
    <2>2. QED
      BY <1>1, <2>1 DEF Undisturbed, Steady, Pending, caches, routes
  <1>5. QED
    BY <1>2, <1>3, <1>4 DEF User

(* A delivery changes what those depend on that it wakes only; the garbage collector wakes *)
(* the owner.                                                                              *)
LEMMA OthersUndisturbed ==
    ASSUME TypeOK,
           Deliver \/ \E k \in Slots : CollectHTTPRoute(k),
           NEW f \in Routes
    PROVE  Undisturbed(f)
  <1> USE DEF store, routes, worker, bounds
  <1>1. ASSUME NEW r \in Routes, DeliverContextRoute(r)
        PROVE  Undisturbed(f)
    <2>1. cacheCRs'[f] = cacheCRs[f] \/ f \in queue'
      BY <1>1 DEF DeliverContextRoute, TypeOK
    <2>2. QED
      BY <1>1, <2>1 DEF DeliverContextRoute, Undisturbed, Steady, Pending
  <1>2. ASSUME NEW r \in Routes, DeliverHTTPRoute(r)
        PROVE  Undisturbed(f)
    <2>1. UNCHANGED <<crs, httproutes, caches>> /\ (Pending(f) => Pending(f)')
      BY <1>2 DEF DeliverHTTPRoute, Pending
    <2>2. QED
      BY <2>1 DEF Undisturbed, Steady, caches
  <1>3. ASSUME NEW k \in Slots, DeliverService(k)
        PROVE  Undisturbed(f)
    <2>1. /\ UNCHANGED <<store, cacheCRs, cacheETs>>
          /\ queue' = queue \cup MapServiceToCRs(k, cacheServices[k])
                            \cup MapServiceToCRs(k, services[k])
          /\ cacheServices' = [cacheServices EXCEPT ![k] = services[k]]
      BY <1>3 DEF DeliverService
    <2>2. cacheServices'[k] = services[k] /\ \A l \in Slots : l # k => cacheServices'[l] = cacheServices[l]
      BY <2>1 DEF TypeOK
    <2>3. ASSUME ~Pending(f)', Exists(cacheCRs[f]), Ns(f) = k[1],
                 NEW svc \in {cacheServices[k], services[k]}
          PROVE  /\ ~Matches(cacheCRs[f].selector, svc)
                 /\ svc.kind # "absent" => cacheCRs[f].target # k[2]
      BY <2>1, <2>3 DEF Pending, MapServiceToCRs, Matches
    <2>4. ASSUME ~Pending(f)', Exists(cacheCRs[f]), NEW l \in Slots, l[1] = Ns(f)
          PROVE  /\ Matches(cacheCRs[f].selector, cacheServices'[l])
                       <=> Matches(cacheCRs[f].selector, cacheServices[l])
                 /\ l[2] = cacheCRs[f].target => cacheServices'[l].kind = cacheServices[l].kind
      <3>1. CASE l # k
        BY <2>2, <3>1
      <3>2. CASE l = k
        BY <2>2, <2>3, <2>4, <3>2
      <3>3. QED
        BY <3>1, <3>2
    <2>5. ASSUME ~Pending(f)', Exists(cacheCRs[f]), NEW s \in Services
          PROVE  Matches(cacheCRs[f].selector, cacheServices'[<<Ns(f), s>>])
                    <=> Matches(cacheCRs[f].selector, cacheServices[<<Ns(f), s>>])
      <3>1. <<Ns(f), s>> \in Slots
        BY RouteParts DEF Slots
      <3>2. QED
        BY <2>4, <2>5, <3>1
    <2>6. Pending(f) => Pending(f)'
      BY <2>1 DEF Pending
    <2>7. QED
      BY <2>1, <2>4, <2>5, <2>6 DEF Undisturbed, Steady, Slot
  <1>4. ASSUME NEW k \in Slots, DeliverET(k)
        PROVE  Undisturbed(f)
    <2>1. /\ UNCHANGED <<store, cacheCRs, cacheServices>> /\ queue' = queue \cup MapETToCR(k)
          /\ \A l : l # k => (l \in cacheETs' <=> l \in cacheETs)
      BY <1>4 DEF DeliverET
    <2>2. ASSUME ~Pending(f)', Exists(cacheCRs[f])
          PROVE  Slot(f, cacheCRs[f]) # k
      BY <2>1, <2>2 DEF Pending, MapETToCR, Slot
    <2>3. QED
      BY <2>1, <2>2 DEF Undisturbed, Steady, Pending
  <1>5. ASSUME NEW k \in Slots, CollectHTTPRoute(k)
        PROVE  Undisturbed(f)
    BY <1>5, SetHTTPRouteUndisturbed DEF CollectHTTPRoute
  <1>6. QED
    BY <1>1, <1>2, <1>3, <1>4, <1>5 DEF Deliver

(* The same steps keep LateRouteInv: an EdgeTransformation that comes wakes every          *)
(* ContextRoute on its target, and so does a ContextRoute that moves there.                *)
LEMMA LateRouteFrame ==
    ASSUME TypeOK, AgeInv, LateRouteInv, \A r \in Routes : Undisturbed(r),
           UNCHANGED worker \/ pc' # "route"
    PROVE  LateRouteInv'
  <1> SUFFICES ASSUME pc' = "route", desired' # NoHTTPRoute, Slot(job, snap)' \in cacheETs',
                      NEW r \in Routes, Exists(cacheCRs'[r]),
                      Slot(r, cacheCRs'[r]) = Slot(job, snap)', ~Pending(r)'
               PROVE  FALSE
    BY DEF LateRouteInv, Slot
  <1>1. UNCHANGED worker
    OBVIOUS
  <1>2. Slot(job, snap)' = Slot(job, snap) /\ pc = "route" /\ desired # NoHTTPRoute
    BY <1>1 DEF worker, Slot
  <1>3. cacheCRs'[r] = cacheCRs[r] /\ ~Pending(r) /\ Steady(r)
    BY DEF Undisturbed
  <1>4. PICK k \in Slots : k = Slot(r, cacheCRs[r])
    BY <1>3, SlotType DEF AgeInv
  <1>5. k \in cacheETs
    BY <1>2, <1>3, <1>4 DEF Steady
  <1>6. QED
    BY <1>2, <1>3, <1>4, <1>5 DEF LateRouteInv

LEMMA OthersQuiet ==
    ASSUME TypeOK, QuietInv, AgeInv', \A r \in Routes : Undisturbed(r),
           \/ UNCHANGED worker
           \/ Rest /\ \A r \in Routes : Busy(r) => Pending(r)'
    PROVE  QuietInv'
  <1>1. DoneInv' /\ CurrentInv'
    BY UndisturbedQuiet DEF QuietInv
  <1>2. LateRouteInv'
    BY LateRouteFrame DEF QuietInv, Rest
  <1>3. QED
    BY <1>1, <1>2 DEF QuietInv

(* The worker takes up what the cache shows, or nothing if there is nothing to do. *)
LEMMA TakeQuiet ==
    ASSUME TypeOK, QuietInv, AgeInv', NEW r \in Routes, TakeRequest(r)
    PROVE  QuietInv'
  <1>1. /\ UNCHANGED <<crs, routes, caches>> /\ pc = "idle"
        /\ queue' = queue \ {r}
        /\ \/ /\ pc' \in {"release", "check", "finalizer"}
              /\ job' = r /\ snap' = cacheCRs[r]
           \/ Rest /\ (~Exists(cacheCRs[r]) \/ cacheCRs[r].deleting)
    BY DEF TakeRequest, Begin, store
  <1>2. ASSUME NEW s \in Routes
        PROVE  DoneWith(s)'
    <2>1. CASE s = r
      BY <1>1, <2>1 DEF DoneWith, Busy, caches
    <2>2. CASE s # r
      <3>1. Pending(s)' <=> Pending(s)
        BY <1>1, <2>2 DEF Pending, routes
      <3>2. Undisturbed(s)
        BY <1>1, <3>1 DEF Undisturbed, Steady, routes, caches
      <3>3. ~Busy(s)
        BY <1>1 DEF Busy
      <3>4. QED
        BY <3>2, <3>3, UndisturbedDone DEF QuietInv, DoneInv
    <2>3. QED
      BY <2>1, <2>2
  <1>3. CurrentInv' /\ LateRouteInv'
    BY <1>1 DEF CurrentInv, LateRouteInv, Rest, caches
  <1>4. QED
    BY <1>2, <1>3 DEF QuietInv, DoneInv

(* Where the worker gives up it puts the request back. *)
LEMMA RetryQuiet ==
    ASSUME TypeOK, QuietInv, AgeInv', WriteFails \/ RejectSelector \/ UpdateRefused
    PROVE  QuietInv'
  <1>1. /\ UNCHANGED <<crs, routes, caches>> /\ Rest
        /\ queue' = queue \cup {job}
    BY DEF WriteFails, RejectSelector, UpdateRefused, Retry, store
  <1>2. \A s \in Routes : Undisturbed(s)
    BY <1>1 DEF Undisturbed, Steady, Pending, routes, caches
  <1>3. \A s \in Routes : Busy(s) => Pending(s)'
    BY <1>1 DEF Busy, Pending
  <1>4. QED
    BY <1>1, <1>2, <1>3, OthersQuiet

(* A step of the worker that goes on leaves the others as they are. *)
LEMMA GotoDone ==
    ASSUME TypeOK, QuietInv, \A s \in Routes : Undisturbed(s), pc # "idle", pc' # "idle", job' = job
    PROVE  DoneInv'
  <1>1. \A s \in Routes : Busy(s) => Busy(s)'
    BY DEF Busy
  <1>2. QED
    BY <1>1, UndisturbedDone DEF QuietInv, DoneInv

(* The conflict check and the resolution of the target. *)
LEMMA PlanQuiet ==
    ASSUME TypeOK, QuietInv, AgeInv',
           TargetConflict \/ RoutingKeyConflict \/ NoConflict \/ RejectTarget \/ PlanHTTPRoute
    PROVE  QuietInv'
  <1>1. /\ UNCHANGED <<crs, routes, caches, queue, job, snap>>
        /\ pc \in {"check", "resolve"} /\ pc' \in {"resolve", "route", "status"}
        /\ job \in Routes /\ Exists(snap) /\ snap.target \in Services /\ draft \in Status
        /\ snap.generation \in Nat
    BY DEF TargetConflict, RoutingKeyConflict, NoConflict, RejectTarget, PlanHTTPRoute, Goto, store,
       TypeOK, QuietInv, AgeInv, ContextRoute
  <1>2. \A s \in Routes : Undisturbed(s)
    BY <1>1 DEF Undisturbed, Steady, Pending, routes, caches
  <1>3. DoneInv'
    BY <1>1, <1>2, GotoDone
  <1>4. \A status \in Status, reason \in Reasons :
           /\ WithReady(status, reason, snap.generation).reason = reason
           /\ WithReady(status, reason, snap.generation).observed = snap.generation
           /\ WithReady(status, reason, snap.generation).variants = status.variants
    BY DEF WithReady, Status
  <1>5. Slot(job, snap) \in Slots
    BY <1>1, SlotType
  <1>6. LateRouteInv'
    <2>1. CASE PlanHTTPRoute
      BY <1>1, <2>1 DEF PlanHTTPRoute, LateRouteInv, Slot, caches
    <2>2. CASE TargetConflict \/ RoutingKeyConflict \/ NoConflict \/ RejectTarget
      BY <2>2 DEF TargetConflict, RoutingKeyConflict, NoConflict, RejectTarget, Goto, LateRouteInv
    <2>3. QED
      BY <2>1, <2>2
  <1>7. ASSUME ~Pending(job)'
        PROVE  CurrentInv'
    <2>1. ~Pending(job) /\ cacheCRs'[job] = snap
      BY <1>1, <1>7 DEF Pending, routes, caches, QuietInv, CurrentInv
    <2>2. CASE NoConflict
      BY <1>1, <2>1, <2>2 DEF NoConflict, Goto, CurrentInv
    <2>3. CASE TargetConflict \/ RoutingKeyConflict
      <3>1. \A w \in Routes : [draft EXCEPT !.conflict = Name(w), !.variants = {}] \in Status
        BY <1>1, RouteParts DEF Status
      <3>2. [draft EXCEPT !.conflict = 0, !.variants = {}] \in Status
        BY <1>1 DEF Status
      <3>3. /\ draft'.observed = snap.generation /\ draft'.reason \in {"Conflict", "RoutingKeyConflict"}
            /\ pc' = "status"
        <4>1. CASE TargetConflict
          <5>1. PICK w \in Routes :
                   draft' = WithReady([draft EXCEPT !.conflict = Name(w), !.variants = {}],
                                      "Conflict", snap.generation)
            BY <4>1 DEF TargetConflict
          <5>2. QED
            BY <1>4, <3>1, <4>1, <5>1 DEF TargetConflict, Goto, Reasons
        <4>2. CASE RoutingKeyConflict
          BY <1>4, <3>2, <4>2 DEF RoutingKeyConflict, Goto, Reasons
        <4>3. QED
          BY <2>3, <4>1, <4>2
      <3>4. QED
        BY <1>1, <2>1, <3>3 DEF CurrentInv, Reconciled
    <2>4. CASE RejectTarget
      <3>1. cacheServices[Slot(job, snap)].kind \in {"absent", "clusterip", "other"}
        BY <1>5 DEF TypeOK, ServiceObject
      <3>2. /\ draft'.observed = snap.generation
            /\ draft'.reason = IF Target.kind = "absent" THEN "TargetNotFound"
                               ELSE "UnsupportedTargetType"
            /\ Target.kind # "clusterip" /\ pc' = "status"
        BY <1>1, <1>4, <2>4 DEF RejectTarget, Goto, Reasons
      <3>3. Target = cacheServices[Slot(job, snap)] /\ Slot(job, snap)' = Slot(job, snap)
        BY <1>1 DEF Target, Slot
      <3>4. Reconciled(job, snap, draft)'
        BY <1>1, <3>1, <3>2, <3>3 DEF Reconciled, caches
      <3>5. QED
        BY <1>1, <2>1, <3>2, <3>4 DEF CurrentInv
    <2>5. CASE PlanHTTPRoute
      <3> DEFINE variants == Variants(Ns(job), snap)
                 hasET == Slot(job, snap) \in cacheETs
      <3>1. [draft EXCEPT !.variants = variants] \in Status
            /\ [draft EXCEPT !.variants = variants].variants = variants
        BY <1>1 DEF Status, Variants
      <3>2. /\ draft' = WithReady([draft EXCEPT !.variants = variants],
                                  IF hasET THEN "DelegatedToEdgeTransformation" ELSE "Reconciled",
                                  snap.generation)
            /\ desired' = IF hasET THEN NoHTTPRoute ELSE PresentRoute(job, snap)
            /\ cacheServices[Slot(job, snap)].kind = "clusterip" /\ pc' = "route"
        BY <2>5 DEF PlanHTTPRoute, Goto, PresentRoute, Slot, Target
      <3>3. Variants(Ns(job), snap)' = variants /\ PresentRoute(job, snap)' = PresentRoute(job, snap)
            /\ Slot(job, snap)' = Slot(job, snap)
        BY <1>1 DEF Variants, PresentRoute, Slot, caches
      <3>4. /\ draft'.observed = snap.generation /\ draft'.variants = variants
            /\ draft'.reason = IF hasET THEN "DelegatedToEdgeTransformation" ELSE "Reconciled"
        BY <1>4, <3>1, <3>2 DEF Reasons
      <3>5. QED
        BY <1>1, <2>1, <3>2, <3>3, <3>4 DEF CurrentInv, caches
    <2>6. QED
      BY <2>2, <2>3, <2>4, <2>5
  <1>8. QED
    BY <1>1, <1>3, <1>6, <1>7 DEF QuietInv, CurrentInv, Pending

(* Releasing the routes of a ContextRoute under deletion wakes whoever owns them. *)
LEMMA ReleaseQuiet ==
    ASSUME TypeOK, QuietInv, AgeInv', ReleaseHTTPRoute
    PROVE  QuietInv'
  <1>1. /\ UNCHANGED <<crs, caches, queue, job, snap>> /\ pc = "release" /\ pc' = "finalizer"
        /\ \/ UNCHANGED routes
           \/ SetHTTPRoute(<<Ns(job), snap.status.target>>, NoHTTPRoute)
    BY DEF ReleaseHTTPRoute, DeleteOwnedHTTPRoute, Goto
  <1>2. \A s \in Routes : Undisturbed(s)
    <2>1. CASE UNCHANGED routes
      BY <1>1, <2>1 DEF Undisturbed, Steady, Pending, routes, caches
    <2>2. CASE SetHTTPRoute(<<Ns(job), snap.status.target>>, NoHTTPRoute)
      BY <1>1, <2>2, SetHTTPRouteUndisturbed
    <2>3. QED
      BY <1>1, <2>1, <2>2
  <1>3. DoneInv'
    BY <1>1, <1>2, GotoDone
  <1>4. Pending(job) => Pending(job)'
    BY <1>1, <1>2 DEF TypeOK, Undisturbed, Pending
  <1>5. CurrentInv' /\ LateRouteInv'
    BY <1>1, <1>4 DEF QuietInv, CurrentInv, LateRouteInv, caches
  <1>6. QED
    BY <1>3, <1>5 DEF QuietInv

(* An apply leaves the route the status speaks of, unless someone is woken to set it right; *)
(* so does a removal.                                                                       *)
LEMMA ApplyQuiet ==
    ASSUME TypeOK, QuietInv, AgeInv', ApplyHTTPRoute \/ DropDelegatedHTTPRoute
    PROVE  QuietInv'
  <1>1. /\ UNCHANGED <<crs, caches, queue, job, snap, draft, desired>>
        /\ pc = "route" /\ pc' = "status" /\ job \in Routes
        /\ Exists(snap) /\ snap.target \in Services /\ draft.target = snap.target
    BY DEF ApplyHTTPRoute, DropDelegatedHTTPRoute, Goto, TypeOK, QuietInv, AgeInv
  <1>2. PICK k \in Slots : k = Slot(job, snap)
    BY <1>1, SlotType
  <1>3. SetHTTPRoute(k, desired)
    BY <1>1, <1>2, NullAssumption
       DEF ApplyHTTPRoute, DropDelegatedHTTPRoute, DeleteOwnedHTTPRoute, Slot
  <1>4. ASSUME NEW s \in Routes
        PROVE  Undisturbed(s)
    <2>1. \/ desired = NoHTTPRoute
          \/ k \notin cacheETs
          \/ Exists(cacheCRs[s]) /\ k = Slot(s, cacheCRs[s]) => Pending(s)
      BY <1>1, <1>2 DEF QuietInv, LateRouteInv
    <2>2. QED
      BY <1>1, <1>3, <2>1, SetHTTPRouteUndisturbed
  <1>5. DoneInv'
    BY <1>1, <1>4, GotoDone
  <1>6. LateRouteInv'
    BY <1>1 DEF LateRouteInv
  <1>7. ASSUME ~Pending(job)'
        PROVE  CurrentInv'
    <2>1. ~Pending(job)
      BY <1>1, <1>4, <1>7 DEF Undisturbed, Pending
    <2>2. httproutes'[k] = desired
      BY <1>3 DEF SetHTTPRoute, TypeOK
    <2>3. /\ cacheCRs[job] = snap
          /\ draft.observed = snap.generation
          /\ cacheServices[k].kind = "clusterip"
          /\ k \in cacheETs => draft.reason = "DelegatedToEdgeTransformation" /\ desired = NoHTTPRoute
          /\ k \notin cacheETs =>
                /\ draft.reason = "Reconciled"
                /\ draft.variants = Variants(Ns(job), snap)
                /\ desired = PresentRoute(job, snap)
      BY <1>1, <1>2, <2>1 DEF QuietInv, CurrentInv
    <2>4. Variants(Ns(job), snap)' = Variants(Ns(job), snap)
          /\ PresentRoute(job, snap)' = PresentRoute(job, snap) /\ Slot(job, snap)' = k
      BY <1>1, <1>2 DEF Variants, PresentRoute, Slot, caches
    <2>5. Reconciled(job, snap, draft)'
      BY <1>1, <2>2, <2>3, <2>4 DEF Reconciled, caches
    <2>6. QED
      BY <1>1, <2>3, <2>5 DEF CurrentInv, caches
  <1>8. QED
    BY <1>1, <1>5, <1>6, <1>7 DEF QuietInv, CurrentInv

(* A reconcile ends where the status says what it did, or with an event still to come. *)
LEMMA UpdateStatusQuiet ==
    ASSUME TypeOK, QuietInv, AgeInv', UpdateStatus
    PROVE  QuietInv'
  <1>0. PICK written \in Status : /\ crs' = [crs EXCEPT ![job].status = written]
                                   /\ SameButTime(written, draft)
    BY StatusWritten
  <1>1. /\ pc = "status" /\ crs[job] = snap
        /\ UNCHANGED <<routes, caches, queue>> /\ Rest
        /\ job \in Routes /\ snap \in ContextRoute
    BY DEF UpdateStatus, Done, Fresh, TypeOK
  <1>2. ASSUME NEW s \in Routes, s # job
        PROVE  DoneWith(s)'
    <2>1. Undisturbed(s)
      BY <1>0, <1>1, <1>2 DEF Undisturbed, Steady, Pending, routes, caches, TypeOK
    <2>2. ~Busy(s)
      BY <1>2 DEF Busy
    <2>3. QED
      BY <2>1, <2>2, UndisturbedDone DEF QuietInv, DoneInv
  <1>3. ASSUME NEW r \in Routes, r = job, ~Pending(r)'
        PROVE  DoneWith(r)'
    <2>1. ~Pending(r)
      BY <1>1, <1>3 DEF Pending, routes
    <2>2. cacheCRs[r] = snap /\ Reconciled(r, snap, draft)
      BY <1>1, <1>3, <2>1 DEF QuietInv, CurrentInv
    <2>3. crs'[r] = [snap EXCEPT !.status = written]
      BY <1>0, <1>1, <1>3 DEF TypeOK
    <2>4. crs'[r].status = written
      BY <1>1, <2>3 DEF ContextRoute
    <2>5. ASSUME crs'[r] = cacheCRs'[r]
          PROVE  Reconciled(r, cacheCRs[r], cacheCRs[r].status)'
      <3>1. PICK cr \in ContextRoute : cr = snap
        BY <1>1
      <3>2. cacheCRs'[r] = cr /\ cr.status = written
        BY <1>1, <2>2, <2>4, <2>5, <3>1 DEF caches
      <3>3. Reconciled(r, cr, cr.status)
        BY <1>0, <2>2, <3>1, <3>2 DEF Reconciled, SameButTime
      <3>4. Variants(Ns(r), cr)' = Variants(Ns(r), cr) /\ PresentRoute(r, cr)' = PresentRoute(r, cr)
        BY <1>1 DEF Variants, PresentRoute, caches
      <3>5. Reconciled(r, cr, cr.status)'
        BY <1>1, <3>3, <3>4 DEF Reconciled, Slot, routes, caches
      <3>6. QED
        BY <3>2, <3>5
    <2>6. QED
      BY <2>5 DEF DoneWith
  <1>4. DoneInv'
    BY <1>2, <1>3 DEF DoneInv, DoneWith
  <1>5. QED
    BY <1>1, <1>4 DEF QuietInv, CurrentInv, LateRouteInv, Rest

(* The finalizer's update is an event to come: of an object that has gone, or of one that  *)
(* is taken up again.                                                                      *)
LEMMA UpdateFinalizerQuiet ==
    ASSUME TypeOK, QuietInv, AgeInv', UpdateFinalizer
    PROVE  QuietInv'
  <1>1. /\ pc = "finalizer" /\ UNCHANGED <<routes, caches>> /\ Rest /\ job \in Routes
        /\ \A s \in Routes \ {job} : crs'[s] = crs[s]
    BY DEF UpdateFinalizer, Done, Retry, TypeOK
  <1>2. CASE snap.deleting
    <2>1. crs'[job] = NoContextRoute /\ UNCHANGED queue
      BY <1>1, <1>2 DEF UpdateFinalizer, Done, TypeOK
    <2>2. ASSUME NEW s \in Routes
          PROVE  DoneWith(s)'
      <3>1. CASE s = job
        BY <1>1, <2>1, <3>1 DEF DoneWith, NoContextRoute, Exists
      <3>2. CASE s # job
        <4>1. Undisturbed(s)
          BY <1>1, <2>1, <3>2 DEF Undisturbed, Steady, Pending, routes, caches
        <4>2. ~Busy(s)
          BY <3>2 DEF Busy
        <4>3. QED
          BY <4>1, <4>2, UndisturbedDone DEF QuietInv, DoneInv
      <3>3. QED
        BY <3>1, <3>2
    <2>3. QED
      BY <1>1, <2>2 DEF QuietInv, DoneInv, CurrentInv, LateRouteInv, Rest
  <1>3. CASE ~snap.deleting
    <2>1. queue' = queue \cup {job}
      BY <1>3 DEF UpdateFinalizer, Retry
    <2>2. \A s \in Routes : Undisturbed(s)
      BY <1>1, <2>1 DEF Undisturbed, Steady, Pending, routes, caches
    <2>3. \A s \in Routes : Busy(s) => Pending(s)'
      BY <2>1 DEF Busy, Pending
    <2>4. QED
      BY <1>1, <2>2, <2>3, OthersQuiet
  <1>4. QED
    BY <1>2, <1>3

(* The restarted operator has everything reconciled that its caches show. *)
LEMMA RestartQuiet ==
    ASSUME AgeInv', Restart
    PROVE  QuietInv'
  <1>1. /\ \A r \in Routes : Exists(crs[r]) => r \in queue'
        /\ cacheCRs' = crs /\ pc' = "idle"
    BY DEF Restart, Rest
  <1>2. QED
    BY <1>1 DEF QuietInv, DoneInv, DoneWith, CurrentInv, LateRouteInv, Pending

(* Every step keeps QuietInv. *)
LEMMA NextQuiet ==
    ASSUME TypeOK, QuietInv, [Next]_vars
    PROVE  QuietInv'
  <1>1. AgeInv'
    BY NextAge DEF QuietInv
  <1>2. CASE User
    <2>1. UNCHANGED worker
      BY <1>2 DEF User, CreateContextRoute, EditContextRoute, DeleteContextRoute, SetService,
         ToggleET, DropHTTPRoute
    <2>2. \A r \in Routes : Undisturbed(r)
      BY <1>2, UserUndisturbed DEF QuietInv
    <2>3. QED
      BY <1>1, <2>1, <2>2, OthersQuiet
  <1>3. CASE \/ Deliver
             \/ \E k \in Slots : CollectHTTPRoute(k)
    <2>1. UNCHANGED worker
      BY <1>3 DEF Deliver, DeliverContextRoute, DeliverHTTPRoute, DeliverService, DeliverET,
         CollectHTTPRoute
    <2>2. \A r \in Routes : Undisturbed(r)
      BY <1>3, OthersUndisturbed
    <2>3. QED
      BY <1>1, <2>1, <2>2, OthersQuiet
  <1>4. ASSUME NEW r \in Routes, TakeRequest(r)
        PROVE  QuietInv'
    BY <1>1, <1>4, TakeQuiet
  <1>5. CASE Step
    BY <1>1, <1>5, ReleaseQuiet, UpdateFinalizerQuiet, PlanQuiet, ApplyQuiet, RetryQuiet,
       UpdateStatusQuiet DEF Step
  <1>6. CASE WriteFails
    BY <1>1, <1>6, RetryQuiet
  <1>7. CASE Restart
    BY <1>1, <1>7, RestartQuiet
  <1>8. CASE UNCHANGED vars
    <2>1. \A r \in Routes : Undisturbed(r)
      BY <1>8 DEF vars, store, routes, caches, Undisturbed, Steady, Pending
    <2>2. QED
      BY <1>1, <1>8, <2>1, OthersQuiet DEF vars
  <1>9. QED
    BY <1>2, <1>3, <1>4, <1>5, <1>6, <1>7, <1>8 DEF Next

(* QuietInv is an invariant: at every moment, a live ContextRoute is reconciled with the   *)
(* present caches as far as its own spec, target, Services and EdgeTransformations go, or  *)
(* something that is still to come will have it reconciled. No edit, no early return, no   *)
(* overwritten, dropped or collected route and no restart is forgotten. Whether it was     *)
(* turned away for another ContextRoute is all that may be out of date.                    *)
THEOREM NothingIsForgotten == Spec => []QuietInv
  BY InitQuiet, NextQuiet, TypeCorrect, PTL DEF Spec

(* Once all is quiet every live ContextRoute is reconciled with the store. *)
LEMMA QuiescentIsReconciled ==
    ASSUME TypeOK, QuietInv, Quiescent, NEW r \in Routes, Live(r)
    PROVE  /\ Reconciled(r, crs[r], crs[r].status)
           /\ PresentRoute(r, crs[r]) = Wanted(r)
           /\ Variants(Ns(r), crs[r]) = Wanted(r).variants
           /\ Slot(r, crs[r]) \in Slots
           /\ cacheServices[Slot(r, crs[r])].kind \in {"absent", "clusterip", "other"}
  <1>1. Reconciled(r, crs[r], crs[r].status)
    BY DEF QuietInv, DoneInv, DoneWith, Quiescent, Live, Pending, Busy
  <1>2. PresentRoute(r, crs[r]) = Wanted(r) /\ Variants(Ns(r), crs[r]) = Wanted(r).variants
    BY DEF PresentRoute, RenderHTTPRoute, Wanted, Variants, Quiescent
  <1>3. Slot(r, crs[r]) \in Slots
    BY SlotType DEF QuietInv, AgeInv, Live
  <1>4. cacheServices[Slot(r, crs[r])].kind \in {"absent", "clusterip", "other"}
    BY <1>3 DEF TypeOK, ServiceObject
  <1>5. QED
    BY <1>1, <1>2, <1>3, <1>4

(* ReadyRouteInstalled always holds: a ContextRoute that reports Reconciled when all is    *)
(* quiet has the route its spec and the Services ask for, whatever happened on the way.    *)
THEOREM ReadyRouteIsInstalled == Spec => []ReadyRouteInstalled
  <1>1. TypeOK /\ QuietInv => ReadyRouteInstalled
    <2> SUFFICES ASSUME TypeOK, QuietInv, Quiescent, NEW r \in Routes, Live(r),
                        crs[r].status.reason = "Reconciled"
                 PROVE  /\ crs[r].status.observed = crs[r].generation
                        /\ httproutes[Slot(r, crs[r])] = Wanted(r)
                        /\ crs[r].status.variants = Wanted(r).variants
      BY DEF ReadyRouteInstalled, Slot
    <2>1. QED
      BY QuiescentIsReconciled DEF Reconciled
  <1>2. QED
    BY <1>1, TypeCorrect, NothingIsForgotten, PTL

(* DelegatedHasNoRoute always holds: when all is quiet, a target handed over to an          *)
(* EdgeTransformation has no route of a ContextRoute beside the translator's.               *)
THEOREM DelegatedRouteIsGone == Spec => []DelegatedHasNoRoute
  <1>1. TypeOK /\ QuietInv => DelegatedHasNoRoute
    <2> SUFFICES ASSUME TypeOK, QuietInv, Quiescent, NEW r \in Routes, Live(r),
                        crs[r].status.reason = "DelegatedToEdgeTransformation"
                 PROVE  httproutes[Slot(r, crs[r])] = NoHTTPRoute
      BY DEF DelegatedHasNoRoute, Slot
    <2>1. QED
      BY QuiescentIsReconciled DEF Reconciled
  <1>2. QED
    BY <1>1, TypeCorrect, NothingIsForgotten, PTL

(* OthersTurnedAway always holds: two ContextRoutes that both serve one target would both  *)
(* have their own route in the one slot of that target.                                    *)
THEOREM OthersAreTurnedAway == Spec => []OthersTurnedAway
  <1>1. TypeOK /\ QuietInv => OthersTurnedAway
    <2> SUFFICES ASSUME TypeOK, QuietInv, Quiescent, NEW r \in Routes, NEW s \in Routes,
                        Live(r), crs[r].status.reason = "Reconciled",
                        Live(s), Ns(r) = Ns(s), crs[r].target = crs[s].target, r # s,
                        crs[s].status.reason \notin {"Conflict", "RoutingKeyConflict"}
                 PROVE  FALSE
      BY DEF OthersTurnedAway
    <2>1. Slot(s, crs[s]) = Slot(r, crs[r])
      BY DEF Slot
    <2>2. /\ cacheServices[Slot(r, crs[r])].kind = "clusterip"
          /\ Slot(r, crs[r]) \notin cacheETs
          /\ httproutes[Slot(r, crs[r])] = PresentRoute(r, crs[r])
      BY QuiescentIsReconciled DEF Reconciled
    <2>3. Reconciled(s, crs[s], crs[s].status)
      BY QuiescentIsReconciled
    <2>4. httproutes[Slot(r, crs[r])] = PresentRoute(s, crs[s])
      BY <2>1, <2>2, <2>3 DEF Reconciled
    <2>5. Name(r) = Name(s)
      BY <2>2, <2>4 DEF PresentRoute, RenderHTTPRoute
    <2>6. r = s
      BY <2>5, RoutesAssumption DEF Ns, Name
    <2>7. QED
      BY <2>6
  <1>2. QED
    BY <1>1, TypeCorrect, NothingIsForgotten, PTL
=============================================================================
