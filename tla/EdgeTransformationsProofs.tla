--------------------- MODULE EdgeTransformationsProofs ---------------------
(***************************************************************************)
(* Theorems about EdgeTransformations, for any number of them, of          *)
(* ContextRoutes, Services and Pods, and any number of user steps and      *)
(* faults.                                                                 *)
(***************************************************************************)
EXTENDS EdgeTransformations, TLAPS

(* The absent objects have the types of the present ones. *)
LEMMA NullTypes ==
    /\ NoStatus \in Status
    /\ NoEdgeTransformation \in EdgeTransformation
    /\ NoContextRoute \in ContextRoute
    /\ NoTable \in Table
    /\ NoConfigMap \in ConfigMap /\ NoDeployment \in Deployment /\ NoHTTPRoute \in HTTPRoute
  <1>1. NoStatus \in Status
    BY DEF NoStatus, Status, Reasons
  <1>2. NoTable \in Table
    BY DEF NoTable, Table
  <1>3. QED
    BY <1>1, <1>2 DEF NoEdgeTransformation, EdgeTransformation, NoContextRoute, ContextRoute,
       NoConfigMap, ConfigMap, NoDeployment, Deployment, NoHTTPRoute, HTTPRoute

(* What users write becomes well-formed objects. *)
LEMMA NewEdgeTransformationType ==
    ASSUME NEW spec \in ETSpecs, NEW uid \in Nat
    PROVE  NewEdgeTransformation(spec, uid) \in EdgeTransformation
  BY NullTypes, BoundsAssumption DEF NewEdgeTransformation, EdgeTransformation,
     EdgeTransformationSpec

LEMMA AttachType ==
    ASSUME NEW spec \in CRSpecs, NEW created \in Nat
    PROVE  Attach(spec, created) \in ContextRoute
  BY BoundsAssumption DEF Attach, ContextRoute, ContextRouteSpec

(* The caches hold what a table needs. *)
LEMMA TablesType ==
    ASSUME TypeOK, NEW t \in Services
    PROVE  Tables(t) \subseteq Table
  <1>1. cacheEndpoints[t] \in Addresses \cup {0} /\ NoTable.variants \in [Services -> Addresses \cup {0}]
    BY DEF TypeOK, NoTable
  <1>2. [key |-> t, default |-> cacheEndpoints[t], variants |-> NoTable.variants] \in Table
    BY <1>1 DEF Table
  <1>3. ASSUME NEW c \in CRs, Wins(c, t)
        PROVE  [key |-> EffectiveRoutingKey(cacheCRs[c]), default |-> cacheEndpoints[t],
                variants |-> VariantBackends(cacheCRs[c])] \in Table
    <2>1. EffectiveRoutingKey(cacheCRs[c]) \in CustomKeys \cup Services \cup {NoKey}
      BY <1>3 DEF TypeOK, ContextRoute, Wins, Attached, EffectiveRoutingKey
    <2>2. VariantBackends(cacheCRs[c]) \in [Services -> Addresses \cup {0}]
      BY DEF TypeOK, VariantBackends
    <2>3. QED
      BY <1>1, <2>1, <2>2 DEF Table
  <1>4. QED
    BY <1>2, <1>3 DEF Tables

(* Events of generated objects name EdgeTransformations, and a write keeps their types. *)
LEMMA MapHTTPRouteType ==
    ASSUME NEW hr \in HTTPRoute
    PROVE  MapHTTPRouteToET(hr) \subseteq ETs
  BY DEF MapHTTPRouteToET, HTTPRoute

LEMMA SetConfigMapType ==
    ASSUME TypeOK, NEW e \in ETs, NEW cm \in ConfigMap, SetConfigMap(e, cm)
    PROVE  /\ configMaps' \in [ETs -> ConfigMap] /\ wakeups' \subseteq ETs
           /\ UNCHANGED <<translators, deployments, httproutes>>
  BY DEF TypeOK, SetConfigMap, Wake

LEMMA SetTranslatorType ==
    ASSUME TypeOK, NEW e \in ETs, NEW uid \in Nat, SetTranslator(e, uid)
    PROVE  /\ translators' \in [ETs -> Nat] /\ wakeups' \subseteq ETs
           /\ UNCHANGED <<configMaps, deployments, httproutes>>
  BY DEF TypeOK, SetTranslator, Wake

LEMMA SetDeploymentType ==
    ASSUME TypeOK, NEW e \in ETs, NEW d \in Deployment, SetDeployment(e, d)
    PROVE  /\ deployments' \in [ETs -> Deployment] /\ wakeups' \subseteq ETs
           /\ UNCHANGED <<configMaps, translators, httproutes>>
  BY DEF TypeOK, SetDeployment, Wake

LEMMA SetHTTPRouteType ==
    ASSUME TypeOK, NEW t \in Services, NEW hr \in HTTPRoute, SetHTTPRoute(t, hr)
    PROVE  /\ httproutes' \in [Services -> HTTPRoute] /\ wakeups' \subseteq ETs
           /\ UNCHANGED <<configMaps, translators, deployments>>
  <1>1. MapHTTPRouteToET(httproutes[t]) \subseteq ETs /\ MapHTTPRouteToET(hr) \subseteq ETs
    BY MapHTTPRouteType DEF TypeOK
  <1>2. wakeups' \subseteq ETs
    BY <1>1 DEF TypeOK, SetHTTPRoute, Wake
  <1>3. QED
    BY <1>2 DEF TypeOK, SetHTTPRoute

(* The worker's variables are well-formed after it has returned. *)
LEMMA RestType ==
    ASSUME Rest
    PROVE  /\ pc' \in PCs /\ job' \in ETs \cup {NoET}
           /\ (pc' # "idle" => job' \in ETs /\ Exists(snap'))
           /\ snap' \in EdgeTransformation /\ draft' \in Status /\ table' \in Table
  BY NullTypes DEF Rest, PCs

LEMMA WithReadyType ==
    ASSUME TypeOK, NEW status \in Status, NEW reason \in Reasons
    PROVE  WithReady(status, reason) \in Status
  BY DEF WithReady, Status, TypeOK, EdgeTransformation

LEMMA InitTypeOK == Init => TypeOK
  <1> SUFFICES ASSUME Init PROVE TypeOK
    OBVIOUS
  <1>1. ets \in [ETs -> EdgeTransformation]
    BY NewEdgeTransformationType, NullTypes DEF Init
  <1>2. crs \in [CRs -> ContextRoute]
    BY AttachType, NullTypes DEF Init
  <1>3. uids \in [ETs -> Nat]
    BY <1>1 DEF Init, EdgeTransformation
  <1>4. services \in [Services -> ServiceObject]
    BY BoundsAssumption DEF Init
  <1>5. /\ configMaps \in [ETs -> ConfigMap] /\ deployments \in [ETs -> Deployment]
        /\ translators \in [ETs -> Nat] /\ httproutes \in [Services -> HTTPRoute]
    BY NullTypes DEF Init
  <1>6. QED
    BY <1>1, <1>2, <1>3, <1>4, <1>5, NullTypes, BoundsAssumption DEF Init, TypeOK, PCs

(* A user step keeps the types. *)
LEMMA UserTypeOK == TypeOK /\ User => TypeOK'
  <1> SUFFICES ASSUME TypeOK, User PROVE TypeOK'
    OBVIOUS
  <1> USE DEF TypeOK, inputs, generated, caches, worker, bounds, Move
  <1>0. moves < MaxMoves /\ moves' = moves + 1 => moves' \in 0..MaxMoves
    BY BoundsAssumption
  <1>1. ASSUME NEW e \in ETs, NEW spec \in ETSpecs, CreateET(e, spec)
        PROVE  TypeOK'
    <2>1. uids' \in [ETs -> Nat] /\ uids'[e] \in Nat
      BY <1>1 DEF CreateET
    <2>2. ets' \in [ETs -> EdgeTransformation]
      BY <1>1, <2>1, NewEdgeTransformationType DEF CreateET
    <2>3. QED
      BY <1>0, <1>1, <2>1, <2>2 DEF CreateET
  <1>2. ASSUME NEW e \in ETs, NEW spec \in ETSpecs, EditET(e, spec)
        PROVE  TypeOK'
    <2>1. spec.router \in BOOLEAN /\ spec.target \in Services
      BY BoundsAssumption DEF EdgeTransformationSpec
    <2>2. [ets[e] EXCEPT !.generation = ets[e].generation + 1,
                         !.router = spec.router, !.target = spec.target] \in EdgeTransformation
      <3>1. ets[e] \in EdgeTransformation
        OBVIOUS
      <3>2. ets[e].generation + 1 \in Nat
        BY <3>1 DEF EdgeTransformation
      <3>3. QED
        BY <2>1, <3>1, <3>2 DEF EdgeTransformation
    <2>3. ets' = [ets EXCEPT ![e] = [ets[e] EXCEPT !.generation = ets[e].generation + 1,
                                       !.router = spec.router, !.target = spec.target]]
      BY <1>2 DEF EditET
    <2>4. ets' \in [ETs -> EdgeTransformation]
      BY <2>2, <2>3
    <2>5. QED
      BY <1>0, <1>2, <2>4 DEF EditET
  <1>3. ASSUME NEW e \in ETs, DeleteET(e)
        PROVE  TypeOK'
    BY <1>0, <1>3, NullTypes DEF DeleteET
  <1>4. ASSUME NEW c \in CRs, NEW spec \in CRSpecs, NEW sameSecond \in BOOLEAN,
               SetContextRoute(c, spec, sameSecond)
        PROVE  TypeOK'
    <2>1. clock' \in Nat
      BY <1>4 DEF SetContextRoute
    <2>2. crs[c].created \in Nat
      BY DEF ContextRoute
    <2>3. Attach(spec, clock') \in ContextRoute /\ Attach(spec, crs[c].created) \in ContextRoute
      BY <2>1, <2>2, AttachType
    <2>4. crs' \in [CRs -> ContextRoute]
      BY <1>4, <2>3 DEF SetContextRoute
    <2>5. QED
      BY <1>0, <1>4, <2>1, <2>4 DEF SetContextRoute
  <1>5. ASSUME NEW c \in CRs, DeleteContextRoute(c)
        PROVE  TypeOK'
    BY <1>0, <1>5, NullTypes DEF DeleteContextRoute
  <1>6. ASSUME NEW s \in Services, NEW svc \in ServiceObjects, SetService(s, svc)
        PROVE  TypeOK'
    BY <1>0, <1>6, BoundsAssumption DEF SetService
  <1>7. ASSUME NEW s \in Services, NEW a \in Addresses \cup {0}, SetEndpoint(s, a)
        PROVE  TypeOK'
    BY <1>0, <1>7 DEF SetEndpoint
  <1>8. ASSUME NEW e \in ETs, DropGenerated(e)
        PROVE  TypeOK'
    <2>1. /\ configMaps' \in [ETs -> ConfigMap] /\ translators' \in [ETs -> Nat]
          /\ deployments' \in [ETs -> Deployment] /\ httproutes' \in [Services -> HTTPRoute]
          /\ wakeups' \subseteq ETs
      BY <1>8, NullTypes, SetConfigMapType, SetTranslatorType, SetDeploymentType,
         SetHTTPRouteType DEF DropGenerated
    <2>2. QED
      BY <1>0, <1>8, <2>1 DEF DropGenerated
  <1>9. ASSUME NEW e \in ETs, Disrupt(e)
        PROVE  TypeOK'
    <2>1. deployments' \in [ETs -> Deployment]
      BY <1>9 DEF Disrupt, Deployment
    <2>2. QED
      BY <1>0, <1>9, <2>1 DEF Disrupt
  <1>10. QED
    BY <1>1, <1>2, <1>3, <1>4, <1>5, <1>6, <1>7, <1>8, <1>9 DEF User

(* Deliveries, Kubernetes' own controllers and taking a request keep the types. *)
LEMMA DeliverTypeOK ==
    ASSUME TypeOK,
           \/ Deliver
           \/ \E e \in ETs : TakeRequest(e) \/ Collect(e) \/ RollOut(e)
    PROVE  TypeOK'
  <1> USE DEF TypeOK, inputs, generated, caches, worker, bounds
  <1>0. \A t : OnTarget(t) \subseteq ETs
    BY DEF OnTarget
  <1>1. ASSUME NEW e \in ETs, DeliverET(e) \/ DeliverAvailable(e) \/ DeliverGenerated(e)
        PROVE  TypeOK'
    <2>1. deployments[e].available \in BOOLEAN
      BY DEF Deployment
    <2>2. QED
      BY <1>1, <2>1 DEF DeliverET, DeliverAvailable, DeliverGenerated
  <1>2. ASSUME NEW c \in CRs, DeliverContextRoute(c) \/ DeliverContextRouteStatus(c)
        PROVE  TypeOK'
    <2>1. queue' \subseteq ETs
      BY <1>0, <1>2, Zenon DEF DeliverContextRoute, DeliverContextRouteStatus, MapCRToET
    <2>2. QED
      BY <1>2, <2>1 DEF DeliverContextRoute, DeliverContextRouteStatus
  <1>3. ASSUME NEW s \in Services, DeliverService(s)
        PROVE  TypeOK'
    <2>1. \A svc : MapServiceToETs(s, svc) \subseteq ETs
      BY DEF MapServiceToETs
    <2>2. queue' \subseteq ETs
      BY <1>3, <2>1, Zenon DEF DeliverService
    <2>3. QED
      BY <1>3, <2>2 DEF DeliverService
  <1>4. ASSUME NEW s \in Services, DeliverEndpoint(s)
        PROVE  TypeOK'
    <2>1. queue' \subseteq ETs
      BY <1>4 DEF DeliverEndpoint, MapEndpointSliceToETs
    <2>2. QED
      BY <1>4, <2>1 DEF DeliverEndpoint
  <1>5. ASSUME NEW e \in ETs, TakeRequest(e)
        PROVE  TypeOK'
    <2>1. CASE Exists(cacheETs[e])
      <3>1. snap' = cacheETs[e] /\ draft' = cacheETs[e].status /\ pc' = "plan" /\ job' = e
        BY <1>5, <2>1 DEF TakeRequest
      <3>2. snap' \in EdgeTransformation /\ draft' \in Status /\ Exists(snap') /\ pc' \in PCs
        BY <2>1, <3>1 DEF EdgeTransformation, PCs, Exists
      <3>3. QED
        BY <1>5, <2>1, <3>1, <3>2 DEF TakeRequest
    <2>2. CASE ~Exists(cacheETs[e])
      BY <1>5, <2>2, RestType DEF TakeRequest
    <2>3. QED
      BY <2>1, <2>2
  <1>6. ASSUME NEW e \in ETs, Collect(e)
        PROVE  TypeOK'
    <2>1. /\ configMaps' \in [ETs -> ConfigMap] /\ translators' \in [ETs -> Nat]
          /\ deployments' \in [ETs -> Deployment] /\ httproutes' \in [Services -> HTTPRoute]
          /\ wakeups' \subseteq ETs
      BY <1>6, NullTypes, SetConfigMapType, SetTranslatorType, SetDeploymentType,
         SetHTTPRouteType DEF Collect
    <2>2. QED
      BY <1>6, <2>1 DEF Collect
  <1>7. ASSUME NEW e \in ETs, RollOut(e)
        PROVE  TypeOK'
    <2>1. [deployments[e] EXCEPT !.available = TRUE] \in Deployment
      BY DEF Deployment
    <2>2. deployments' = [deployments EXCEPT ![e] = [deployments[e] EXCEPT !.available = TRUE]]
      BY <1>7 DEF RollOut
    <2>3. deployments' \in [ETs -> Deployment]
      BY <2>1, <2>2
    <2>4. QED
      BY <1>7, <2>3 DEF RollOut
  <1>8. QED
    BY <1>1, <1>2, <1>3, <1>4, <1>5, <1>6, <1>7 DEF Deliver

(* What is written into the status is the draft, with a time of its own. *)
SameButTime(written, status) ==
    /\ written.target = status.target /\ written.ready = status.ready
    /\ written.reason = status.reason /\ written.observed = status.observed

LEMMA StatusWritten ==
    ASSUME TypeOK, UpdateStatus
    PROVE  \E written \in Status : /\ ets' = [ets EXCEPT ![job].status = written]
                                   /\ SameButTime(written, draft)
  <1>1. PICK stamp \in BOOLEAN : ets' = [ets EXCEPT ![job].status = [draft EXCEPT !.stamp = stamp]]
    BY DEF UpdateStatus, TypeOK, Status
  <1>2. [draft EXCEPT !.stamp = stamp] \in Status /\ SameButTime([draft EXCEPT !.stamp = stamp], draft)
    BY DEF TypeOK, Status, SameButTime
  <1>3. QED
    BY <1>1, <1>2

(* The steps that leave the worker at another label keep the types of what they leave alone. *)
LEMMA GotoType ==
    ASSUME TypeOK, NEW label \in PCs \ {"idle"}, pc # "idle", Goto(label)
    PROVE  /\ pc' \in PCs /\ job' \in ETs \cup {NoET} /\ queue' \subseteq ETs
           /\ snap' \in EdgeTransformation
           /\ (pc' # "idle" => job' \in ETs /\ Exists(snap'))
  BY DEF TypeOK, Goto

(* Every step of the worker keeps the types. *)
LEMMA WorkerTypeOK == TypeOK /\ Step => TypeOK'
  <1> SUFFICES ASSUME TypeOK, Step PROVE TypeOK'
    OBVIOUS
  <1> USE DEF inputs, generated, caches, bounds
  <1>0. pc # "idle" => job \in ETs /\ snap.target \in Services /\ snap.uid \in Nat
    BY DEF TypeOK, EdgeTransformation, Exists
  <1>1. ASSUME NEW reason \in Reasons, pc = "plan", Reject(reason)
        PROVE  TypeOK'
    <2>1. [draft EXCEPT !.target = snap.target] \in Status
      BY <1>0, <1>1 DEF TypeOK, Status
    <2>2. draft \in Status
      BY DEF TypeOK
    <2>3. draft' \in Status
      BY <1>1, <2>1, <2>2, WithReadyType DEF Reject
    <2>4. QED
      BY <1>1, <2>3, GotoType DEF Reject, PCs, TypeOK
  <1>2. CASE RejectMode \/ RejectTarget \/ RejectEndpoints
    BY <1>1, <1>2 DEF RejectMode, RejectTarget, RejectEndpoints, Reasons
  <1>3. CASE RejectVariants \/ UpdateRefused
    <2>1. queue' \subseteq ETs /\ Rest
      BY <1>0, <1>3 DEF RejectVariants, UpdateRefused, Retry, TypeOK
    <2>2. QED
      BY <1>3, <2>1, RestType DEF RejectVariants, UpdateRefused, TypeOK
  <1>4. CASE RenderTable
    <2>1. [draft EXCEPT !.target = snap.target] \in Status
      BY <1>0, <1>4 DEF TypeOK, Status, RenderTable
    <2>2. table' \in Table
      BY <1>0, <1>4, TablesType DEF RenderTable
    <2>3. QED
      BY <1>4, <2>1, <2>2, GotoType DEF RenderTable, PCs, TypeOK
  <1>5. CASE ApplyConfigMap
    <2>1. [uid |-> snap.uid, table |-> table] \in ConfigMap
      BY <1>0, <1>5 DEF ApplyConfigMap, TypeOK, ConfigMap
    <2>2. QED
      BY <1>0, <1>5, <2>1, SetConfigMapType, GotoType DEF ApplyConfigMap, PCs, TypeOK
  <1>6. CASE ApplyService
    BY <1>0, <1>6, SetTranslatorType, GotoType DEF ApplyService, PCs, TypeOK
  <1>7. CASE ApplyDeployment
    <2>1. [deployments[job] EXCEPT !.uid = snap.uid, !.table = table] \in Deployment
      BY <1>0, <1>7 DEF ApplyDeployment, TypeOK, Deployment
    <2>2. QED
      BY <1>0, <1>7, <2>1, SetDeploymentType, GotoType DEF ApplyDeployment, PCs, TypeOK
  <1>8. CASE ApplyHTTPRoute
    <2>1. [owner |-> job, uid |-> snap.uid] \in HTTPRoute
      BY <1>0, <1>8 DEF ApplyHTTPRoute, HTTPRoute
    <2>2. QED
      BY <1>0, <1>8, <2>1, SetHTTPRouteType, GotoType DEF ApplyHTTPRoute, PCs, TypeOK
  <1>9. CASE ReadDeployment
    <2>1. [draft EXCEPT !.ready = cacheAvailable[job]] \in Status
      BY <1>0, <1>9 DEF ReadDeployment, TypeOK, Status
    <2>2. draft' \in Status
      BY <1>9, <2>1, WithReadyType DEF ReadDeployment, Reasons
    <2>3. QED
      BY <1>9, <2>2, GotoType DEF ReadDeployment, PCs, TypeOK
  <1>10. CASE UpdateStatus
    <2>1. PICK written \in Status : ets' = [ets EXCEPT ![job].status = written]
      BY <1>10, StatusWritten
    <2>2. job \in ETs /\ [ets[job] EXCEPT !.status = written] \in EdgeTransformation
      BY <1>0, <1>10 DEF UpdateStatus, TypeOK, EdgeTransformation
    <2>3. ets' \in [ETs -> EdgeTransformation]
      BY <2>1, <2>2 DEF TypeOK
    <2>4. QED
      BY <1>10, <2>3, RestType DEF UpdateStatus, Done, TypeOK
  <1>11. QED
    BY <1>2, <1>3, <1>4, <1>5, <1>6, <1>7, <1>8, <1>9, <1>10 DEF Step

(* A failed write and a restart keep the types. *)
LEMMA FaultTypeOK == TypeOK /\ (WriteFails \/ Restart) => TypeOK'
  <1> SUFFICES ASSUME TypeOK, WriteFails \/ Restart PROVE TypeOK'
    OBVIOUS
  <1> USE DEF TypeOK, inputs, generated, caches, bounds, Move
  <1>0. moves < MaxMoves /\ moves' = moves + 1 => moves' \in 0..MaxMoves
    BY BoundsAssumption
  <1>1. CASE WriteFails
    <2>1. queue' \subseteq ETs /\ Rest
      BY <1>1 DEF WriteFails, Retry
    <2>2. QED
      BY <1>0, <1>1, <2>1, RestType DEF WriteFails
  <1>2. CASE Restart
    <2>1. \A t \in Services : MapHTTPRouteToET(httproutes[t]) \subseteq ETs
      BY MapHTTPRouteType
    <2>2. queue' \subseteq ETs
      BY <1>2, <2>1 DEF Restart
    <2>3. cacheAvailable' \in [ETs -> BOOLEAN]
      BY <1>2 DEF Restart, Deployment
    <2>4. QED
      BY <1>0, <1>2, <2>2, <2>3, RestType DEF Restart
  <1>3. QED
    BY <1>1, <1>2

(* Every step keeps the types. *)
LEMMA NextTypeOK == TypeOK /\ [Next]_vars => TypeOK'
  <1> SUFFICES ASSUME TypeOK, [Next]_vars PROVE TypeOK'
    OBVIOUS
  <1>1. CASE UNCHANGED vars
    BY <1>1 DEF TypeOK, vars, inputs, generated, caches, worker, bounds
  <1>2. CASE Next
    BY <1>2, UserTypeOK, DeliverTypeOK, WorkerTypeOK, FaultTypeOK DEF Next
  <1>3. QED
    BY <1>1, <1>2

(* TypeOK is an invariant: a reconcile never works on a target that is no Service name,  *)
(* never writes a status out of type, and requests only name EdgeTransformations.        *)
THEOREM TypeCorrect == Spec => []TypeOK
  <1>1. Init => TypeOK
    BY InitTypeOK
  <1>2. TypeOK /\ [Next]_vars => TypeOK'
    BY NextTypeOK
  <1>3. QED
    BY <1>1, <1>2, PTL DEF Spec

-----------------------------------------------------------------------------
(* A route leads to a translator. *)

(* Steps that leave the UIDs in use alone, and the worker where it is or not before a   *)
(* write that counts, keep RouteInv.                                                    *)
LEMMA RouteFrame ==
    ASSUME TypeOK, RouteInv,
           \A e \in ETs : /\ ets'[e].uid = ets[e].uid
                          /\ cacheETs'[e].uid = cacheETs[e].uid
                          /\ deployments'[e].uid = deployments[e].uid,
           UNCHANGED <<translators, httproutes, uids>>,
           \/ UNCHANGED <<pc, job, snap>>
           \/ Rest
           \/ UNCHANGED <<job, snap>> /\ pc # "idle" /\ pc' \notin {"deployment", "httproute"}
    PROVE  RouteInv'
  <1> USE DEF RouteInv, UidsHandedOut, WorkerSeen, RouteSeen, WorkloadApplied,
              RouteHasTranslator, Living
  <1>1. pc # "idle" => job \in ETs
    BY DEF TypeOK
  <1>2. pc' # "idle" => pc # "idle" /\ UNCHANGED <<job, snap>>
    BY DEF Rest
  <1>3. pc' \in {"deployment", "httproute"} => pc' = pc
    BY DEF Rest
  <1>4. UidsHandedOut'
    BY <1>1, <1>2
  <1>5. WorkerSeen' /\ WorkloadApplied'
    BY <1>1, <1>2, <1>3
  <1>6. RouteSeen' /\ RouteHasTranslator'
    BY <1>1, <1>2
  <1>7. QED
    BY <1>4, <1>5, <1>6

LEMMA RouteInit == Init => RouteInv
  <1> SUFFICES ASSUME Init PROVE RouteInv
    OBVIOUS
  <1>1. TypeOK
    BY InitTypeOK
  <1>2. \A e \in ETs : ets[e].uid \in Nat /\ uids[e] = ets[e].uid
    BY <1>1 DEF TypeOK, Init, EdgeTransformation
  <1>3. pc = "idle" /\ cacheETs = ets /\ \A t \in Services : httproutes[t].owner = NoET
    BY DEF Init, NoHTTPRoute
  <1>4. QED
    BY <1>2, <1>3, NullAssumption DEF RouteInv, UidsHandedOut, WorkerSeen, RouteSeen,
       WorkloadApplied, RouteHasTranslator

(* A new EdgeTransformation has a UID that no route and no worker carries; a deleted one *)
(* has none.                                                                             *)
LEMMA RouteCreateDelete ==
    ASSUME TypeOK, RouteInv, NEW e \in ETs,
           DeleteET(e) \/ \E spec \in ETSpecs : CreateET(e, spec)
    PROVE  RouteInv'
  <1> USE DEF RouteInv, UidsHandedOut, WorkerSeen, RouteSeen, WorkloadApplied,
              RouteHasTranslator, Living
  <1>1. UNCHANGED <<cacheETs, translators, deployments, httproutes, pc, job, snap>>
    BY DEF CreateET, DeleteET, generated, caches, worker
  <1>2. /\ \A f \in ETs \ {e} : ets'[f] = ets[f] /\ uids'[f] = uids[f]
        /\ uids[e] \in Nat /\ uids'[e] \in Nat /\ uids[e] <= uids'[e] /\ ets'[e].uid <= uids'[e]
        /\ ets'[e].uid \in {0, uids[e] + 1}
    BY DEF CreateET, DeleteET, TypeOK, bounds, NewEdgeTransformation, NoEdgeTransformation
  <1>3. /\ \A t \in Services : httproutes[t].uid \in Nat
        /\ \A f \in ETs : cacheETs[f].uid \in Nat
        /\ snap.uid \in Nat /\ (pc # "idle" => job \in ETs)
    BY DEF TypeOK, HTTPRoute, EdgeTransformation
  <1>4. /\ \A t \in Services : httproutes[t].owner = e => ~Living(e, httproutes[t].uid)'
        /\ pc # "idle" /\ job = e => ~Living(e, snap.uid)'
    BY <1>1, <1>2, <1>3
  <1>5. UidsHandedOut'
    BY <1>1, <1>2, <1>3
  <1>6. WorkerSeen' /\ WorkloadApplied'
    BY <1>1, <1>2, <1>3, <1>4
  <1>7. RouteSeen' /\ RouteHasTranslator'
    BY <1>1, <1>2, <1>3, <1>4
  <1>8. QED
    BY <1>5, <1>6, <1>7

(* A cache that catches up shows what lives. *)
LEMMA RouteDeliver ==
    ASSUME TypeOK, RouteInv, NEW e \in ETs, DeliverET(e)
    PROVE  RouteInv'
  <1> USE DEF RouteInv, UidsHandedOut, WorkerSeen, RouteSeen, WorkloadApplied,
              RouteHasTranslator, Living
  <1>1. /\ UNCHANGED <<ets, translators, deployments, httproutes, pc, job, snap, uids>>
        /\ cacheETs' = [cacheETs EXCEPT ![e] = ets[e]]
    BY DEF DeliverET, generated, worker, bounds
  <1>2. pc # "idle" => job \in ETs
    BY DEF TypeOK
  <1>3. \A f \in ETs : cacheETs'[f] = cacheETs[f] \/ cacheETs'[f] = ets[f]
    BY <1>1 DEF TypeOK
  <1>4. UidsHandedOut' /\ WorkloadApplied' /\ RouteHasTranslator'
    BY <1>1, <1>2
  <1>5. WorkerSeen' /\ RouteSeen'
    BY <1>1, <1>2, <1>3
  <1>6. QED
    BY <1>4, <1>5

(* The restarted operator lists what lives, and its worker has nothing in hand. *)
LEMMA RouteRestart ==
    ASSUME TypeOK, RouteInv, Restart
    PROVE  RouteInv'
  <1>1. UNCHANGED <<ets, translators, deployments, httproutes, uids>> /\ cacheETs' = ets /\ pc' = "idle"
    BY DEF Restart, Rest
  <1>2. QED
    BY <1>1 DEF RouteInv, UidsHandedOut, WorkerSeen, RouteSeen, WorkloadApplied,
       RouteHasTranslator, Living

(* The worker takes up what the cache shows. *)
LEMMA RouteTake ==
    ASSUME TypeOK, RouteInv, NEW e \in ETs, TakeRequest(e)
    PROVE  RouteInv'
  <1>1. UNCHANGED <<ets, cacheETs, translators, deployments, httproutes, uids>>
    BY DEF TakeRequest, generated, caches, bounds
  <1>2. CASE Rest
    BY <1>1, <1>2, RouteFrame
  <1>3. CASE ~Rest
    <2>1. pc' = "plan" /\ job' = e /\ snap' = cacheETs[e]
      BY <1>3 DEF TakeRequest
    <2>2. QED
      BY <1>1, <2>1 DEF RouteInv, UidsHandedOut, WorkerSeen, RouteSeen, WorkloadApplied,
         RouteHasTranslator, Living
  <1>4. QED
    BY <1>2, <1>3

(* An apply of the worker's own objects gives them the UID it read, which is that of any *)
(* route of the living EdgeTransformation.                                               *)
LEMMA RouteApply ==
    ASSUME TypeOK, RouteInv, ApplyService \/ ApplyDeployment \/ ApplyHTTPRoute
    PROVE  RouteInv'
  <1> USE DEF RouteInv, UidsHandedOut, WorkerSeen, RouteSeen, WorkloadApplied,
              RouteHasTranslator, Living
  <1>1. /\ UNCHANGED <<ets, cacheETs, uids, job, snap>>
        /\ pc # "idle" /\ job \in ETs
    BY DEF ApplyService, ApplyDeployment, ApplyHTTPRoute, Goto, caches, bounds, TypeOK
  <1>2. snap.uid \in Nat /\ \A t \in Services : httproutes[t].uid \in Nat
    BY DEF TypeOK, EdgeTransformation, HTTPRoute
  <1>3. CASE ApplyService
    <2>1. /\ UNCHANGED <<deployments, httproutes>> /\ pc = "service" /\ pc' = "deployment"
          /\ translators'[job] = snap.uid
          /\ \A e \in ETs \ {job} : translators'[e] = translators[e]
      BY <1>1, <1>3 DEF ApplyService, SetTranslator, Goto, TypeOK
    <2>2. RouteHasTranslator' /\ WorkloadApplied'
      BY <1>1, <2>1
    <2>3. QED
      BY <1>1, <2>1, <2>2
  <1>4. CASE ApplyDeployment
    <2>1. [deployments[job] EXCEPT !.uid = snap.uid, !.table = table].uid = snap.uid
      BY <1>1 DEF TypeOK, Deployment
    <2>2. /\ UNCHANGED <<translators, httproutes>> /\ pc = "deployment" /\ pc' = "httproute"
          /\ deployments'[job].uid = snap.uid
          /\ \A e \in ETs \ {job} : deployments'[e] = deployments[e]
      BY <1>1, <1>4, <2>1 DEF ApplyDeployment, SetDeployment, Goto, TypeOK
    <2>3. RouteHasTranslator' /\ WorkloadApplied'
      BY <1>1, <2>2
    <2>4. QED
      BY <1>1, <2>2, <2>3
  <1>5. CASE ApplyHTTPRoute
    <2>1. /\ UNCHANGED <<translators, deployments>> /\ pc = "httproute" /\ pc' = "ready"
          /\ \A t \in Services : httproutes'[t] = httproutes[t]
                                \/ httproutes'[t] = [owner |-> job, uid |-> snap.uid]
      BY <1>1, <1>5 DEF ApplyHTTPRoute, SetHTTPRoute, Goto, TypeOK
    <2>2. UidsHandedOut'
      BY <1>1, <2>1
    <2>3. WorkerSeen' /\ WorkloadApplied'
      BY <1>1, <2>1
    <2>4. RouteSeen' /\ RouteHasTranslator'
      BY <1>1, <2>1
    <2>5. QED
      BY <2>2, <2>3, <2>4
  <1>6. QED
    BY <1>3, <1>4, <1>5

(* What is removed, as long as users leave Services and Deployments alone, is a route, a *)
(* ConfigMap, or what belongs to an EdgeTransformation that is gone.                      *)
LEMMA RouteRemove ==
    ASSUME TypeOK, RouteInv, Deletable \cap {"service", "deployment"} = {},
           NEW e \in ETs, DropGenerated(e) \/ Collect(e)
    PROVE  RouteInv'
  <1> USE DEF RouteInv, UidsHandedOut, WorkerSeen, RouteSeen, WorkloadApplied,
              RouteHasTranslator, Living
  <1>1. UNCHANGED <<ets, cacheETs, uids, pc, job, snap>> /\ (pc # "idle" => job \in ETs)
    BY DEF DropGenerated, Collect, caches, worker, bounds, TypeOK
  <1>2. \A t \in Services : httproutes[t].uid \in Nat
    BY DEF TypeOK, HTTPRoute
  <1>3. CASE SetConfigMap(e, NoConfigMap)
    BY <1>1, <1>3, RouteFrame DEF SetConfigMap, DropGenerated, Collect, bounds
  <1>4. CASE \E t \in Services : SetHTTPRoute(t, NoHTTPRoute)
    <2>1. /\ UNCHANGED <<translators, deployments>>
          /\ \A t \in Services : httproutes'[t] = httproutes[t]
                                \/ httproutes'[t] = NoHTTPRoute
      BY <1>4 DEF SetHTTPRoute, TypeOK
    <2>2. NoHTTPRoute.owner \notin ETs
      BY NullAssumption DEF NoHTTPRoute
    <2>3. UidsHandedOut' /\ WorkerSeen' /\ WorkloadApplied'
      BY <1>1, <2>1, <2>2
    <2>4. RouteSeen' /\ RouteHasTranslator'
      BY <1>1, <2>1, <2>2
    <2>5. QED
      BY <2>3, <2>4
  <1>5. CASE Orphan(e, translators[e]) /\ SetTranslator(e, 0)
    <2>1. /\ UNCHANGED <<deployments, httproutes>> /\ translators[e] # ets[e].uid
          /\ \A f \in ETs \ {e} : translators'[f] = translators[f]
      BY <1>5 DEF Orphan, SetTranslator, TypeOK
    <2>2. QED
      BY <1>1, <2>1
  <1>6. CASE Orphan(e, deployments[e].uid) /\ SetDeployment(e, NoDeployment)
    <2>1. /\ UNCHANGED <<translators, httproutes>> /\ deployments[e].uid # ets[e].uid
          /\ \A f \in ETs \ {e} : deployments'[f] = deployments[f]
      BY <1>6 DEF Orphan, SetDeployment, TypeOK
    <2>2. QED
      BY <1>1, <2>1
  <1>7. QED
    BY <1>3, <1>4, <1>5, <1>6 DEF DropGenerated, Collect

(* Every step keeps RouteInv. *)
LEMMA RouteNext ==
    ASSUME TypeOK, RouteInv, Deletable \cap {"service", "deployment"} = {}, [Next]_vars
    PROVE  RouteInv'
  <1> USE DEF inputs, generated, caches, worker, bounds
  <1>1. CASE UNCHANGED vars
    BY <1>1, RouteFrame DEF vars
  <1>2. CASE User
    <2>1. ASSUME NEW e \in ETs, NEW spec \in ETSpecs, EditET(e, spec)
          PROVE  RouteInv'
      <3>1. \A f \in ETs : ets'[f].uid = ets[f].uid
        BY <2>1 DEF EditET, TypeOK, EdgeTransformation
      <3>2. QED
        BY <2>1, <3>1, RouteFrame DEF EditET
    <2>2. ASSUME NEW e \in ETs, Disrupt(e)
          PROVE  RouteInv'
      <3>1. \A f \in ETs : deployments'[f].uid = deployments[f].uid
        BY <2>2 DEF Disrupt, TypeOK, Deployment
      <3>2. QED
        BY <2>2, <3>1, RouteFrame DEF Disrupt
    <2>3. ASSUME \/ \E c \in CRs, spec \in CRSpecs, sameSecond \in BOOLEAN :
                      SetContextRoute(c, spec, sameSecond)
                 \/ \E c \in CRs : DeleteContextRoute(c)
                 \/ \E s \in Services : \/ \E svc \in ServiceObjects : SetService(s, svc)
                                        \/ \E a \in Addresses \cup {0} : SetEndpoint(s, a)
          PROVE  RouteInv'
      BY <2>3, RouteFrame DEF SetContextRoute, DeleteContextRoute, SetService, SetEndpoint
    <2>4. QED
      BY <1>2, <2>1, <2>2, <2>3, RouteCreateDelete, RouteRemove DEF User
  <1>3. CASE Deliver
    <2>1. ASSUME \/ \E e \in ETs : DeliverAvailable(e) \/ DeliverGenerated(e)
                 \/ \E c \in CRs : DeliverContextRoute(c) \/ DeliverContextRouteStatus(c)
                 \/ \E s \in Services : DeliverService(s) \/ DeliverEndpoint(s)
          PROVE  RouteInv'
      BY <2>1, RouteFrame DEF DeliverAvailable, DeliverGenerated, DeliverContextRoute,
         DeliverContextRouteStatus, DeliverService, DeliverEndpoint
    <2>2. QED
      BY <1>3, <2>1, RouteDeliver DEF Deliver
  <1>4. ASSUME NEW e \in ETs, TakeRequest(e) \/ Collect(e) \/ RollOut(e)
        PROVE  RouteInv'
    <2>1. CASE RollOut(e)
      <3>1. \A f \in ETs : deployments'[f].uid = deployments[f].uid
        BY <2>1 DEF RollOut, TypeOK, Deployment
      <3>2. QED
        BY <2>1, <3>1, RouteFrame DEF RollOut
    <2>2. QED
      BY <1>4, <2>1, RouteTake, RouteRemove
  <1>5. CASE WriteFails \/ RejectVariants \/ UpdateRefused
    BY <1>5, RouteFrame DEF WriteFails, RejectVariants, UpdateRefused, Retry
  <1>6. CASE RejectMode \/ RejectTarget \/ RejectEndpoints \/ RenderTable \/ ReadDeployment
    BY <1>6, RouteFrame DEF RejectMode, RejectTarget, RejectEndpoints, Reject, RenderTable,
       ReadDeployment, Goto
  <1>7. CASE ApplyConfigMap
    BY <1>7, RouteFrame DEF ApplyConfigMap, SetConfigMap, Goto
  <1>8. CASE UpdateStatus
    <2>1. \A f \in ETs : ets'[f].uid = ets[f].uid
      <3>1. PICK written \in Status : ets' = [ets EXCEPT ![job].status = written]
        BY <1>8, StatusWritten
      <3>2. QED
        BY <3>1 DEF TypeOK, EdgeTransformation
    <2>2. QED
      BY <1>8, <2>1, RouteFrame DEF UpdateStatus, Done
  <1>9. QED
    BY <1>1, <1>2, <1>3, <1>4, <1>5, <1>6, <1>7, <1>8, RouteApply, RouteRestart DEF Next, Step

(* As long as users delete no translator Service or Deployment, a route of a living       *)
(* EdgeTransformation leads to a translator of that same object: whatever the caches      *)
(* show, whatever the garbage collector removes behind a deleted namesake, and wherever   *)
(* a reconcile fails or the operator restarts between two applies.                        *)
THEOREM RoutesLeadToTranslators ==
    ASSUME Deletable \cap {"service", "deployment"} = {}
    PROVE  Spec => []RouteHasTranslator
  <1>1. Init => RouteInv
    BY RouteInit
  <1>2. TypeOK /\ RouteInv /\ [Next]_vars => RouteInv'
    BY RouteNext
  <1>3. RouteInv => RouteHasTranslator
    BY DEF RouteInv
  <1>4. QED
    BY <1>1, <1>2, <1>3, TypeCorrect, PTL DEF Spec

-----------------------------------------------------------------------------
(* What is left when all is quiet. *)

(* Something will have e reconciled again. *)
Pending(e) == e \in queue \cup wakeups

Busy(e) == pc # "idle" /\ job = e

(* The caches give et a translator. *)
Renders(et) ==
    et.router /\ cacheServices[et.target].kind = "clusterip" /\ cacheEndpoints[et.target] # 0

(* Every object of the translator of et is as the caches ask for. *)
Applied(e, et) ==
    /\ configMaps[e].uid = et.uid /\ configMaps[e].table \in Tables(et.target)
    /\ translators[e] = et.uid
    /\ deployments[e].uid = et.uid /\ deployments[e].table = configMaps[e].table
    /\ httproutes[et.target] = [owner |-> e, uid |-> et.uid]

PresentReason(e, et) ==
    IF ~et.router THEN "ModeNotImplemented"
    ELSE IF cacheServices[et.target].kind = "absent" THEN "TargetNotFound"
    ELSE IF cacheServices[et.target].kind = "other" THEN "UnsupportedTargetType"
    ELSE IF cacheEndpoints[et.target] = 0 THEN "NoReadyEndpoints"
    ELSE IF cacheAvailable[e] THEN "Reconciled" ELSE "TranslatorNotReady"

(* A whole reconcile of et with the present caches would change nothing but the status, *)
(* and the status is the one it would write.                                            *)
Reconciled(e, et, status) ==
    /\ status.observed = et.generation /\ status.reason = PresentReason(e, et)
    /\ Renders(et) => Applied(e, et)

(* A cache never shows a later object, nor a later generation of the living one. *)
AgeInv ==
    \A e \in ETs :
        /\ ets[e].uid <= uids[e] /\ cacheETs[e].uid <= uids[e]
        /\ Exists(ets[e]) /\ cacheETs[e].uid = ets[e].uid =>
              cacheETs[e].generation <= ets[e].generation

(* An EdgeTransformation that nothing will have reconciled again either is reconciled, or *)
(* has changed in the store and its event is still to come.                               *)
DoneWith(e) ==
    Exists(cacheETs[e]) /\ ~Pending(e) /\ ~Busy(e) =>
        ets[e] # cacheETs[e] \/ Reconciled(e, cacheETs[e], cacheETs[e].status)

(* So far the worker has done what the present caches ask for, unless it will start over. *)
CurrentInv ==
    pc # "idle" /\ ~Pending(job) =>
        /\ cacheETs[job] = snap
        /\ pc \notin {"plan", "status"} => Renders(snap) /\ table \in Tables(snap.target)
        /\ pc \in {"service", "deployment", "httproute", "ready"} =>
              configMaps[job].uid = snap.uid /\ configMaps[job].table = table
        /\ pc \in {"deployment", "httproute", "ready"} => translators[job] = snap.uid
        /\ pc \in {"httproute", "ready"} =>
              deployments[job].uid = snap.uid /\ deployments[job].table = table
        /\ pc = "ready" => httproutes[snap.target] = [owner |-> job, uid |-> snap.uid]
        /\ pc = "status" => Reconciled(job, snap, draft)

DoneInv == \A e \in ETs : DoneWith(e)

QuietInv == AgeInv /\ DoneInv /\ CurrentInv

(* A step disturbs e if it changes what DoneWith(e) and the worker rely on, and nothing    *)
(* will have e reconciled for it.                                                          *)
Steady(e) ==
    /\ ets[e] # cacheETs[e] => ets'[e] # cacheETs[e]
    /\ cacheAvailable'[e] = cacheAvailable[e]
    /\ configMaps'[e] = configMaps[e] /\ translators'[e] = translators[e]
    /\ deployments'[e].uid = deployments[e].uid /\ deployments'[e].table = deployments[e].table
    /\ \A t \in Services : t = cacheETs[e].target =>
          /\ Tables(t)' = Tables(t)
          /\ cacheServices'[t].kind = cacheServices[t].kind
          /\ cacheEndpoints'[t] = cacheEndpoints[t]
          /\ httproutes[t].owner = e => httproutes'[t] = httproutes[t]

Undisturbed(e) ==
    /\ Pending(e) => Pending(e)'
    /\ ~Pending(e)' => /\ cacheETs'[e] = cacheETs[e]
                       /\ Exists(cacheETs[e]) => Steady(e)

LEMMA TablesSame ==
    ASSUME UNCHANGED <<cacheCRs, cacheServices, cacheEndpoints>>
    PROVE  \A t \in Services : Tables(t)' = Tables(t)
  BY DEF Tables, Attached, Wins, VariantBackends, Matches

(* What is reconciled stays so in a step that disturbs nothing. *)
LEMMA SteadyReconciled ==
    ASSUME NEW e \in ETs, NEW et \in EdgeTransformation, NEW status,
           Exists(et), et.target = cacheETs[e].target,
           Steady(e), Reconciled(e, et, status)
    PROVE  Reconciled(e, et, status)'
  <1>1. et.target \in Services
    BY DEF EdgeTransformation, Exists
  <1>2. /\ Tables(et.target)' = Tables(et.target)
        /\ cacheServices'[et.target].kind = cacheServices[et.target].kind
        /\ cacheEndpoints'[et.target] = cacheEndpoints[et.target]
        /\ httproutes[et.target].owner = e => httproutes'[et.target] = httproutes[et.target]
    BY <1>1 DEF Steady
  <1>3. PresentReason(e, et)' = PresentReason(e, et) /\ Renders(et)' = Renders(et)
    BY <1>2 DEF Steady, PresentReason, Renders
  <1>4. Applied(e, et) => Applied(e, et)'
    BY <1>2 DEF Steady, Applied
  <1>5. QED
    BY <1>3, <1>4 DEF Reconciled

LEMMA UndisturbedDone ==
    ASSUME TypeOK, NEW e \in ETs, DoneWith(e), Undisturbed(e), Busy(e) => Busy(e)' \/ Pending(e)'
    PROVE  DoneWith(e)'
  <1> SUFFICES ASSUME Exists(cacheETs'[e]), ~Pending(e)', ~Busy(e)'
               PROVE  ets'[e] # cacheETs'[e] \/ Reconciled(e, cacheETs[e], cacheETs[e].status)'
    BY DEF DoneWith, Undisturbed
  <1>1. /\ cacheETs'[e] = cacheETs[e] /\ Exists(cacheETs[e]) /\ Steady(e)
        /\ ~Pending(e) /\ ~Busy(e)
    BY DEF Undisturbed, Exists
  <1>2. CASE ets[e] # cacheETs[e]
    BY <1>1, <1>2 DEF Steady
  <1>3. CASE Reconciled(e, cacheETs[e], cacheETs[e].status)
    <2>1. PICK et \in EdgeTransformation : et = cacheETs[e]
      BY DEF TypeOK
    <2>2. Reconciled(e, et, et.status)'
      BY <1>1, <1>3, <2>1, SteadyReconciled
    <2>3. QED
      BY <1>1, <2>1, <2>2
  <1>4. QED
    BY <1>1, <1>2, <1>3 DEF DoneWith

(* Steps of others than the worker. *)
LEMMA UndisturbedQuiet ==
    ASSUME TypeOK, DoneInv, CurrentInv, \A e \in ETs : Undisturbed(e),
           \/ UNCHANGED worker
           \/ Rest /\ \A e \in ETs : Busy(e) => Pending(e)'
    PROVE  DoneInv' /\ CurrentInv'
  <1>1. pc # "idle" => job \in ETs /\ Exists(snap) /\ snap \in EdgeTransformation
    BY DEF TypeOK
  <1>2. \A e \in ETs : Busy(e) => Busy(e)' \/ Pending(e)'
    BY DEF Busy, worker
  <1>3. DoneInv'
    BY <1>2, UndisturbedDone DEF DoneInv
  <1>4. CASE Rest
    BY <1>3, <1>4 DEF CurrentInv, Rest
  <1>5. CASE UNCHANGED worker
    <2> SUFFICES ASSUME pc # "idle", ~Pending(job)' PROVE CurrentInv'
      BY <1>3, <1>5 DEF CurrentInv, worker
    <2>1. PICK e \in ETs : e = job
      BY <1>1
    <2>2. ~Pending(e)'
      BY <1>5, <2>1 DEF worker, Pending
    <2>3. ~Pending(job)
      BY <2>1, <2>2 DEF Undisturbed
    <2>4. cacheETs[e] = snap /\ cacheETs'[e] = snap /\ Steady(e)
      BY <1>1, <2>1, <2>2, <2>3 DEF CurrentInv, Undisturbed
    <2>5. PICK et \in EdgeTransformation : et = snap
      BY <1>1
    <2>6. Reconciled(e, et, draft) => Reconciled(e, et, draft)'
      <3>1. PICK status : status = draft
        OBVIOUS
      <3>2. Reconciled(e, et, status) => Reconciled(e, et, status)'
        BY <1>1, <2>4, <2>5, SteadyReconciled
      <3>3. QED
        BY <1>5, <3>1, <3>2 DEF worker
    <2>7. et.target \in Services /\ et.target = cacheETs[e].target
      BY <1>1, <2>4, <2>5 DEF EdgeTransformation, Exists
    <2>8. Renders(et)' = Renders(et) /\ Tables(et.target)' = Tables(et.target)
      BY <2>4, <2>7 DEF Steady, Renders
    <2>9. httproutes[et.target].owner = e => httproutes'[et.target] = httproutes[et.target]
      BY <2>4, <2>7 DEF Steady
    <2>10. QED
      BY <1>1, <1>5, <2>1, <2>3, <2>4, <2>5, <2>6, <2>8, <2>9 DEF CurrentInv, worker, Steady
  <1>6. QED
    BY <1>4, <1>5

LEMMA InitQuiet == Init => QuietInv
  <1> SUFFICES ASSUME Init PROVE QuietInv
    OBVIOUS
  <1>1. TypeOK
    BY InitTypeOK
  <1>2. AgeInv
    BY <1>1 DEF Init, AgeInv, TypeOK, EdgeTransformation
  <1>3. QED
    BY <1>1, <1>2 DEF QuietInv, DoneInv, DoneWith, CurrentInv, Pending, Init

(* Nothing but these steps changes an EdgeTransformation or what the cache shows of it. *)
LEMMA AgeFrame ==
    ASSUME AgeInv, UNCHANGED <<ets, cacheETs, uids>>
    PROVE  AgeInv'
  BY DEF AgeInv

LEMMA NextAge ==
    ASSUME TypeOK, AgeInv, [Next]_vars
    PROVE  AgeInv'
  <1> USE DEF inputs, generated, caches, worker, bounds, Exists
  <1>0. \A e \in ETs : /\ ets[e].uid \in Nat /\ ets[e].generation \in Nat
                       /\ cacheETs[e].uid \in Nat /\ cacheETs[e].generation \in Nat
                       /\ uids[e] \in Nat
    BY DEF TypeOK, EdgeTransformation
  <1>1. ASSUME NEW e \in ETs, NEW spec \in ETSpecs, CreateET(e, spec)
        PROVE  AgeInv'
    <2>1. /\ ets' = [ets EXCEPT ![e] = NewEdgeTransformation(spec, uids'[e])]
          /\ uids' = [uids EXCEPT ![e] = @ + 1] /\ UNCHANGED cacheETs
      BY <1>1 DEF CreateET
    <2>2. ets'[e].uid = uids[e] + 1 /\ uids'[e] = uids[e] + 1
      BY <2>1 DEF NewEdgeTransformation, TypeOK
    <2>3. \A f \in ETs \ {e} : ets'[f] = ets[f] /\ uids'[f] = uids[f]
      BY <2>1 DEF TypeOK
    <2>4. QED
      BY <1>0, <2>1, <2>2, <2>3 DEF AgeInv
  <1>2. ASSUME NEW e \in ETs, NEW spec \in ETSpecs, EditET(e, spec)
        PROVE  AgeInv'
    <2>1. \A f \in ETs : /\ ets'[f].uid = ets[f].uid
                         /\ ets'[f].generation \in {ets[f].generation, ets[f].generation + 1}
      BY <1>2 DEF EditET, TypeOK, EdgeTransformation
    <2>2. UNCHANGED <<cacheETs, uids>>
      BY <1>2 DEF EditET
    <2>3. ASSUME NEW f \in ETs
          PROVE  /\ ets'[f].uid <= uids'[f] /\ cacheETs'[f].uid <= uids'[f]
                 /\ Exists(ets'[f]) /\ cacheETs'[f].uid = ets'[f].uid =>
                       cacheETs'[f].generation <= ets'[f].generation
      BY <1>0, <2>1, <2>2 DEF AgeInv
    <2>4. QED
      BY <2>3 DEF AgeInv
  <1>3. ASSUME NEW e \in ETs, DeleteET(e)
        PROVE  AgeInv'
    <2>1. /\ \A f \in ETs \ {e} : ets'[f] = ets[f]
          /\ ets'[e].uid = 0 /\ UNCHANGED <<cacheETs, uids>>
      BY <1>3 DEF DeleteET, TypeOK, NoEdgeTransformation
    <2>2. QED
      BY <1>0, <2>1 DEF AgeInv
  <1>4. CASE UpdateStatus
    <2>1. \A f \in ETs : ets'[f].uid = ets[f].uid /\ ets'[f].generation = ets[f].generation
      <3>1. PICK written \in Status : ets' = [ets EXCEPT ![job].status = written]
        BY <1>4, StatusWritten
      <3>2. QED
        BY <3>1 DEF TypeOK, EdgeTransformation
    <2>2. QED
      BY <1>4, <2>1 DEF UpdateStatus, AgeInv
  <1>5. ASSUME NEW e \in ETs, DeliverET(e)
        PROVE  AgeInv'
    <2>1. /\ \A f \in ETs : cacheETs'[f] \in {cacheETs[f], ets[f]}
          /\ UNCHANGED <<ets, uids>>
      BY <1>5 DEF DeliverET, TypeOK
    <2>2. QED
      BY <1>0, <2>1 DEF AgeInv
  <1>6. CASE Restart
    BY <1>0, <1>6 DEF Restart, AgeInv
  <1>7. CASE UNCHANGED vars
    BY <1>7, AgeFrame DEF vars
  <1>8. ASSUME \/ \E c \in CRs, spec \in CRSpecs, sameSecond \in BOOLEAN :
                    SetContextRoute(c, spec, sameSecond)
               \/ \E c \in CRs : \/ DeleteContextRoute(c) \/ DeliverContextRoute(c)
                                 \/ DeliverContextRouteStatus(c)
               \/ \E s \in Services : \/ \E svc \in ServiceObjects : SetService(s, svc)
                                      \/ \E a \in Addresses \cup {0} : SetEndpoint(s, a)
                                      \/ DeliverService(s) \/ DeliverEndpoint(s)
               \/ \E e \in ETs : \/ DropGenerated(e) \/ Disrupt(e) \/ DeliverAvailable(e)
                                 \/ DeliverGenerated(e) \/ TakeRequest(e)
                                 \/ Collect(e) \/ RollOut(e)
        PROVE  AgeInv'
    BY <1>8, AgeFrame DEF SetContextRoute, DeleteContextRoute, DeliverContextRoute, DeliverContextRouteStatus,
       SetService, SetEndpoint, DeliverService, DeliverEndpoint, DropGenerated, Disrupt, DeliverAvailable,
       DeliverGenerated, TakeRequest, Collect, RollOut
  <1>9. CASE WriteFails \/ (Step /\ ~UpdateStatus)
    BY <1>9, AgeFrame DEF WriteFails, Step, RejectMode, RejectTarget, RejectEndpoints, Reject,
       RejectVariants, RenderTable, ApplyConfigMap, ApplyService, ApplyDeployment,
       ApplyHTTPRoute, ReadDeployment, UpdateRefused
  <1>10. QED
    BY <1>1, <1>2, <1>3, <1>4, <1>5, <1>6, <1>7, <1>8, <1>9 DEF Next, User, Deliver

(* What users do disturbs nobody: their edits are still to be delivered, and what they    *)
(* delete of a translator wakes its owner.                                                *)
LEMMA SetsUndisturbed ==
    ASSUME TypeOK, NEW e \in ETs, NEW f \in ETs,
           \/ \E cm : SetConfigMap(e, cm)
           \/ \E uid : SetTranslator(e, uid)
           \/ \E d : SetDeployment(e, d)
           \/ \E t \in Services, hr \in HTTPRoute : SetHTTPRoute(t, hr),
           UNCHANGED <<ets, caches>>, queue \subseteq queue'
    PROVE  Undisturbed(f)
  <1>1. \A t \in Services : Tables(t)' = Tables(t)
    BY TablesSame DEF caches
  <1>2. UNCHANGED <<ets, cacheETs, cacheAvailable, cacheServices, cacheEndpoints>>
    BY DEF caches
  <1>3. wakeups \subseteq wakeups'
    BY DEF SetConfigMap, SetTranslator, SetDeployment, SetHTTPRoute, Wake
  <1>4. f \notin wakeups' =>
          /\ configMaps'[f] = configMaps[f] /\ translators'[f] = translators[f]
          /\ deployments'[f] = deployments[f]
          /\ \A t \in Services : httproutes[t].owner = f => httproutes'[t] = httproutes[t]
    <2>1. CASE \E cm : SetConfigMap(e, cm)
      BY <2>1 DEF SetConfigMap, Wake, TypeOK
    <2>2. CASE \E uid : SetTranslator(e, uid)
      BY <2>2 DEF SetTranslator, Wake, TypeOK
    <2>3. CASE \E d : SetDeployment(e, d)
      BY <2>3 DEF SetDeployment, Wake, TypeOK
    <2>4. ASSUME NEW t \in Services, NEW hr \in HTTPRoute, SetHTTPRoute(t, hr), f \notin wakeups',
                 NEW u \in Services, httproutes[u].owner = f
          PROVE  httproutes'[u] = httproutes[u]
      <3>1. CASE u # t
        BY <2>4, <3>1 DEF SetHTTPRoute, TypeOK
      <3>2. CASE u = t
        <4>1. f \in MapHTTPRouteToET(httproutes[t])
          BY <2>4, <3>2, NullAssumption DEF MapHTTPRouteToET
        <4>2. hr = httproutes[t]
          BY <2>4, <4>1 DEF SetHTTPRoute, Wake
        <4>3. QED
          BY <2>4, <3>2, <4>2 DEF SetHTTPRoute, TypeOK
      <3>3. QED
        BY <3>1, <3>2
    <2>5. CASE \E t \in Services, hr \in HTTPRoute : SetHTTPRoute(t, hr)
      BY <2>4, <2>5 DEF SetHTTPRoute
    <2>6. QED
      BY <2>1, <2>2, <2>3, <2>5
  <1>5. QED
    BY <1>1, <1>2, <1>3, <1>4 DEF Undisturbed, Steady, Pending

LEMMA UserUndisturbed ==
    ASSUME TypeOK, AgeInv, User, NEW f \in ETs
    PROVE  Undisturbed(f)
  <1> USE DEF inputs, generated, worker, bounds
  <1>0. \A e \in ETs : /\ ets[e].uid \in Nat /\ ets[e].generation \in Nat
                       /\ cacheETs[e].uid \in Nat /\ cacheETs[e].generation \in Nat
                       /\ uids[e] \in Nat
    BY DEF TypeOK, EdgeTransformation
  <1>1. UNCHANGED <<caches, queue>>
    BY DEF User, CreateET, EditET, DeleteET, SetContextRoute, DeleteContextRoute, SetService,
       SetEndpoint, DropGenerated, Disrupt
  <1>2. \A t \in Services : Tables(t)' = Tables(t)
    BY <1>1, TablesSame DEF caches
  <1>3. ASSUME NEW e \in ETs,
               DeleteET(e) \/ \E spec \in ETSpecs : CreateET(e, spec) \/ EditET(e, spec)
        PROVE  Undisturbed(f)
    <2>0. UNCHANGED generated
      BY <1>3 DEF CreateET, EditET, DeleteET
    <2>1. Exists(cacheETs[f]) /\ ets[f] # cacheETs[f] => ets'[f] # cacheETs[f]
      <3>1. CASE \E spec \in ETSpecs : CreateET(e, spec)
        <4>1. ets'[e].uid = uids[e] + 1 /\ \A g \in ETs \ {e} : ets'[g] = ets[g]
          BY <3>1 DEF CreateET, NewEdgeTransformation, TypeOK
        <4>2. QED
          BY <1>0, <3>1, <4>1 DEF CreateET, AgeInv
      <3>2. CASE \E spec \in ETSpecs : EditET(e, spec)
        <4>1. ets'[e].uid = ets[e].uid /\ ets'[e].generation = ets[e].generation + 1
          BY <3>2 DEF EditET, TypeOK, EdgeTransformation
        <4>2. Exists(ets[e]) /\ \A g \in ETs \ {e} : ets'[g] = ets[g]
          BY <3>2 DEF EditET, TypeOK
        <4>3. ets'[e] # cacheETs[e]
          BY <1>0, <4>1, <4>2 DEF AgeInv
        <4>4. QED
          BY <3>2, <4>2, <4>3 DEF EditET
      <3>3. CASE DeleteET(e)
        <4>1. ets'[e].uid = 0 /\ \A g \in ETs \ {e} : ets'[g] = ets[g]
          BY <3>3 DEF DeleteET, NoEdgeTransformation, TypeOK
        <4>2. QED
          BY <3>3, <4>1 DEF DeleteET, Exists
      <3>4. QED
        BY <1>3, <3>1, <3>2, <3>3
    <2>2. QED
      BY <1>1, <1>2, <2>0, <2>1 DEF Undisturbed, Steady, Pending, caches
  <1>4. ASSUME NEW e \in ETs, Disrupt(e)
        PROVE  Undisturbed(f)
    <2>1. deployments'[f].uid = deployments[f].uid /\ deployments'[f].table = deployments[f].table
      BY <1>4 DEF Disrupt, TypeOK, Deployment
    <2>2. QED
      BY <1>1, <1>2, <1>4, <2>1 DEF Disrupt, Undisturbed, Steady, Pending, caches
  <1>5. ASSUME NEW e \in ETs, DropGenerated(e)
        PROVE  Undisturbed(f)
    BY <1>1, <1>5, NullTypes, SetsUndisturbed DEF DropGenerated
  <1>6. ASSUME \/ \E c \in CRs, spec \in CRSpecs, sameSecond \in BOOLEAN :
                    SetContextRoute(c, spec, sameSecond)
               \/ \E c \in CRs : DeleteContextRoute(c)
               \/ \E s \in Services : \/ \E svc \in ServiceObjects : SetService(s, svc)
                                      \/ \E a \in Addresses \cup {0} : SetEndpoint(s, a)
        PROVE  Undisturbed(f)
    <2>1. UNCHANGED <<ets, generated>>
      BY <1>6 DEF SetContextRoute, DeleteContextRoute, SetService, SetEndpoint
    <2>2. QED
      BY <1>1, <1>2, <2>1 DEF Undisturbed, Steady, Pending, caches
  <1>7. QED
    BY <1>3, <1>4, <1>5, <1>6 DEF User

(* A delivery changes the tables and reasons of those it wakes only. *)
LEMMA DeliverUndisturbed ==
    ASSUME TypeOK, Deliver, NEW f \in ETs
    PROVE  Undisturbed(f)
  <1> USE DEF inputs, generated, worker, bounds
  <1>1. ASSUME NEW e \in ETs, DeliverET(e)
        PROVE  Undisturbed(f)
    <2>1. cacheETs'[f] = cacheETs[f] \/ f \in queue'
      BY <1>1 DEF DeliverET, TypeOK
    <2>2. \A t \in Services : Tables(t)' = Tables(t)
      BY <1>1, TablesSame DEF DeliverET
    <2>3. QED
      BY <1>1, <2>1, <2>2 DEF DeliverET, Undisturbed, Steady, Pending
  <1>2. ASSUME NEW e \in ETs, DeliverAvailable(e)
        PROVE  Undisturbed(f)
    <2>1. cacheAvailable'[f] = cacheAvailable[f] \/ f \in queue'
      BY <1>2 DEF DeliverAvailable, TypeOK
    <2>2. \A t \in Services : Tables(t)' = Tables(t)
      BY <1>2, TablesSame DEF DeliverAvailable
    <2>3. QED
      BY <1>2, <2>1, <2>2 DEF DeliverAvailable, Undisturbed, Steady, Pending
  <1>3. ASSUME NEW e \in ETs, DeliverGenerated(e)
        PROVE  Undisturbed(f)
    <2>1. \A t \in Services : Tables(t)' = Tables(t)
      BY <1>3, TablesSame DEF DeliverGenerated, caches
    <2>2. Pending(f) => Pending(f)'
      BY <1>3 DEF DeliverGenerated, Pending
    <2>3. QED
      BY <1>3, <2>1, <2>2 DEF DeliverGenerated, Undisturbed, Steady, caches
  <1>4. ASSUME NEW c \in CRs, DeliverContextRoute(c)
        PROVE  Undisturbed(f)
    <2>1. /\ UNCHANGED <<ets, generated, cacheETs, cacheServices, cacheEndpoints, cacheAvailable>>
          /\ queue' = queue \cup OnTarget(cacheCRs[c].target) \cup OnTarget(crs[c].target)
          /\ cacheCRs' = [cacheCRs EXCEPT ![c] = crs[c]]
      BY <1>4 DEF DeliverContextRoute, MapCRToET
    <2>2. Pending(f) => Pending(f)'
      BY <2>1 DEF Pending
    <2>3. ASSUME ~Pending(f)', Exists(cacheETs[f]), NEW t \in Services, t = cacheETs[f].target
          PROVE  Tables(t)' = Tables(t)
      <3>1. cacheCRs[c].target # t /\ crs[c].target # t
        BY <2>1, <2>3 DEF Pending, OnTarget
      <3>2. \A d \in CRs : d # c => cacheCRs'[d] = cacheCRs[d]
        BY <2>1 DEF TypeOK
      <3>3. cacheCRs'[c] = crs[c]
        BY <2>1 DEF TypeOK
      <3>4. Attached(t)' = Attached(t) /\ c \notin Attached(t)
        BY <3>1, <3>2, <3>3 DEF Attached
      <3>5. \A d \in Attached(t) : cacheCRs'[d] = cacheCRs[d]
        BY <3>2, <3>4 DEF Attached
      <3>6. \A d \in CRs : Wins(d, t)' <=> Wins(d, t)
        BY <3>4, <3>5 DEF Wins
      <3>7. \A d \in CRs : Wins(d, t) => cacheCRs'[d] = cacheCRs[d]
        BY <3>5 DEF Wins
      <3>8. \A d \in CRs : Wins(d, t) =>
               VariantBackends(cacheCRs[d])' = VariantBackends(cacheCRs[d])
        BY <2>1, <3>7 DEF VariantBackends, Matches
      <3>9. QED
        BY <2>1, <3>4, <3>6, <3>7, <3>8 DEF Tables
    <2>4. QED
      BY <2>1, <2>2, <2>3 DEF Undisturbed, Steady
  <1>5. ASSUME NEW s \in Services, DeliverService(s)
        PROVE  Undisturbed(f)
    <2>1. /\ UNCHANGED <<ets, generated, cacheETs, cacheCRs, cacheEndpoints, cacheAvailable>>
          /\ queue' = queue \cup MapServiceToETs(s, cacheServices[s])
                            \cup MapServiceToETs(s, services[s])
          /\ cacheServices' = [cacheServices EXCEPT ![s] = services[s]]
      BY <1>5 DEF DeliverService
    <2>2. Pending(f) => Pending(f)'
      BY <2>1 DEF Pending
    <2>3. /\ cacheServices'[s] = services[s]
          /\ \A u \in Services : u # s => cacheServices'[u] = cacheServices[u]
      BY <2>1 DEF TypeOK
    <2>4. ASSUME ~Pending(f)', Exists(cacheETs[f]), NEW t \in Services, t = cacheETs[f].target
          PROVE  Tables(t)' = Tables(t) /\ cacheServices'[t].kind = cacheServices[t].kind
      <3>1. \A svc \in {cacheServices[s], services[s]} : svc.kind # "absent" =>
               /\ t # s
               /\ \A c \in CRs : Wins(c, t) => ~Matches(cacheCRs[c].selector, svc)
        BY <2>1, <2>4 DEF Pending, MapServiceToETs
      <3>2. \A c \in CRs : Wins(c, t) =>
               /\ ~Matches(cacheCRs[c].selector, cacheServices[s])
               /\ ~Matches(cacheCRs[c].selector, services[s])
        BY <3>1 DEF Matches
      <3>3. cacheServices'[t].kind = cacheServices[t].kind
        BY <2>3, <3>1
      <3>4. \A c \in CRs : Wins(c, t)' <=> Wins(c, t)
        BY <2>1 DEF Wins, Attached
      <3>5. ASSUME NEW c \in CRs, Wins(c, t)
            PROVE  VariantBackends(cacheCRs[c])' = VariantBackends(cacheCRs[c])
        <4>1. \A u \in Services :
                 Matches(cacheCRs[c].selector, cacheServices'[u])
                    <=> Matches(cacheCRs[c].selector, cacheServices[u])
          BY <2>3, <3>2, <3>5
        <4>2. UNCHANGED <<cacheCRs, cacheEndpoints>>
          BY <2>1
        <4>3. QED
          BY <4>1, <4>2 DEF VariantBackends, Matches
      <3>6. QED
        BY <2>1, <3>3, <3>4, <3>5 DEF Tables, Attached
    <2>5. QED
      BY <2>1, <2>2, <2>4 DEF Undisturbed, Steady
  <1>6. ASSUME NEW s \in Services, DeliverEndpoint(s)
        PROVE  Undisturbed(f)
    <2>1. UNCHANGED <<cacheETs, wakeups>> /\ queue \subseteq queue'
          /\ (Exists(cacheETs[f]) => f \in queue')
      BY <1>6 DEF DeliverEndpoint, MapEndpointSliceToETs
    <2>2. QED
      BY <2>1 DEF Undisturbed, Pending
  <1>7. ASSUME NEW c \in CRs, DeliverContextRouteStatus(c)
        PROVE  Undisturbed(f)
    <2>1. UNCHANGED <<ets, generated, caches, wakeups>> /\ queue \subseteq queue'
      BY <1>7 DEF DeliverContextRouteStatus, generated
    <2>2. \A t \in Services : Tables(t)' = Tables(t)
      BY <2>1, TablesSame DEF caches
    <2>3. QED
      BY <2>1, <2>2 DEF Undisturbed, Steady, Pending, caches, generated
  <1>8. QED
    BY <1>1, <1>2, <1>3, <1>4, <1>5, <1>6, <1>7 DEF Deliver

(* Nor do Kubernetes' own controllers. *)
LEMMA OthersUndisturbed ==
    ASSUME TypeOK, NEW e \in ETs, Collect(e) \/ RollOut(e), NEW f \in ETs
    PROVE  Undisturbed(f)
  <1>1. CASE Collect(e)
    BY <1>1, NullTypes, SetsUndisturbed DEF Collect
  <1>2. CASE RollOut(e)
    <2>1. \A t \in Services : Tables(t)' = Tables(t)
      BY <1>2, TablesSame DEF RollOut, caches
    <2>2. deployments'[f].uid = deployments[f].uid /\ deployments'[f].table = deployments[f].table
      BY <1>2 DEF RollOut, TypeOK, Deployment
    <2>3. QED
      BY <1>2, <2>1, <2>2 DEF RollOut, Undisturbed, Steady, Pending, caches
  <1>3. QED
    BY <1>1, <1>2

(* The worker takes up what the cache shows, or nothing if it shows nothing. *)
LEMMA TakeQuiet ==
    ASSUME TypeOK, DoneInv, CurrentInv, NEW e \in ETs, TakeRequest(e)
    PROVE  DoneInv' /\ CurrentInv'
  <1>1. /\ UNCHANGED <<ets, generated, caches>> /\ pc = "idle"
        /\ queue' = queue \ {e}
        /\ \/ pc' = "plan" /\ job' = e /\ snap' = cacheETs[e]
           \/ Rest /\ ~Exists(cacheETs[e])
    BY DEF TakeRequest
  <1>2. ASSUME NEW f \in ETs
        PROVE  DoneWith(f)'
    <2>1. CASE f = e
      BY <1>1, <2>1 DEF DoneWith, Busy, caches
    <2>2. CASE f # e
      <3>1. \A t \in Services : Tables(t)' = Tables(t)
        BY <1>1, TablesSame DEF caches
      <3>2. Pending(f)' <=> Pending(f)
        BY <1>1, <2>2 DEF Pending, generated
      <3>3. Undisturbed(f)
        BY <1>1, <3>1, <3>2 DEF Undisturbed, Steady, generated, caches
      <3>4. ~Busy(f)
        BY <1>1 DEF Busy
      <3>5. QED
        BY <3>3, <3>4, UndisturbedDone DEF DoneInv
    <2>3. QED
      BY <2>1, <2>2
  <1>3. CurrentInv'
    BY <1>1 DEF CurrentInv, Rest, caches
  <1>4. QED
    BY <1>2, <1>3 DEF DoneInv

(* Where the worker gives up it puts the request back. *)
LEMMA RetryQuiet ==
    ASSUME TypeOK, DoneInv, CurrentInv, WriteFails \/ RejectVariants \/ UpdateRefused
    PROVE  DoneInv' /\ CurrentInv'
  <1>1. /\ UNCHANGED <<ets, generated, caches>> /\ Rest
        /\ queue' = queue \cup {job}
    BY DEF WriteFails, RejectVariants, UpdateRefused, Retry
  <1>2. \A t \in Services : Tables(t)' = Tables(t)
    BY <1>1, TablesSame DEF caches
  <1>3. \A f \in ETs : Undisturbed(f)
    BY <1>1, <1>2 DEF Undisturbed, Steady, Pending, generated, caches
  <1>4. \A f \in ETs : Busy(f) => Pending(f)'
    BY <1>1 DEF Busy, Pending
  <1>5. QED
    BY <1>1, <1>3, <1>4, UndisturbedQuiet

(* A step of the worker that goes on leaves the others as they are. *)
LEMMA GotoDone ==
    ASSUME TypeOK, DoneInv, \A f \in ETs : Undisturbed(f), pc # "idle", pc' # "idle", job' = job
    PROVE  DoneInv'
  <1>1. \A f \in ETs : Busy(f) => Busy(f)'
    BY DEF Busy
  <1>2. QED
    BY <1>1, UndisturbedDone DEF DoneInv

(* The steps before anything is applied, and the one after. *)
LEMMA PlanQuiet ==
    ASSUME TypeOK, DoneInv, CurrentInv,
           RejectMode \/ RejectTarget \/ RejectEndpoints \/ RenderTable \/ ReadDeployment
    PROVE  DoneInv' /\ CurrentInv'
  <1>1. /\ UNCHANGED <<ets, generated, caches, queue, job, snap>>
        /\ pc \in {"plan", "ready"} /\ pc' \in {"status", "configmap"}
        /\ job \in ETs /\ Exists(snap) /\ snap.target \in Services /\ draft \in Status
    BY DEF RejectMode, RejectTarget, RejectEndpoints, Reject, RenderTable, ReadDeployment, Goto,
       TypeOK, EdgeTransformation, Exists
  <1>2. \A t \in Services : Tables(t)' = Tables(t)
    BY <1>1, TablesSame DEF caches
  <1>3. \A f \in ETs : Undisturbed(f)
    BY <1>1, <1>2 DEF Undisturbed, Steady, Pending, generated, caches
  <1>4. DoneInv'
    BY <1>1, <1>3, GotoDone
  <1>5. ASSUME ~Pending(job)'
        PROVE  CurrentInv'
    <2>1. ~Pending(job) /\ cacheETs[job] = snap
      BY <1>1, <1>5 DEF Pending, generated, CurrentInv
    <2>2. Tables(snap.target)' = Tables(snap.target) /\ (Renders(snap)' <=> Renders(snap))
          /\ PresentReason(job, snap)' = PresentReason(job, snap)
          /\ (Applied(job, snap)' <=> Applied(job, snap))
      BY <1>1, <1>2 DEF Renders, PresentReason, Applied, generated, caches
    <2>3. CASE RenderTable
      <3>1. Renders(snap) /\ table' \in Tables(snap.target) /\ pc' = "configmap"
        BY <2>3 DEF RenderTable, Renders, Target, Ready, Goto
      <3>2. QED
        BY <1>1, <2>1, <2>2, <3>1 DEF CurrentInv, caches
    <2>4. \A status \in Status, reason \in Reasons :
             /\ WithReady(status, reason).reason = reason
             /\ WithReady(status, reason).observed = snap.generation
      BY DEF WithReady, Status
    <2>5. [draft EXCEPT !.target = snap.target] \in Status
          /\ [draft EXCEPT !.ready = cacheAvailable[job]] \in Status
      BY <1>1 DEF Status, TypeOK
    <2>6. ASSUME pc' = "status", draft'.observed = snap.generation,
                 draft'.reason = PresentReason(job, snap), Renders(snap) => Applied(job, snap)
          PROVE  CurrentInv'
      BY <1>1, <2>1, <2>2, <2>6 DEF CurrentInv, Reconciled, caches
    <2>7. CASE RejectMode
      <3>1. draft' = WithReady(draft, "ModeNotImplemented") /\ pc' = "status" /\ ~snap.router
        BY <2>7 DEF RejectMode, Reject, Goto
      <3>2. QED
        BY <1>1, <2>4, <2>6, <3>1 DEF PresentReason, Renders, Reasons
    <2>8. CASE RejectTarget
      <3>1. cacheServices[snap.target].kind \in {"absent", "clusterip", "other"}
        BY <1>1 DEF TypeOK, ServiceObject
      <3>2. CASE Target.kind = "absent"
        BY <1>1, <2>4, <2>5, <2>6, <2>8, <3>2
           DEF RejectTarget, Reject, Goto, Target, PresentReason, Renders, Reasons
      <3>3. CASE Target.kind = "other"
        BY <1>1, <2>4, <2>5, <2>6, <2>8, <3>3
           DEF RejectTarget, Reject, Goto, Target, PresentReason, Renders, Reasons
      <3>4. QED
        BY <2>8, <3>1, <3>2, <3>3 DEF RejectTarget, Target
    <2>9. CASE RejectEndpoints
      BY <1>1, <2>4, <2>5, <2>6, <2>9
         DEF RejectEndpoints, Reject, Goto, Target, Ready, PresentReason, Renders, Reasons
    <2>10. CASE ReadDeployment
      <3>1. Renders(snap) /\ Applied(job, snap)
        BY <2>1, <2>10 DEF ReadDeployment, CurrentInv, Applied
      <3>2. PresentReason(job, snap) =
               IF cacheAvailable[job] THEN "Reconciled" ELSE "TranslatorNotReady"
        BY <3>1 DEF PresentReason, Renders
      <3>3. QED
        BY <1>1, <2>4, <2>5, <2>6, <2>10, <3>1, <3>2 DEF ReadDeployment, Goto, Reasons
    <2>11. QED
      BY <2>3, <2>7, <2>8, <2>9, <2>10
  <1>6. QED
    BY <1>1, <1>4, <1>5 DEF CurrentInv, Pending

(* An apply that changes something wakes its owner; one that changes nothing takes the    *)
(* worker one object further.                                                             *)
LEMMA ApplyQuiet ==
    ASSUME TypeOK, DoneInv, CurrentInv,
           ApplyConfigMap \/ ApplyService \/ ApplyDeployment \/ ApplyHTTPRoute
    PROVE  DoneInv' /\ CurrentInv'
  <1>1. /\ UNCHANGED <<ets, caches, queue, job, snap, draft, table>>
        /\ pc # "idle" /\ pc' # "idle" /\ job \in ETs /\ Exists(snap) /\ snap \in EdgeTransformation
    BY DEF ApplyConfigMap, ApplyService, ApplyDeployment, ApplyHTTPRoute, Goto, TypeOK
  <1>2. snap.target \in Services /\ [owner |-> job, uid |-> snap.uid] \in HTTPRoute
    BY <1>1 DEF EdgeTransformation, Exists, HTTPRoute
  <1>3. \A f \in ETs : Undisturbed(f)
    BY <1>1, <1>2, SetsUndisturbed DEF ApplyConfigMap, ApplyService, ApplyDeployment, ApplyHTTPRoute
  <1>4. DoneInv'
    BY <1>1, <1>3, GotoDone
  <1>5. ASSUME ~Pending(job)'
        PROVE  CurrentInv'
    <2>1. PICK e \in ETs : e = job
      BY <1>1
    <2>2. ~Pending(e)' /\ ~Pending(e)
      BY <1>1, <1>3, <1>5, <2>1 DEF Undisturbed, Pending
    <2>3. cacheETs[e] = snap /\ cacheETs'[e] = snap /\ Steady(e)
      BY <1>1, <1>3, <2>1, <2>2 DEF CurrentInv, Undisturbed
    <2>4. Renders(snap)' <=> Renders(snap)
      BY <1>1 DEF Renders, caches
    <2>5. Tables(snap.target)' = Tables(snap.target)
          /\ (httproutes[snap.target].owner = e => httproutes'[snap.target] = httproutes[snap.target])
      <3>1. PICK t \in Services : t = snap.target
        BY <1>2
      <3>2. Tables(t)' = Tables(t) /\ (httproutes[t].owner = e => httproutes'[t] = httproutes[t])
        BY <2>3, <3>1 DEF Steady
      <3>3. QED
        BY <1>1, <3>1, <3>2
    <2>6. CASE ApplyConfigMap
      <3>1. configMaps'[job] = [uid |-> snap.uid, table |-> table] /\ pc' = "service"
        BY <1>1, <2>6 DEF ApplyConfigMap, SetConfigMap, Goto, TypeOK
      <3>2. Renders(snap) /\ table \in Tables(snap.target)
        BY <2>1, <2>2, <2>6 DEF CurrentInv, ApplyConfigMap
      <3>3. QED
        BY <1>1, <2>1, <2>3, <2>4, <2>5, <3>1, <3>2 DEF CurrentInv
    <2>7. CASE ApplyService
      <3>1. translators'[job] = snap.uid /\ pc' = "deployment" /\ pc = "service"
        BY <1>1, <2>7 DEF ApplyService, SetTranslator, Goto, TypeOK
      <3>2. QED
        BY <1>1, <2>1, <2>2, <2>3, <2>4, <2>5, <3>1 DEF CurrentInv, Steady
    <2>8. CASE ApplyDeployment
      <3>1. deployments'[job] = [deployments[job] EXCEPT !.uid = snap.uid, !.table = table]
            /\ pc' = "httproute" /\ pc = "deployment"
        BY <1>1, <2>8 DEF ApplyDeployment, SetDeployment, Goto, TypeOK
      <3>2. deployments'[job].uid = snap.uid /\ deployments'[job].table = table
        BY <1>1, <3>1 DEF TypeOK, Deployment
      <3>3. QED
        BY <1>1, <2>1, <2>2, <2>3, <2>4, <2>5, <3>1, <3>2 DEF CurrentInv, Steady
    <2>9. CASE ApplyHTTPRoute
      <3>1. httproutes'[snap.target] = [owner |-> job, uid |-> snap.uid]
            /\ pc' = "ready" /\ pc = "httproute"
        BY <1>1, <1>2, <2>9 DEF ApplyHTTPRoute, SetHTTPRoute, Goto, TypeOK
      <3>2. QED
        BY <1>1, <2>1, <2>2, <2>3, <2>4, <2>5, <3>1 DEF CurrentInv, Steady
    <2>10. QED
      BY <2>6, <2>7, <2>8, <2>9
  <1>6. QED
    BY <1>1, <1>4, <1>5 DEF CurrentInv, Pending

(* A reconcile ends where the status says what it did, or with an event still to come. *)
LEMMA UpdateQuiet ==
    ASSUME TypeOK, DoneInv, CurrentInv, UpdateStatus
    PROVE  DoneInv' /\ CurrentInv'
  <1>0. PICK written \in Status : /\ ets' = [ets EXCEPT ![job].status = written]
                                   /\ SameButTime(written, draft)
    BY StatusWritten
  <1>1. /\ pc = "status" /\ ets[job] = snap
        /\ UNCHANGED <<generated, caches, queue>> /\ Rest
        /\ job \in ETs /\ snap \in EdgeTransformation /\ Exists(snap)
    BY DEF UpdateStatus, Done, TypeOK
  <1>2. \A t \in Services : Tables(t)' = Tables(t)
    BY <1>1, TablesSame DEF caches
  <1>3. ASSUME NEW f \in ETs, f # job
        PROVE  DoneWith(f)'
    <2>1. Undisturbed(f)
      BY <1>0, <1>1, <1>2, <1>3 DEF Undisturbed, Steady, Pending, generated, caches, TypeOK
    <2>2. ~Busy(f)
      BY <1>3 DEF Busy
    <2>3. QED
      BY <2>1, <2>2, UndisturbedDone DEF DoneInv
  <1>4. ASSUME NEW e \in ETs, e = job, ~Pending(e)'
        PROVE  DoneWith(e)'
    <2>1. ~Pending(e)
      BY <1>1, <1>4 DEF Pending, generated
    <2>2. cacheETs[e] = snap /\ Reconciled(e, snap, draft)
      BY <1>1, <1>4, <2>1 DEF CurrentInv
    <2>3. ets'[e] = [snap EXCEPT !.status = written]
      BY <1>0, <1>1, <1>4 DEF TypeOK
    <2>4. ets'[e].status = written
      BY <1>1, <2>3 DEF EdgeTransformation
    <2>5. ASSUME ets'[e] = cacheETs'[e]
          PROVE  Reconciled(e, cacheETs[e], cacheETs[e].status)'
      <3>1. PICK et \in EdgeTransformation : et = snap
        BY <1>1
      <3>2. cacheETs'[e] = et /\ et.status = written /\ et.target \in Services
        BY <1>1, <2>2, <2>4, <2>5, <3>1 DEF caches, EdgeTransformation, Exists
      <3>3. Reconciled(e, et, et.status)
        BY <1>0, <2>2, <3>1, <3>2 DEF Reconciled, SameButTime
      <3>4. Renders(et)' = Renders(et) /\ PresentReason(e, et)' = PresentReason(e, et)
            /\ Applied(e, et)' = Applied(e, et)
        BY <1>1, <1>2, <3>2 DEF Renders, PresentReason, Applied, generated, caches
      <3>5. Reconciled(e, et, et.status)'
        BY <3>3, <3>4 DEF Reconciled
      <3>6. QED
        BY <3>2, <3>5
    <2>6. QED
      BY <2>5 DEF DoneWith
  <1>5. DoneInv'
    BY <1>3, <1>4 DEF DoneInv, DoneWith
  <1>6. QED
    BY <1>1, <1>5 DEF CurrentInv, Rest

(* The restarted operator has everything reconciled that its caches show. *)
LEMMA RestartQuiet ==
    ASSUME Restart
    PROVE  DoneInv' /\ CurrentInv'
  <1>1. /\ \A e \in ETs : Exists(ets[e]) => e \in queue'
        /\ cacheETs' = ets /\ pc' = "idle"
    BY DEF Restart, Rest
  <1>2. QED
    BY <1>1 DEF DoneInv, DoneWith, CurrentInv, Pending

(* Every step keeps QuietInv. *)
LEMMA NextQuiet ==
    ASSUME TypeOK, QuietInv, [Next]_vars
    PROVE  QuietInv'
  <1>1. AgeInv'
    BY NextAge DEF QuietInv
  <1>2. CASE User
    <2>1. UNCHANGED worker
      BY <1>2 DEF User, CreateET, EditET, DeleteET, SetContextRoute, DeleteContextRoute,
         SetService, SetEndpoint, DropGenerated, Disrupt
    <2>2. QED
      BY <1>1, <1>2, <2>1, UserUndisturbed, UndisturbedQuiet DEF QuietInv
  <1>3. CASE Deliver
    <2>1. UNCHANGED worker
      BY <1>3 DEF Deliver, DeliverET, DeliverAvailable, DeliverGenerated, DeliverContextRoute,
         DeliverContextRouteStatus, DeliverService, DeliverEndpoint
    <2>2. QED
      BY <1>1, <1>3, <2>1, DeliverUndisturbed, UndisturbedQuiet DEF QuietInv
  <1>4. ASSUME NEW e \in ETs, Collect(e) \/ RollOut(e)
        PROVE  QuietInv'
    <2>1. UNCHANGED worker
      BY <1>4 DEF Collect, RollOut
    <2>2. \A f \in ETs : Undisturbed(f)
      BY <1>4, OthersUndisturbed
    <2>3. QED
      BY <1>1, <2>1, <2>2, UndisturbedQuiet DEF QuietInv
  <1>5. ASSUME NEW e \in ETs, TakeRequest(e)
        PROVE  QuietInv'
    BY <1>1, <1>5, TakeQuiet DEF QuietInv
  <1>6. CASE Step
    BY <1>1, <1>6, PlanQuiet, ApplyQuiet, RetryQuiet, UpdateQuiet DEF QuietInv, Step
  <1>7. CASE WriteFails
    BY <1>1, <1>7, RetryQuiet DEF QuietInv
  <1>8. CASE Restart
    BY <1>1, <1>8, RestartQuiet DEF QuietInv
  <1>9. CASE UNCHANGED vars
    <2>1. \A t \in Services : Tables(t)' = Tables(t)
      BY <1>9, TablesSame DEF vars, caches
    <2>2. \A f \in ETs : Undisturbed(f)
      BY <1>9, <2>1 DEF vars, generated, caches, Undisturbed, Steady, Pending
    <2>3. QED
      BY <1>1, <1>9, <2>2, UndisturbedQuiet DEF vars, QuietInv
  <1>10. QED
    BY <1>2, <1>3, <1>4, <1>5, <1>6, <1>7, <1>8, <1>9 DEF Next

(* QuietInv is an invariant: at every moment, an EdgeTransformation is reconciled with the *)
(* present caches, or something that is still to come will have it reconciled. No edit, no *)
(* early return, no overwritten or collected object and no restart is forgotten.           *)
THEOREM NothingIsForgotten == Spec => []QuietInv
  BY InitQuiet, NextQuiet, TypeCorrect, PTL DEF Spec

(* One ContextRoute at most is the oldest on a target. *)
LEMMA OneWinner ==
    ASSUME TypeOK, NEW t \in Services, NEW c \in CRs, NEW d \in CRs, Wins(c, t), Wins(d, t)
    PROVE  c = d
  <1>1. c \in Nat /\ d \in Nat /\ cacheCRs[c].created \in Nat /\ cacheCRs[d].created \in Nat
    BY NullAssumption DEF TypeOK, ContextRoute
  <1>2. QED
    BY <1>1 DEF Wins

(* When the caches show the store, what the reconciler makes of them is what is wanted. *)
LEMMA TablesAreWanted ==
    ASSUME TypeOK, NEW t \in Services, NEW tb \in Tables(t),
           cacheCRs = crs, cacheServices = services, cacheEndpoints = endpoints
    PROVE  IsWanted(tb, t)
  <1>1. CASE Attached(t) = {}
    <2>1. tb = [key |-> t, default |-> cacheEndpoints[t], variants |-> NoTable.variants]
      BY <1>1 DEF Tables
    <2>2. \A c \in CRs : crs[c].target # t
      BY <1>1 DEF Attached
    <2>3. \A s \in Services : NoTable.variants[s] = 0
      BY DEF NoTable
    <2>4. QED
      BY <2>1, <2>2, <2>3 DEF IsWanted, Oldest
  <1>2. CASE Attached(t) # {}
    <2>1. PICK d \in CRs :
             /\ Wins(d, t)
             /\ tb = [key |-> EffectiveRoutingKey(cacheCRs[d]), default |-> cacheEndpoints[t],
                      variants |-> VariantBackends(cacheCRs[d])]
      BY <1>2 DEF Tables
    <2>2. cacheCRs[d].target = t
      BY <2>1 DEF Wins, Attached
    <2>3. ASSUME NEW c \in CRs, Oldest(c, t)
          PROVE  c = d
      <3>1. Wins(c, t)
        <4>1. ASSUME NEW f \in Attached(t) \ {c}
              PROVE  \/ cacheCRs[c].created < cacheCRs[f].created
                     \/ cacheCRs[c].created = cacheCRs[f].created /\ c < f
          <5>1. /\ f \in CRs /\ f # c /\ crs[f].target = t
                /\ c \in Nat /\ f \in Nat /\ crs[c].created \in Nat /\ crs[f].created \in Nat
            BY NullAssumption DEF TypeOK, ContextRoute, Attached
          <5>2. /\ ~(crs[f].created < crs[c].created)
                /\ ~(crs[f].created = crs[c].created /\ f < c)
            BY <2>3, <5>1 DEF Oldest
          <5>3. QED
            BY <5>1, <5>2
        <4>2. QED
          BY <2>3, <4>1 DEF Wins, Attached, Oldest
      <3>2. QED
        BY <2>1, <3>1, OneWinner
    <2>4. \A s \in Services : tb.variants[s] =
             IF s # t /\ services[s].kind # "absent" /\ services[s].label = crs[d].selector
             THEN endpoints[s] ELSE 0
      BY <2>1, <2>2 DEF VariantBackends, Matches
    <2>5. QED
      BY <2>1, <2>2, <2>3, <2>4 DEF IsWanted
  <1>3. QED
    BY <1>1, <1>2

LEMMA QuiescentIsReconciled ==
    ASSUME TypeOK, QuietInv, Quiescent, NEW e \in ETs, Exists(ets[e])
    PROVE  Reconciled(e, ets[e], ets[e].status)
  BY DEF QuietInv, DoneInv, DoneWith, Pending, Busy, Quiescent

(* Once all is quiet, each EdgeTransformation that can have a translator has one that is   *)
(* its own, whole, and made for the present ContextRoutes, Services and endpoints.         *)
THEOREM TableIsAlwaysCurrent == Spec => []TableIsCurrent
  <1>1. TypeOK /\ QuietInv => TableIsCurrent
    <2> SUFFICES ASSUME TypeOK, QuietInv, Quiescent,
                        NEW e \in ETs, Exists(ets[e]), Servable(e)
                 PROVE  TranslatorServes(e)
      BY DEF TableIsCurrent, Served
    <2>1. cacheServices = services /\ cacheEndpoints = endpoints /\ cacheCRs = crs
      BY DEF Quiescent
    <2>2. Applied(e, ets[e])
      BY <2>1, QuiescentIsReconciled DEF Reconciled, Renders, Servable
    <2>3. ets[e].target \in Services
      BY DEF TypeOK, EdgeTransformation, Exists
    <2>4. IsWanted(configMaps[e].table, ets[e].target)
      BY <2>1, <2>2, <2>3, TablesAreWanted DEF Applied
    <2>5. QED
      BY <2>2, <2>4 DEF TranslatorServes, Applied
  <1>2. QED
    BY <1>1, TypeCorrect, NothingIsForgotten, PTL

(* Once all is quiet, the Ready condition of every EdgeTransformation gives the present    *)
(* reason for the present generation.                                                      *)
THEOREM ReasonIsAlwaysCurrent == Spec => []ReasonIsCurrent
  <1>1. TypeOK /\ QuietInv => ReasonIsCurrent
    <2> SUFFICES ASSUME TypeOK, QuietInv, Quiescent, NEW e \in ETs, Exists(ets[e])
                 PROVE  /\ ets[e].status.observed = ets[e].generation
                        /\ ets[e].status.reason =
                              IF ~ets[e].router THEN "ModeNotImplemented"
                              ELSE IF services[ets[e].target].kind = "absent" THEN "TargetNotFound"
                              ELSE IF services[ets[e].target].kind = "other" THEN "UnsupportedTargetType"
                              ELSE IF endpoints[ets[e].target] = 0 THEN "NoReadyEndpoints"
                              ELSE IF deployments[e].available THEN "Reconciled" ELSE "TranslatorNotReady"
      BY DEF ReasonIsCurrent, Reported
    <2>1. /\ cacheServices = services /\ cacheEndpoints = endpoints
          /\ cacheAvailable[e] = deployments[e].available
      BY DEF Quiescent
    <2>2. QED
      BY <2>1, QuiescentIsReconciled DEF Reconciled, PresentReason
  <1>2. QED
    BY <1>1, TypeCorrect, NothingIsForgotten, PTL
=============================================================================
