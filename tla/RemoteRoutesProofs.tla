------------------------- MODULE RemoteRoutesProofs -------------------------
(***************************************************************************)
(* Theorems about RemoteRoutes, for any set of RemoteRoutes, ContextRoutes *)
(* and hosts, any list of upstreams, and any number of user steps, faults  *)
(* and restarts.                                                           *)
(***************************************************************************)
EXTENDS RemoteRoutes, LeastNumbers, TLAPS

-----------------------------------------------------------------------------
(* Helpers. *)

LEMMA NullTypes ==
    /\ NoStatus \in Status /\ NoContextRoute \in ContextRoute /\ NoRemoteRoute \in RemoteRoute
    /\ NoConf \in Conf /\ NoConfigMap \in ConfigMap /\ NoService \in Service
    /\ NoDeployment \in Deployment /\ NoPod \in Pod
  <1>1. NoStatus \in Status
    BY DEF NoStatus, Status, Reasons
  <1>2. NoConf \in Conf
    BY DEF NoConf, Conf
  <1>3. NoContextRoute \in ContextRoute
    BY DEF NoContextRoute, ContextRoute, Selector
  <1>4. NoRemoteRoute \in RemoteRoute
    BY <1>1 DEF NoRemoteRoute, RemoteRoute
  <1>5. QED
    BY <1>1, <1>2, <1>3, <1>4 DEF NoConfigMap, ConfigMap, NoService, Service, NoDeployment,
       Deployment, NoPod, Pod

(* Every list of upstreams renders to a configuration. *)
LEMMA RenderType ==
    ASSUME NEW ups \in Seq(Upstream)
    PROVE  RenderEnvoyConfig(ups) \in Conf
  <1>1. ASSUME NEW i \in DOMAIN ups
        PROVE  {ups[i].urls[j].host : j \in DOMAIN ups[i].urls} \in SUBSET Hosts
    <2>1. ups[i] \in Upstream
      OBVIOUS
    <2>2. ups[i].urls \in Seq(URL)
      BY <2>1 DEF Upstream
    <2>3. \A j \in DOMAIN ups[i].urls : ups[i].urls[j] \in URL
      BY <2>2
    <2>4. QED
      BY <2>3 DEF URL
  <1>2. DOMAIN ups = 1..Len(ups) /\ Len(ups) \in Nat
    OBVIOUS
  <1>3. [i \in DOMAIN ups |-> {ups[i].urls[j].host : j \in DOMAIN ups[i].urls}] \in Seq(SUBSET Hosts)
    BY <1>1, <1>2
  <1>4. QED
    BY <1>3 DEF RenderEnvoyConfig, Conf

(* The labels on the proxy's Service are labels. *)
LEMMA LabelsType ==
    ASSUME NEW r \in RRs, NEW match \in SUBSET Label
    PROVE  RRServiceLabels(r, match) \in SUBSET Label
  BY NullAssumption DEF RRServiceLabels, Label

LEMMA NamesType ==
    ASSUME NEW ups \in Seq(Upstream)
    PROVE  NamesOf(ups) \in SUBSET Names
  <1>1. \A i \in DOMAIN ups : ups[i] \in Upstream
    OBVIOUS
  <1>2. QED
    BY <1>1 DEF NamesOf, Upstream

(* A health report is about upstreams of the list it was asked for, whatever configuration
   the proxy runs. *)
LEMMA HealthyNames ==
    ASSUME NEW ups \in Seq(Upstream), NEW conf
    PROVE  HealthyIn(ups, conf) \subseteq NamesOf(ups)
  BY DEF HealthyIn, NamesOf

(* ActiveUpstream is an entry of the list or none. *)
LEMMA FirstName ==
    ASSUME NEW ups \in Seq(Upstream), NEW healthy
    PROVE  FirstOf(ups, healthy) \in NamesOf(ups) \cup {NoName}
  <1> DEFINE found == {i \in DOMAIN ups : ups[i].name \in healthy}
  <1>1. CASE found = {}
    BY <1>1 DEF FirstOf
  <1>2. CASE found # {}
    <2>1. found \in SUBSET Nat
      OBVIOUS
    <2>2. \E i \in found : \A j \in found : i <= j
      <3> HIDE DEF found
      <3> QED BY <1>2, <2>1, LeastNumber
    <2>3. (CHOOSE i \in found : \A j \in found : i <= j) \in found
      <3> HIDE DEF found
      <3> QED BY <2>2
    <2>4. FirstOf(ups, healthy) = ups[CHOOSE i \in found : \A j \in found : i <= j].name
      BY <1>2 DEF FirstOf
    <2>5. QED
      BY <2>3, <2>4 DEF NamesOf
  <1>3. QED
    BY <1>1, <1>2

LEMMA ErrorType ==
    ASSUME NEW rr, NEW cr
    PROVE  SpecError(rr, cr) \in Reasons
  <1>1. \A ups : UpstreamError(ups) \in {"InvalidUpstream", "MixedScheme", "IncompatibleLBModes", "none"}
    BY DEF UpstreamError
  <1>2. QED
    BY <1>1 DEF SpecError, Reasons

(* What is written into the status is the draft, with a time of its own. *)
SameButTime(written, status) ==
    /\ written.reason = status.reason /\ written.proxyReady = status.proxyReady
    /\ written.healthy = status.healthy /\ written.active = status.active
    /\ written.reachable = status.reachable

LEMMA StatusWritten ==
    ASSUME TypeOK, UpdateStatus, rrs[job] = snap
    PROVE  \E written \in Status : /\ rrs' = [rrs EXCEPT ![job].status = written]
                                   /\ SameButTime(written, draft)
  <1>1. PICK stamp \in BOOLEAN : rrs' = [rrs EXCEPT ![job].status = [draft EXCEPT !.stamp = stamp]]
    BY DEF UpdateStatus, TypeOK, Status
  <1>2. [draft EXCEPT !.stamp = stamp] \in Status /\ SameButTime([draft EXCEPT !.stamp = stamp], draft)
    BY DEF TypeOK, Status, SameButTime
  <1>3. QED
    BY <1>1, <1>2

(* The status a reconcile fills in. *)
LEMMA ReportType ==
    ASSUME TypeOK, NEW available \in BOOLEAN, NEW healthy \in SUBSET NamesOf(snap.upstreams)
    PROVE  Report(available, healthy) \in Status
  <1>1. snap.upstreams \in Seq(Upstream) /\ draft \in Status
    BY DEF TypeOK, RemoteRoute
  <1>2. FirstOf(snap.upstreams, healthy) \in Names \cup {NoName} /\ healthy \in SUBSET Names
    BY <1>1, FirstName, NamesType
  <1>3. draft.reachable \in {"none", "true", "false"} /\ draft.stamp \in BOOLEAN
    BY <1>1 DEF Status
  <1>4. QED
    BY <1>2, <1>3 DEF Report, Status, Reasons

-----------------------------------------------------------------------------
(* Type correctness. *)

(* A RemoteRoute that exists names a ContextRoute. *)
RefsKnown ==
    /\ \A r \in RRs : /\ Exists(rrs[r]) => rrs[r].ref \in CRs
                      /\ Exists(cacheRRs[r]) => cacheRRs[r].ref \in CRs
    /\ Exists(snap) => snap.ref \in CRs

TypeInv == TypeOK /\ RefsKnown

LEMMA InitTypeInv == Init => TypeInv
  <1> SUFFICES ASSUME Init PROVE TypeInv
    OBVIOUS
  <1>1. /\ rrs \in [RRs -> RemoteRoute] /\ cacheRRs \in [RRs -> RemoteRoute]
        /\ crs \in [CRs -> ContextRoute] /\ cacheCRs \in [CRs -> ContextRoute]
        /\ snap \in RemoteRoute /\ parent \in ContextRoute /\ draft \in Status
    BY NullTypes DEF Init
  <1>2. /\ configMaps \in [RRs -> ConfigMap] /\ services \in [RRs -> Service]
        /\ adminServices \in [RRs -> Nat] /\ deployments \in [RRs -> Deployment]
        /\ pods \in [RRs -> Pod] /\ cacheAvailable \in [RRs -> BOOLEAN]
    BY NullTypes DEF Init
  <1>3. uids \in [RRs \cup CRs -> Nat] /\ moves \in 0..MaxMoves
    BY BoundsAssumption DEF Init
  <1>4. RefsKnown
    BY DEF Init, RefsKnown, Exists, NoRemoteRoute
  <1>5. QED
    BY <1>1, <1>2, <1>3, <1>4 DEF Init, TypeInv, TypeOK

(* The worker's variables are well-formed after it has returned. *)
LEMMA RestType ==
    ASSUME Rest
    PROVE  /\ pc' = "idle" /\ job' \in RRs \cup {NoRR} /\ snap' \in RemoteRoute
           /\ parent' \in ContextRoute /\ draft' \in Status /\ ~Exists(snap')
  BY NullTypes DEF Rest, Exists, NoRemoteRoute

(* Writes to owned objects keep their types. *)
LEMMA SetConfigMapType ==
    ASSUME TypeOK, NEW r \in RRs, NEW cm \in ConfigMap, SetConfigMap(r, cm)
    PROVE  /\ configMaps' \in [RRs -> ConfigMap] /\ queue' \subseteq RRs
           /\ UNCHANGED <<services, adminServices, deployments, pods>>
  BY DEF TypeOK, SetConfigMap, Wake

LEMMA SetServiceType ==
    ASSUME TypeOK, NEW r \in RRs, NEW svc \in Service, SetService(r, svc)
    PROVE  /\ services' \in [RRs -> Service] /\ queue' \subseteq RRs
           /\ UNCHANGED <<configMaps, adminServices, deployments, pods>>
  BY DEF TypeOK, SetService, Wake

LEMMA SetAdminServiceType ==
    ASSUME TypeOK, NEW r \in RRs, NEW uid \in Nat, SetAdminService(r, uid)
    PROVE  /\ adminServices' \in [RRs -> Nat] /\ queue' \subseteq RRs
           /\ UNCHANGED <<configMaps, services, deployments, pods>>
  BY DEF TypeOK, SetAdminService, Wake

LEMMA SetDeploymentType ==
    ASSUME TypeOK, NEW r \in RRs, NEW d \in Deployment, SetDeployment(r, d)
    PROVE  /\ deployments' \in [RRs -> Deployment] /\ pods' \in [RRs -> Pod]
           /\ queue' \subseteq RRs
           /\ UNCHANGED <<configMaps, services, adminServices>>
  BY NullTypes DEF TypeOK, SetDeployment, Wake

(* The other conjuncts of the invariant: what a write of a RemoteRoute leaves alone. *)
LEMMA SetRRType ==
    ASSUME TypeInv, NEW r \in RRs, NEW rr \in RemoteRoute, Exists(rr) => rr.ref \in CRs,
           rrs' = [rrs EXCEPT ![r] = rr]
    PROVE  rrs' \in [RRs -> RemoteRoute] /\ \A s \in RRs : Exists(rrs'[s]) => rrs'[s].ref \in CRs
  <1>1. rrs \in [RRs -> RemoteRoute] /\ \A s \in RRs : Exists(rrs[s]) => rrs[s].ref \in CRs
    BY DEF TypeInv, TypeOK, RefsKnown
  <1>2. \A s \in RRs : rrs'[s] = IF s = r THEN rr ELSE rrs[s]
    BY <1>1
  <1>3. rrs' \in [RRs -> RemoteRoute]
    BY <1>1
  <1>4. ASSUME NEW s \in RRs, Exists(rrs'[s])
        PROVE  rrs'[s].ref \in CRs
    BY <1>1, <1>2, <1>4
  <1>5. QED
    BY <1>3, <1>4

(* A new object counts its UID up. *)
LEMMA UidsType ==
    ASSUME TypeInv, NEW n \in RRs \cup CRs, uids' = [uids EXCEPT ![n] = uids[n] + 1]
    PROVE  uids' \in [RRs \cup CRs -> Nat] /\ uids'[n] \in Nat
  <1>1. uids \in [RRs \cup CRs -> Nat]
    BY DEF TypeInv, TypeOK
  <1> DEFINE D == RRs \cup CRs
  <1> HIDE DEF D
  <1>2. uids \in [D -> Nat] /\ n \in D
    BY <1>1 DEF D
  <1>3. uids' \in [D -> Nat] /\ uids'[n] \in Nat
    BY <1>2
  <1>4. QED
    BY <1>3 DEF D

(* Users and hosts. *)
LEMMA UserTypeInv ==
    ASSUME TypeInv,
           \/ \E r \in RRs, c \in CRs, ups \in UpstreamLists : CreateRR(r, c, ups) \/ EditRR(r, c, ups)
           \/ \E r \in RRs : DeleteRR(r)
           \/ \E c \in CRs, sel \in Selectors : CreateCR(c, sel) \/ EditCR(c, sel)
           \/ \E c \in CRs : DeleteCR(c)
           \/ \E h \in Hosts : FlipHost(h)
    PROVE  TypeInv'
  <1> USE DEF owned, caches, worker, bounds, Move
  <1>0. moves < MaxMoves /\ moves' = moves + 1 => moves' \in 0..MaxMoves
    BY BoundsAssumption DEF TypeInv, TypeOK
  <1>1. ASSUME NEW r \in RRs, NEW c \in CRs, NEW ups \in UpstreamLists, CreateRR(r, c, ups)
        PROVE  TypeInv'
    <2>0. uids' = [uids EXCEPT ![r] = uids[r] + 1]
      BY <1>1 DEF CreateRR
    <2>1. uids' \in [RRs \cup CRs -> Nat] /\ uids'[r] \in Nat
      BY <2>0, UidsType
    <2> DEFINE rr == [NoRemoteRoute EXCEPT !.uid = uids'[r], !.ref = c, !.upstreams = ups]
    <2>2. rr \in RemoteRoute /\ rr.ref \in CRs
      BY <2>1, NullTypes, BoundsAssumption DEF RemoteRoute
    <2>3. rrs' = [rrs EXCEPT ![r] = rr]
      BY <1>1 DEF CreateRR
    <2> HIDE DEF rr
    <2>4. rrs' \in [RRs -> RemoteRoute] /\ \A s \in RRs : Exists(rrs'[s]) => rrs'[s].ref \in CRs
      BY <2>2, <2>3, SetRRType
    <2>5. QED
      BY <1>0, <1>1, <2>1, <2>4 DEF CreateRR, TypeInv, TypeOK, RefsKnown
  <1>2. ASSUME NEW r \in RRs, NEW c \in CRs, NEW ups \in UpstreamLists, EditRR(r, c, ups)
        PROVE  TypeInv'
    <2>1. rrs[r] \in RemoteRoute /\ ups \in Seq(Upstream)
      BY BoundsAssumption DEF TypeInv, TypeOK
    <2>2. rrs' = [rrs EXCEPT ![r] = [rrs[r] EXCEPT !.ref = c, !.upstreams = ups]]
      BY <1>2, <2>1 DEF EditRR, TypeInv, TypeOK
    <2>3. [rrs[r] EXCEPT !.ref = c, !.upstreams = ups] \in RemoteRoute
      BY <2>1 DEF RemoteRoute
    <2> DEFINE rr == [rrs[r] EXCEPT !.ref = c, !.upstreams = ups]
    <2>a. rr.ref = c
      BY <2>1 DEF RemoteRoute
    <2> HIDE DEF rr
    <2>4. rrs' \in [RRs -> RemoteRoute] /\ \A s \in RRs : Exists(rrs'[s]) => rrs'[s].ref \in CRs
      BY <2>2, <2>3, <2>a, SetRRType DEF rr
    <2>5. QED
      BY <1>0, <1>2, <2>4 DEF EditRR, TypeInv, TypeOK, RefsKnown
  <1>3. ASSUME NEW r \in RRs, DeleteRR(r)
        PROVE  TypeInv'
    <2>1. ~Exists(NoRemoteRoute)
      BY DEF Exists, NoRemoteRoute
    <2>2. rrs' \in [RRs -> RemoteRoute] /\ \A s \in RRs : Exists(rrs'[s]) => rrs'[s].ref \in CRs
      BY <1>3, <2>1, NullTypes, SetRRType DEF DeleteRR
    <2>3. QED
      BY <1>0, <1>3, <2>2 DEF DeleteRR, TypeInv, TypeOK, RefsKnown
  <1>4. ASSUME NEW c \in CRs, NEW sel \in Selectors, CreateCR(c, sel)
        PROVE  TypeInv'
    <2>0. uids' = [uids EXCEPT ![c] = uids[c] + 1]
      BY <1>4 DEF CreateCR
    <2>1. uids' \in [RRs \cup CRs -> Nat] /\ uids'[c] \in Nat
      BY <2>0, UidsType
    <2>2. crs' \in [CRs -> ContextRoute]
      BY <1>4, <2>1, BoundsAssumption DEF CreateCR, TypeInv, TypeOK, ContextRoute
    <2>3. QED
      BY <1>0, <1>4, <2>1, <2>2 DEF CreateCR, TypeInv, TypeOK, RefsKnown
  <1>5. ASSUME NEW c \in CRs, NEW sel \in Selectors, EditCR(c, sel)
        PROVE  TypeInv'
    <2>1. crs' \in [CRs -> ContextRoute]
      BY <1>5, BoundsAssumption DEF EditCR, TypeInv, TypeOK, ContextRoute
    <2>2. QED
      BY <1>0, <1>5, <2>1 DEF EditCR, TypeInv, TypeOK, RefsKnown
  <1>6. ASSUME NEW c \in CRs, DeleteCR(c)
        PROVE  TypeInv'
    BY <1>0, <1>6, NullTypes DEF DeleteCR, TypeInv, TypeOK, RefsKnown
  <1>7. ASSUME NEW h \in Hosts, FlipHost(h)
        PROVE  TypeInv'
    <2>1. passing' \subseteq Hosts
      BY <1>7 DEF FlipHost, TypeInv, TypeOK
    <2>2. QED
      BY <1>0, <1>7, <2>1 DEF FlipHost, TypeInv, TypeOK, RefsKnown
  <1>8. QED
    BY <1>1, <1>2, <1>3, <1>4, <1>5, <1>6, <1>7

(* Owned objects that vanish, Pods that come and go. *)
LEMMA ClusterTypeInv ==
    ASSUME TypeInv, NEW r \in RRs,
           DropOwned(r) \/ Collect(r) \/ CollectRR(r) \/ RollOut(r) \/ Disrupt(r)
    PROVE  TypeInv'
  <1> USE DEF owned, caches, worker, bounds, Move
  <1>0. moves < MaxMoves /\ moves' = moves + 1 => moves' \in 0..MaxMoves
    BY BoundsAssumption DEF TypeInv, TypeOK
  <1>a. \/ SetConfigMap(r, NoConfigMap)
        \/ SetService(r, NoService)
        \/ SetDeployment(r, NoDeployment)
        \/ CollectServices(r)
        => /\ configMaps' \in [RRs -> ConfigMap] /\ services' \in [RRs -> Service]
           /\ adminServices' \in [RRs -> Nat] /\ deployments' \in [RRs -> Deployment]
           /\ pods' \in [RRs -> Pod] /\ queue' \subseteq RRs
    <2>1. CASE SetConfigMap(r, NoConfigMap)
      BY <2>1, SetConfigMapType, NullTypes DEF TypeInv, TypeOK
    <2>2. CASE SetService(r, NoService)
      BY <2>2, SetServiceType, NullTypes DEF TypeInv, TypeOK
    <2>3. CASE SetDeployment(r, NoDeployment)
      BY <2>3, SetDeploymentType, NullTypes DEF TypeInv, TypeOK
    <2>4. CASE CollectServices(r)
      BY <2>4, NullTypes DEF CollectServices, Wake, TypeInv, TypeOK
    <2>5. QED
      BY <2>1, <2>2, <2>3, <2>4
  <1>1. CASE DropOwned(r)
    BY <1>0, <1>a, <1>1 DEF DropOwned, TypeInv, TypeOK, RefsKnown
  <1>2. CASE Collect(r)
    BY <1>a, <1>2 DEF Collect, TypeInv, TypeOK, RefsKnown
  <1>3. CASE CollectRR(r)
    <2>1. ~Exists(NoRemoteRoute)
      BY DEF Exists, NoRemoteRoute
    <2>2. rrs' \in [RRs -> RemoteRoute] /\ \A s \in RRs : Exists(rrs'[s]) => rrs'[s].ref \in CRs
      BY <1>3, <2>1, NullTypes, SetRRType DEF CollectRR
    <2>3. QED
      BY <1>3, <2>2 DEF CollectRR, TypeInv, TypeOK, RefsKnown
  <1>4. CASE RollOut(r)
    <2>1. pods' \in [RRs -> Pod]
      BY <1>4 DEF RollOut, TypeInv, TypeOK, Pod, Deployment, ConfigMap
    <2>2. QED
      BY <1>4, <2>1 DEF RollOut, TypeInv, TypeOK, RefsKnown
  <1>5. CASE Disrupt(r)
    BY <1>0, <1>5, NullTypes DEF Disrupt, TypeInv, TypeOK, RefsKnown
  <1>6. QED
    BY <1>1, <1>2, <1>3, <1>4, <1>5

(* Informers, timers and a new manager. *)
LEMMA EventTypeInv ==
    ASSUME TypeInv,
           \/ \E r \in RRs : DeliverRR(r) \/ DeliverAvailable(r) \/ Poll(r)
           \/ \E c \in CRs : DeliverCR(c) \/ DeliverCRStatus(c)
           \/ Restart
    PROVE  TypeInv'
  <1> USE DEF owned, caches, worker, bounds, Move
  <1>1. ASSUME NEW r \in RRs, DeliverRR(r)
        PROVE  TypeInv'
    BY <1>1 DEF DeliverRR, TypeInv, TypeOK, RefsKnown
  <1>2. ASSUME NEW r \in RRs, DeliverAvailable(r)
        PROVE  TypeInv'
    <2>1. cacheAvailable' \in [RRs -> BOOLEAN]
      BY <1>2 DEF DeliverAvailable, TypeInv, TypeOK, Pod
    <2>2. QED
      BY <1>2, <2>1 DEF DeliverAvailable, TypeInv, TypeOK, RefsKnown
  <1>3. ASSUME NEW r \in RRs, Poll(r)
        PROVE  TypeInv'
    BY <1>3 DEF Poll, TypeInv, TypeOK, RefsKnown
  <1>4. ASSUME NEW c \in CRs, DeliverCR(c) \/ DeliverCRStatus(c)
        PROVE  TypeInv'
    BY <1>4 DEF DeliverCR, DeliverCRStatus, MapCRToRRs, TypeInv, TypeOK, RefsKnown
  <1>5. CASE Restart
    <2>1. moves' \in 0..MaxMoves
      BY <1>5, BoundsAssumption DEF Restart, TypeInv, TypeOK
    <2>2. cacheAvailable' \in [RRs -> BOOLEAN]
      BY <1>5 DEF Restart, TypeInv, TypeOK, Pod
    <2>3. QED
      BY <1>5, <2>1, <2>2, RestType DEF Restart, TypeInv, TypeOK, RefsKnown
  <1>6. QED
    BY <1>1, <1>2, <1>3, <1>4, <1>5

(* TakeRequest: what Reconcile reads is a pair of cached objects, and it goes on only for a
   RemoteRoute that exists. *)
LEMMA TakeTypeInv ==
    ASSUME TypeInv, NEW r \in RRs, TakeRequest(r)
    PROVE  TypeInv'
  <1> USE DEF owned, caches, bounds
  <1> DEFINE rr == cacheRRs[r]
             cr == cacheCRs[rr.ref]
  <1>1. rr \in RemoteRoute /\ rr.status \in Status /\ (Exists(rr) => rr.ref \in CRs)
    BY DEF TypeInv, TypeOK, RefsKnown, RemoteRoute
  <1>2. queue' \subseteq RRs
    BY DEF TakeRequest, TypeInv, TypeOK
  <1>3. CASE ~Exists(rr)
    <2>1. Rest
      BY <1>3 DEF TakeRequest
    <2>2. QED
      BY <1>2, <2>1, RestType DEF TakeRequest, TypeInv, TypeOK, RefsKnown
  <1>4. CASE Exists(rr)
    <2>1. cr \in ContextRoute /\ job' = r /\ snap' = rr /\ parent' = cr
      BY <1>1, <1>4 DEF TakeRequest, TypeInv, TypeOK
    <2>2. SpecError(rr, cr) \in Reasons /\ "ContextRouteNotFound" \in Reasons
      BY ErrorType DEF Reasons
    <2>3. \A reason \in Reasons : [rr.status EXCEPT !.reason = reason] \in Status
      BY <1>1 DEF Status
    <2>4. /\ pc' \in {"own", "configmap", "reject"}
          /\ \/ draft' = rr.status
             \/ \E reason \in Reasons : draft' = [rr.status EXCEPT !.reason = reason]
      BY <1>4, <2>2 DEF TakeRequest
    <2>5. draft' \in Status
      BY <1>1, <2>3, <2>4
    <2> HIDE DEF rr, cr
    <2>6. QED
      BY <1>1, <1>2, <1>4, <2>1, <2>4, <2>5 DEF TakeRequest, TypeInv, TypeOK, RefsKnown
  <1>5. QED
    BY <1>3, <1>4

(* The other steps of the worker. *)
LEMMA StepTypeInv ==
    ASSUME TypeInv, Step \/ WriteFails
    PROVE  TypeInv'
  <1> USE DEF owned, caches, worker, bounds, Move, Goto
  <1>0. moves < MaxMoves /\ moves' = moves + 1 => moves' \in 0..MaxMoves
    BY BoundsAssumption DEF TypeInv, TypeOK
  <1>a. pc # "idle" => /\ job \in RRs /\ Exists(snap) /\ snap.ref \in CRs
                       /\ snap.uid \in Nat /\ snap.upstreams \in Seq(Upstream)
                       /\ parent.uid \in Nat /\ parent.selector.match \in SUBSET Label
    BY DEF TypeInv, TypeOK, RefsKnown, RemoteRoute, ContextRoute, Selector
  <1>b. ASSUME Retry, job \in RRs
        PROVE  /\ Rest /\ queue' \subseteq RRs
    BY <1>b DEF Retry, TypeInv, TypeOK
  <1>1. CASE InstallOwner
    <2>1. Rest /\ queue' \subseteq RRs
      BY <1>1, <1>a, <1>b DEF InstallOwner
    <2>2. rrs' \in [RRs -> RemoteRoute] /\ \A s \in RRs : Exists(rrs'[s]) => rrs'[s].ref \in CRs
      <3>1. CASE UNCHANGED rrs
        BY <3>1 DEF TypeInv, TypeOK, RefsKnown
      <3>2. CASE rrs' = [rrs EXCEPT ![job].owners = {OwnerRef(snap, parent)}] /\ rrs[job] = snap
        <4> DEFINE rr == [snap EXCEPT !.owners = {OwnerRef(snap, parent)}]
        <4>a. {OwnerRef(snap, parent)} \in SUBSET (CRs \X Nat)
          BY <1>1, <1>a DEF InstallOwner, OwnerRef
        <4>b. snap \in RemoteRoute
          BY DEF TypeInv, TypeOK
        <4>1. rr \in RemoteRoute /\ rr.ref = snap.ref
          BY <4>a, <4>b DEF RemoteRoute
        <4>2. rrs' = [rrs EXCEPT ![job] = rr]
          BY <3>2
        <4> HIDE DEF rr
        <4>3. QED
          BY <1>1, <1>a, <4>1, <4>2, SetRRType DEF InstallOwner
      <3>3. QED
        BY <1>1, <3>1, <3>2 DEF InstallOwner
    <2>3. QED
      BY <1>1, <2>1, <2>2, RestType DEF InstallOwner, TypeInv, TypeOK, RefsKnown
  <1>2. CASE ApplyConfigMap
    <2>1. [owner |-> snap.uid, conf |-> RenderEnvoyConfig(snap.upstreams)] \in ConfigMap
      BY <1>2, <1>a, RenderType DEF ApplyConfigMap, ConfigMap
    <2>2. /\ configMaps' \in [RRs -> ConfigMap] /\ queue' \subseteq RRs
          /\ UNCHANGED <<services, adminServices, deployments, pods>>
      BY <1>2, <1>a, <2>1, SetConfigMapType DEF ApplyConfigMap, TypeInv
    <2>3. QED
      BY <1>2, <1>a, <2>2 DEF ApplyConfigMap, TypeInv, TypeOK, RefsKnown
  <1>3. CASE ApplyService
    <2>1. [owner |-> snap.uid, labels |-> RRServiceLabels(job, parent.selector.match)] \in Service
      BY <1>3, <1>a, LabelsType DEF ApplyService, Service
    <2>2. /\ services' \in [RRs -> Service] /\ queue' \subseteq RRs
          /\ UNCHANGED <<configMaps, adminServices, deployments, pods>>
      BY <1>3, <1>a, <2>1, SetServiceType DEF ApplyService, TypeInv
    <2>3. QED
      BY <1>3, <1>a, <2>2 DEF ApplyService, TypeInv, TypeOK, RefsKnown
  <1>4. CASE ApplyAdminService
    <2>1. /\ adminServices' \in [RRs -> Nat] /\ queue' \subseteq RRs
          /\ UNCHANGED <<configMaps, services, deployments, pods>>
      BY <1>4, <1>a, SetAdminServiceType DEF ApplyAdminService, TypeInv
    <2>2. QED
      BY <1>4, <1>a, <2>1 DEF ApplyAdminService, TypeInv, TypeOK, RefsKnown
  <1>5. CASE ApplyDeployment
    <2>1. [owner |-> snap.uid, checksum |-> RenderEnvoyConfig(snap.upstreams)] \in Deployment
      BY <1>5, <1>a, RenderType DEF ApplyDeployment, Deployment
    <2>2. /\ deployments' \in [RRs -> Deployment] /\ pods' \in [RRs -> Pod] /\ queue' \subseteq RRs
          /\ UNCHANGED <<configMaps, services, adminServices>>
      BY <1>5, <1>a, <2>1, SetDeploymentType DEF ApplyDeployment, TypeInv
    <2>3. QED
      BY <1>5, <1>a, <2>2 DEF ApplyDeployment, TypeInv, TypeOK, RefsKnown
  <1>6. CASE ObserveNoProxy
    <2>1. draft' \in Status
      BY <1>6, ReportType DEF ObserveNoProxy, TypeInv
    <2>2. QED
      BY <1>6, <1>a, <2>1 DEF ObserveNoProxy, TypeInv, TypeOK, RefsKnown
  <1>7. CASE Scrape
    <2>1. HealthyIn(snap.upstreams, pods[job].conf) \in SUBSET NamesOf(snap.upstreams)
      BY <1>7, <1>a, HealthyNames DEF Scrape
    <2>2. draft' \in Status
      BY <1>7, <2>1, ReportType DEF Scrape, TypeInv
    <2>3. QED
      BY <1>7, <1>a, <2>2 DEF Scrape, TypeInv, TypeOK, RefsKnown
  <1>8. CASE ScrapeFails
    <2>1. draft' \in Status
      BY <1>8, ReportType DEF ScrapeFails, TypeInv
    <2>2. moves' \in 0..MaxMoves
      BY <1>0, <1>8 DEF ScrapeFails, TypeInv, TypeOK
    <2>3. QED
      BY <1>8, <1>a, <2>1, <2>2 DEF ScrapeFails, TypeInv, TypeOK, RefsKnown
  <1>9. CASE UpdateStatus
    <2>1. job \in RRs /\ draft \in Status
      BY <1>9, <1>a DEF UpdateStatus, TypeInv, TypeOK
    <2>2. Rest /\ queue' \subseteq RRs /\ timers' \subseteq RRs
      BY <1>9, <1>b, <2>1 DEF UpdateStatus, TypeInv, TypeOK
    <2>3. rrs' \in [RRs -> RemoteRoute] /\ \A s \in RRs : Exists(rrs'[s]) => rrs'[s].ref \in CRs
      <3>1. CASE UNCHANGED rrs
        BY <3>1 DEF TypeInv, TypeOK, RefsKnown
      <3>2. CASE rrs[job] = snap
        <4>0. PICK written \in Status : rrs' = [rrs EXCEPT ![job].status = written]
          BY <1>9, <3>2, StatusWritten DEF TypeInv
        <4> DEFINE rr == [snap EXCEPT !.status = written]
        <4>1. rr \in RemoteRoute /\ rr.ref = snap.ref
          BY DEF TypeInv, TypeOK, RemoteRoute
        <4>2. rrs' = [rrs EXCEPT ![job] = rr]
          BY <3>2, <4>0
        <4> HIDE DEF rr
        <4>3. QED
          BY <1>9, <1>a, <4>1, <4>2, SetRRType DEF UpdateStatus
      <3>3. QED
        BY <1>9, <3>1, <3>2 DEF UpdateStatus
    <2>4. QED
      BY <1>9, <2>2, <2>3, RestType DEF UpdateStatus, TypeInv, TypeOK, RefsKnown
  <1>10. CASE WriteFails
    <2>1. Rest /\ queue' \subseteq RRs
      BY <1>10, <1>a, <1>b DEF WriteFails
    <2>2. QED
      BY <1>0, <1>10, <2>1, RestType DEF WriteFails, TypeInv, TypeOK, RefsKnown
  <1>11. QED
    BY <1>1, <1>2, <1>3, <1>4, <1>5, <1>6, <1>7, <1>8, <1>9, <1>10 DEF Step

LEMMA NextTypeInv == TypeInv /\ [Next]_vars => TypeInv'
  <1> SUFFICES ASSUME TypeInv, [Next]_vars PROVE TypeInv'
    OBVIOUS
  <1>1. CASE UNCHANGED vars
    BY <1>1 DEF vars, owned, caches, worker, bounds, TypeInv, TypeOK, RefsKnown
  <1>2. QED
    BY <1>1, UserTypeInv, ClusterTypeInv, EventTypeInv, TakeTypeInv, StepTypeInv DEF Next

(* The controller keeps its types: whatever it takes from the queue exists while it works on
   it, and what it renders and reports is well-formed. *)
THEOREM RemoteTypeCorrect == Spec => []TypeOK
  <1>1. TypeInv => TypeOK
    BY DEF TypeInv
  <1>2. QED
    BY <1>1, InitTypeInv, NextTypeInv, PTL DEF Spec

-----------------------------------------------------------------------------
(* Health reports. *)

(* A report in memory is about the spec it was made for; a rejected spec keeps the old one. *)
DraftMatches ==
    /\ pc = "report" => /\ draft.healthy \subseteq NamesOf(snap.upstreams)
                        /\ draft.active = FirstOf(snap.upstreams, draft.healthy)
    /\ pc = "reject" => /\ draft.healthy = snap.status.healthy
                        /\ draft.active = snap.status.active

LEMMA ReportMatches ==
    ASSUME TypeInv, NEW available, NEW healthy \in SUBSET NamesOf(snap.upstreams),
           draft' = Report(available, healthy), UNCHANGED snap
    PROVE  /\ draft'.healthy \subseteq NamesOf(snap.upstreams)
           /\ draft'.active = FirstOf(snap.upstreams, draft'.healthy)
  BY DEF Report

LEMMA NextDraftMatches == TypeInv /\ DraftMatches /\ [Next]_vars => DraftMatches'
  <1> SUFFICES ASSUME TypeInv, DraftMatches, [Next]_vars PROVE DraftMatches'
    OBVIOUS
  <1>1. ASSUME UNCHANGED worker
        PROVE  DraftMatches'
    BY <1>1 DEF worker, DraftMatches
  <1>2. ASSUME pc' \notin {"report", "reject"}
        PROVE  DraftMatches'
    BY <1>2 DEF DraftMatches
  <1>3. ASSUME NEW r \in RRs, TakeRequest(r)
        PROVE  DraftMatches'
    <2>1. cacheRRs[r] \in RemoteRoute /\ cacheRRs[r].status \in Status
      BY DEF TypeInv, TypeOK, RemoteRoute
    <2>2. pc' = "reject" => /\ snap' = cacheRRs[r]
                            /\ \E reason : draft' = [cacheRRs[r].status EXCEPT !.reason = reason]
      BY <1>3 DEF TakeRequest, Rest
    <2>3. pc' # "report"
      BY <1>3 DEF TakeRequest, Rest
    <2>4. QED
      BY <2>1, <2>2, <2>3 DEF DraftMatches, Status
  <1>4. ASSUME NEW available, NEW healthy \in SUBSET NamesOf(snap.upstreams),
               draft' = Report(available, healthy), Goto("report")
        PROVE  DraftMatches'
    <2>1. pc' = "report" /\ UNCHANGED snap
      BY <1>4 DEF Goto
    <2>2. QED
      BY <1>4, <2>1, ReportMatches DEF DraftMatches
  <1>5. CASE ObserveNoProxy
    BY <1>4, <1>5 DEF ObserveNoProxy
  <1>6. CASE Scrape
    <2>1. HealthyIn(snap.upstreams, pods[job].conf) \in SUBSET NamesOf(snap.upstreams)
      BY HealthyNames DEF TypeInv, TypeOK, RemoteRoute
    <2>2. QED
      BY <1>4, <1>6, <2>1 DEF Scrape
  <1>7. CASE ScrapeFails
    BY <1>4, <1>7 DEF ScrapeFails
  <1>8. CASE InstallOwner \/ ApplyConfigMap \/ ApplyService \/ ApplyAdminService
             \/ ApplyDeployment \/ UpdateStatus \/ WriteFails \/ Restart
    BY <1>2, <1>8 DEF InstallOwner, ApplyConfigMap, ApplyService, ApplyAdminService,
       ApplyDeployment, UpdateStatus, WriteFails, Restart, Retry, Rest, Goto
  <1>9. CASE UNCHANGED vars
    BY <1>1, <1>9 DEF vars
  <1>10. CASE \/ \E r \in RRs, c \in CRs, ups \in UpstreamLists : CreateRR(r, c, ups) \/ EditRR(r, c, ups)
              \/ \E c \in CRs, sel \in Selectors : CreateCR(c, sel) \/ EditCR(c, sel)
              \/ \E c \in CRs : DeleteCR(c) \/ DeliverCR(c) \/ DeliverCRStatus(c)
              \/ \E h \in Hosts : FlipHost(h)
              \/ \E r \in RRs : \/ DeleteRR(r) \/ DropOwned(r) \/ Collect(r) \/ CollectRR(r)
                                \/ RollOut(r) \/ Disrupt(r)
                                \/ DeliverRR(r) \/ DeliverAvailable(r) \/ Poll(r)
    BY <1>1, <1>10 DEF CreateRR, EditRR, CreateCR, EditCR, DeleteCR, DeliverCR,
       DeliverCRStatus, FlipHost, DeleteRR, DropOwned, Collect, CollectRR, RollOut, Disrupt, DeliverRR, DeliverAvailable, Poll
  <1>11. QED
    BY <1>3, <1>5, <1>6, <1>7, <1>8, <1>9, <1>10 DEF Next, Step

(* The reported health and the active upstream of a RemoteRoute. *)
HealthOf(rr) == <<rr.status.healthy, rr.status.active>>

ActiveFirst(rr) ==
    /\ rr.status.healthy \subseteq NamesOf(rr.upstreams)
    /\ rr.status.active = FirstOf(rr.upstreams, rr.status.healthy)

(* A write of a RemoteRoute leaves the reported health alone, empties it with the object, or
   is the write of a report onto the spec it was made for. *)
LEMMA StepActiveFirst ==
    ASSUME TypeInv, DraftMatches, [Next]_vars, NEW r \in RRs,
           Exists(rrs'[r]), HealthOf(rrs'[r]) # HealthOf(rrs[r])
    PROVE  ActiveFirst(rrs'[r])
  <1> USE DEF HealthOf
  <1>0. rrs \in [RRs -> RemoteRoute] /\ ~Exists(NoRemoteRoute)
    BY DEF TypeInv, TypeOK, Exists, NoRemoteRoute
  <1>1. ASSUME NEW s \in RRs, NEW c \in CRs, NEW ups \in UpstreamLists, CreateRR(s, c, ups)
        PROVE  rrs'[r].status = NoStatus
    <2>1. r = s
      BY <1>0, <1>1 DEF CreateRR
    <2>2. QED
      BY <1>0, <1>1, <2>1 DEF CreateRR, NoRemoteRoute
  <1>2. ASSUME NEW s \in RRs, NEW c \in CRs, NEW ups \in UpstreamLists, EditRR(s, c, ups)
        PROVE  FALSE
    BY <1>0, <1>2 DEF EditRR, RemoteRoute
  <1>3. ASSUME NEW s \in RRs, DeleteRR(s) \/ CollectRR(s)
        PROVE  FALSE
    BY <1>0, <1>3 DEF DeleteRR, CollectRR
  <1>4. CASE InstallOwner
    <2>1. \/ rrs' = rrs
          \/ \E o : rrs' = [rrs EXCEPT ![job] = [rrs[job] EXCEPT !.owners = o]]
      BY <1>4 DEF InstallOwner
    <2>2. \A o : [rrs[r] EXCEPT !.owners = o].status = rrs[r].status
      BY <1>0 DEF RemoteRoute
    <2>3. CASE rrs' = rrs
      BY <2>3
    <2>4. CASE rrs' # rrs
      <3>1. PICK o : rrs' = [rrs EXCEPT ![job] = [rrs[job] EXCEPT !.owners = o]]
        BY <2>1, <2>4
      <3> DEFINE rr == [rrs[job] EXCEPT !.owners = o]
      <3>2. rrs'[r] = IF r = job THEN rr ELSE rrs[r]
        BY <1>0, <3>1
      <3>3. r = job => rr.status = rrs[r].status
        BY <2>2
      <3> HIDE DEF rr
      <3>4. rrs'[r].status = rrs[r].status
        BY <3>2, <3>3
      <3>5. QED
        BY <3>4
    <2>5. QED
      BY <2>3, <2>4
  <1>5. CASE UpdateStatus
    <2>0. job = r /\ rrs[job] = snap
      BY <1>0, <1>5 DEF UpdateStatus
    <2>1. PICK written \in Status : /\ rrs' = [rrs EXCEPT ![r].status = written]
                                   /\ SameButTime(written, draft)
      BY <1>5, <2>0, StatusWritten DEF TypeInv
    <2>2. /\ rrs'[r].upstreams = snap.upstreams
          /\ rrs'[r].status.healthy = draft.healthy /\ rrs'[r].status.active = draft.active
      BY <1>0, <2>0, <2>1 DEF RemoteRoute, SameButTime
    <2>3. pc = "report"
      BY <1>5, <2>0, <2>2 DEF UpdateStatus, DraftMatches
    <2>4. QED
      BY <2>2, <2>3 DEF DraftMatches, ActiveFirst
  <1>6. ASSUME UNCHANGED rrs
        PROVE  FALSE
    BY <1>6
  <1>7. NoStatus.healthy = {} /\ NoStatus.active = NoName
    BY DEF NoStatus
  <1>8. CASE \/ \E c \in CRs, sel \in Selectors : CreateCR(c, sel) \/ EditCR(c, sel)
             \/ \E c \in CRs : DeleteCR(c) \/ DeliverCR(c) \/ DeliverCRStatus(c)
             \/ \E h \in Hosts : FlipHost(h)
             \/ \E s \in RRs : \/ DropOwned(s) \/ Collect(s) \/ RollOut(s) \/ Disrupt(s)
                               \/ DeliverRR(s) \/ DeliverAvailable(s) \/ Poll(s)
                               \/ TakeRequest(s)
             \/ ApplyConfigMap \/ ApplyService \/ ApplyAdminService \/ ApplyDeployment
             \/ ObserveNoProxy \/ Scrape \/ ScrapeFails \/ WriteFails \/ Restart
    BY <1>6, <1>8 DEF CreateCR, EditCR, DeleteCR, DeliverCR, DeliverCRStatus, FlipHost,
       DropOwned, Collect, RollOut, Disrupt, DeliverRR, DeliverAvailable, Poll, TakeRequest, ApplyConfigMap,
       ApplyService, ApplyAdminService, ApplyDeployment, ObserveNoProxy, Scrape, ScrapeFails,
       WriteFails, Restart
  <1>9. CASE UNCHANGED vars
    BY <1>6, <1>9 DEF vars
  <1>10. CASE \E s \in RRs, c \in CRs, ups \in UpstreamLists : CreateRR(s, c, ups)
    <2>1. rrs'[r].status.healthy = {} /\ rrs'[r].status.active = NoName
      BY <1>1, <1>7, <1>10
    <2>2. FirstOf(rrs'[r].upstreams, {}) = NoName
      BY DEF FirstOf
    <2>3. QED
      BY <2>1, <2>2 DEF ActiveFirst
  <1>11. CASE \E s \in RRs, c \in CRs, ups \in UpstreamLists : EditRR(s, c, ups)
    BY <1>2, <1>11
  <1>12. CASE \E s \in RRs : DeleteRR(s) \/ CollectRR(s)
    BY <1>3, <1>12
  <1>13. QED
    <2>1. CASE Next
      BY <1>4, <1>5, <1>8, <1>10, <1>11, <1>12, <2>1 DEF Next, Step
    <2>2. QED
      BY <1>9, <2>1

(* However specs are edited, deleted and re-created while a scrape is under way, a report goes
   onto the spec it was made for, and names its highest-priority marked upstream active: the
   optimistic update refuses it on any other. Whether the marks are right is not said. *)
THEOREM RemoteActiveFirst == Spec => ActiveIsFirstHealthy
  <1> DEFINE Step1 == \A r \in RRs :
          Exists(rrs'[r]) /\ HealthOf(rrs'[r]) # HealthOf(rrs[r]) => ActiveFirst(rrs'[r])
  <1>1. Init => DraftMatches
    BY DEF Init, DraftMatches
  <1>2. TypeInv /\ DraftMatches /\ [Next]_vars => [Step1]_rrs
    BY StepActiveFirst
  <1> HIDE DEF Step1
  <1>3. Spec => [][Step1]_rrs
    BY <1>1, <1>2, InitTypeInv, NextTypeInv, NextDraftMatches, PTL DEF Spec
  <1>4. QED
    BY <1>3 DEF ActiveIsFirstHealthy, Step1, HealthOf, ActiveFirst

-----------------------------------------------------------------------------
(* What is done when nothing is under way. *)

(* The reason that a RemoteRoute and its ContextRoute, as they are read, are given. *)
Reason(rr, cr, available) ==
    IF ~Exists(cr) THEN "ContextRouteNotFound"
    ELSE IF SpecError(rr, cr) # "none" THEN SpecError(rr, cr)
    ELSE IF available THEN "Reconciled" ELSE "ProxyNotReady"

OwnsIt(rr, cr) == Exists(cr) => OwnerRef(rr, cr) \in rr.owners

(* What each Apply writes. *)
ConfigMapOf(rr)      == [owner |-> rr.uid, conf |-> RenderEnvoyConfig(rr.upstreams)]
ServiceOf(r, rr, cr) == [owner |-> rr.uid, labels |-> RRServiceLabels(r, cr.selector.match)]
DeploymentOf(rr)     == [owner |-> rr.uid, checksum |-> RenderEnvoyConfig(rr.upstreams)]

Applied(r, rr, cr) ==
    /\ configMaps[r] = ConfigMapOf(rr) /\ services[r] = ServiceOf(r, rr, cr)
    /\ adminServices[r] = rr.uid /\ deployments[r] = DeploymentOf(rr)

(* The RemoteRoute as it is cached has been reconciled with the ContextRoute as it is. *)
Reconciled(r) ==
    LET rr == cacheRRs[r]
        cr == cacheCRs[rr.ref]
    IN  /\ OwnsIt(rr, cr)
        /\ rr.status.reason = Reason(rr, cr, cacheAvailable[r])
        /\ Exists(cr) /\ SpecError(rr, cr) = "none" => Applied(r, rr, cr)

(* An event is to come that the present cache cannot do without: edits may be taken back
   before they are seen, but neither a status nor a UID is. *)
Stale(r) == rrs[r].uid # cacheRRs[r].uid \/ rrs[r].status # cacheRRs[r].status

Busy(r) == pc # "idle" /\ job = r

DoneInv ==
    \A r \in RRs : r \notin queue /\ ~Busy(r) /\ Exists(cacheRRs[r]) =>
        Stale(r) \/ Reconciled(r)

(* A UID is given once. *)
UidsInv == \A r \in RRs : rrs[r].uid <= uids[r] /\ cacheRRs[r].uid <= uids[r]

(* What the worker found before it came where it is. *)
StageInv ==
    /\ pc \notin {"idle", "own"} => OwnsIt(snap, parent)
    /\ pc \notin {"idle", "own", "reject"} => Exists(parent) /\ SpecError(snap, parent) = "none"
    /\ pc = "reject" => /\ Exists(parent) => SpecError(snap, parent) # "none"
                        /\ draft.reason = Reason(snap, parent, FALSE)

(* What it has done stands, and what it has read is so, unless it will come again. *)
CurrentInv ==
    pc # "idle" /\ job \notin queue =>
        /\ snap = cacheRRs[job] /\ parent = cacheCRs[snap.ref]
        /\ pc \in {"service", "admin", "deployment", "observe", "report"} =>
              configMaps[job] = ConfigMapOf(snap)
        /\ pc \in {"admin", "deployment", "observe", "report"} =>
              services[job] = ServiceOf(job, snap, parent)
        /\ pc \in {"deployment", "observe", "report"} => adminServices[job] = snap.uid
        /\ pc \in {"observe", "report"} => deployments[job] = DeploymentOf(snap)
        /\ pc = "report" =>
              draft.reason = IF cacheAvailable[job] THEN "Reconciled" ELSE "ProxyNotReady"

QuietInv == DoneInv /\ UidsInv /\ StageInv /\ CurrentInv

(* What the others' steps leave of the view that the controller has of r. *)
Seen(r) ==
    /\ cacheRRs'[r] = cacheRRs[r]
    /\ Exists(cacheRRs[r]) =>
          /\ cacheCRs'[cacheRRs[r].ref] = cacheCRs[cacheRRs[r].ref]
          /\ cacheAvailable'[r] = cacheAvailable[r]
          /\ configMaps'[r] = configMaps[r] /\ services'[r] = services[r]
          /\ adminServices'[r] = adminServices[r] /\ deployments'[r] = deployments[r]
          /\ Stale(r) => Stale(r)'

Unheard(r) == r \in queue' \/ (r \notin queue /\ Seen(r))

LEMMA SeenWhenUnchanged ==
    ASSUME UNCHANGED <<rrs, caches, configMaps, services, adminServices, deployments>>, NEW r
    PROVE  Seen(r)
  BY DEF caches, Seen, Stale

(* Every write to an owned object wakes its RemoteRoute. *)
LEMMA WriteIsHeard ==
    ASSUME TypeInv, UNCHANGED <<rrs, caches>>, NEW s \in RRs,
           \/ \E cm : SetConfigMap(s, cm)
           \/ \E svc : SetService(s, svc)
           \/ \E uid : SetAdminService(s, uid)
           \/ \E d : SetDeployment(s, d)
           \/ CollectServices(s),
           NEW r \in RRs
    PROVE  Unheard(r) /\ queue \subseteq queue'
  <1>1. queue' = queue \/ queue' = queue \cup {s}
    BY DEF SetConfigMap, SetService, SetAdminService, SetDeployment, CollectServices, Wake
  <1>2. /\ configMaps \in [RRs -> ConfigMap] /\ services \in [RRs -> Service]
        /\ adminServices \in [RRs -> Nat] /\ deployments \in [RRs -> Deployment]
    BY DEF TypeInv, TypeOK
  <1>3. \/ s \in queue'
        \/ UNCHANGED <<configMaps, services, adminServices, deployments>>
    BY <1>2 DEF SetConfigMap, SetService, SetAdminService, SetDeployment, CollectServices, Wake
  <1>4. r # s => /\ configMaps'[r] = configMaps[r] /\ services'[r] = services[r]
                 /\ adminServices'[r] = adminServices[r] /\ deployments'[r] = deployments[r]
    BY <1>2 DEF SetConfigMap, SetService, SetAdminService, SetDeployment, CollectServices
  <1>5. QED
    BY <1>1, <1>3, <1>4 DEF Unheard, Seen, Stale, caches

(* The steps of users, hosts and Kubernetes, informers and timers. *)
Environment ==
    \/ \E r \in RRs, c \in CRs, ups \in UpstreamLists : CreateRR(r, c, ups) \/ EditRR(r, c, ups)
    \/ \E c \in CRs, sel \in Selectors : CreateCR(c, sel) \/ EditCR(c, sel)
    \/ \E c \in CRs : DeleteCR(c) \/ DeliverCR(c) \/ DeliverCRStatus(c)
    \/ \E h \in Hosts : FlipHost(h)
    \/ \E r \in RRs : \/ DeleteRR(r) \/ DropOwned(r) \/ Collect(r) \/ CollectRR(r)
                      \/ RollOut(r) \/ Disrupt(r)
                      \/ DeliverRR(r) \/ DeliverAvailable(r) \/ Poll(r)

(* None of them is lost on the controller: it leaves the controller's view as it is, or asks
   for a reconcile; and it never gives a UID again. *)
LEMMA EnvironmentIsHeard ==
    ASSUME TypeInv, UidsInv, Environment
    PROVE  /\ UNCHANGED worker /\ queue \subseteq queue' /\ UidsInv'
           /\ \A r \in RRs : Unheard(r)
  <1> USE DEF owned, caches, bounds
  <1>0. /\ rrs \in [RRs -> RemoteRoute] /\ uids \in [RRs \cup CRs -> Nat]
        /\ cacheRRs \in [RRs -> RemoteRoute] /\ cacheCRs \in [CRs -> ContextRoute]
        /\ \A r \in RRs : rrs[r].uid \in Nat /\ cacheRRs[r].uid \in Nat /\ uids[r] \in Nat
        /\ \A r \in RRs : Exists(cacheRRs[r]) => cacheRRs[r].ref \in CRs
    BY DEF TypeInv, TypeOK, RefsKnown, RemoteRoute
  <1>1. ASSUME UNCHANGED <<rrs, caches, owned, queue, worker>>,
               UNCHANGED uids \/ \E c \in CRs : uids' = [uids EXCEPT ![c] = uids[c] + 1]
        PROVE  /\ UNCHANGED worker /\ queue \subseteq queue' /\ UidsInv'
               /\ \A r \in RRs : Unheard(r)
    <2>1. \A r \in RRs : uids'[r] >= uids[r]
      BY <1>0, <1>1
    <2>2. UidsInv'
      BY <1>0, <1>1, <2>1 DEF UidsInv
    <2>3. QED
      BY <1>1, <2>2, SeenWhenUnchanged DEF Unheard
  (* A RemoteRoute is written: what is stale stays so. *)
  <1>2. ASSUME NEW s \in RRs, NEW rr, rrs' = [rrs EXCEPT ![s] = rr],
               UNCHANGED <<caches, owned, queue, worker>>,
               \/ rr.uid = rrs[s].uid /\ rr.status = rrs[s].status /\ UNCHANGED uids
               \/ rr = NoRemoteRoute /\ UNCHANGED uids
               \/ uids' = [uids EXCEPT ![s] = uids[s] + 1] /\ rr.uid = uids[s] + 1
        PROVE  /\ UNCHANGED worker /\ queue \subseteq queue' /\ UidsInv'
               /\ \A r \in RRs : Unheard(r)
    <2>1. \A r \in RRs : rrs'[r] = IF r = s THEN rr ELSE rrs[r]
      BY <1>0, <1>2
    <2>2. \A r \in RRs : uids'[r] \in Nat /\ uids'[r] >= uids[r]
      BY <1>0, <1>2
    <2>3. rr.uid <= uids'[s]
      BY <1>0, <1>2 DEF UidsInv, NoRemoteRoute
    <2>4. UidsInv'
      BY <1>0, <1>2, <2>1, <2>2, <2>3 DEF UidsInv
    <2>5. ASSUME NEW r \in RRs, Stale(r), Exists(cacheRRs[r])
          PROVE  Stale(r)'
      <3>1. CASE r # s
        BY <1>2, <2>1, <2>5, <3>1 DEF Stale
      <3>2. CASE rr.uid = rrs[s].uid /\ rr.status = rrs[s].status
        BY <1>2, <2>1, <2>5, <3>2 DEF Stale
      <3>3. CASE r = s /\ rr = NoRemoteRoute
        <4>1. NoRemoteRoute.uid # cacheRRs[r].uid
          BY <2>5 DEF Exists, NoRemoteRoute
        <4>2. QED
          BY <1>2, <2>1, <3>3, <4>1 DEF Stale
      <3>4. CASE r = s /\ rr.uid = uids[s] + 1
        <4>1. cacheRRs[r].uid <= uids[s]
          BY <3>4 DEF UidsInv
        <4>2. rr.uid # cacheRRs[r].uid
          BY <1>0, <3>4, <4>1
        <4>3. QED
          BY <1>2, <2>1, <3>4, <4>2 DEF Stale
      <3>5. QED
        BY <1>2, <3>1, <3>2, <3>3, <3>4
    <2>6. QED
      BY <1>2, <2>4, <2>5 DEF Unheard, Seen
  <1>3. ASSUME NEW s \in RRs, NEW c \in CRs, NEW ups \in UpstreamLists, CreateRR(s, c, ups)
        PROVE  /\ UNCHANGED worker /\ queue \subseteq queue' /\ UidsInv'
               /\ \A r \in RRs : Unheard(r)
    <2> DEFINE rr == [NoRemoteRoute EXCEPT !.uid = uids'[s], !.ref = c, !.upstreams = ups]
    <2>1. rr.uid = uids'[s]
      BY DEF NoRemoteRoute
    <2>2. rrs' = [rrs EXCEPT ![s] = rr] /\ uids' = [uids EXCEPT ![s] = uids[s] + 1]
      BY <1>3 DEF CreateRR
    <2>3. uids'[s] = uids[s] + 1
      BY <1>0, <2>2
    <2> HIDE DEF rr
    <2>4. QED
      BY <1>2, <1>3, <2>1, <2>2, <2>3 DEF CreateRR
  <1>4. ASSUME NEW s \in RRs, NEW c \in CRs, NEW ups \in UpstreamLists, EditRR(s, c, ups)
        PROVE  /\ UNCHANGED worker /\ queue \subseteq queue' /\ UidsInv'
               /\ \A r \in RRs : Unheard(r)
    <2> DEFINE rr == [rrs[s] EXCEPT !.ref = c, !.upstreams = ups]
    <2>1. rr.uid = rrs[s].uid /\ rr.status = rrs[s].status
      BY <1>0 DEF RemoteRoute
    <2>2. rrs' = [rrs EXCEPT ![s] = rr]
      BY <1>0, <1>4 DEF EditRR
    <2> HIDE DEF rr
    <2>3. QED
      BY <1>2, <1>4, <2>1, <2>2 DEF EditRR
  <1>5. ASSUME NEW s \in RRs, DeleteRR(s) \/ CollectRR(s)
        PROVE  /\ UNCHANGED worker /\ queue \subseteq queue' /\ UidsInv'
               /\ \A r \in RRs : Unheard(r)
    BY <1>2, <1>5 DEF DeleteRR, CollectRR
  <1>6. CASE \/ \E c \in CRs, sel \in Selectors : CreateCR(c, sel) \/ EditCR(c, sel)
             \/ \E c \in CRs : DeleteCR(c)
             \/ \E h \in Hosts : FlipHost(h)
    BY <1>1, <1>6 DEF CreateCR, EditCR, DeleteCR, FlipHost
  (* Owned objects vanish, Pods come and go. *)
  <1>7. ASSUME NEW s \in RRs, DropOwned(s) \/ Collect(s)
        PROVE  /\ UNCHANGED worker /\ queue \subseteq queue' /\ UidsInv'
               /\ \A r \in RRs : Unheard(r)
    <2>1. UNCHANGED <<rrs, caches, worker, uids>>
      BY <1>7 DEF DropOwned, Collect
    <2>2. \/ SetConfigMap(s, NoConfigMap) \/ SetService(s, NoService)
          \/ SetDeployment(s, NoDeployment) \/ CollectServices(s)
      BY <1>7 DEF DropOwned, Collect
    <2>3. UidsInv'
      BY <2>1 DEF UidsInv
    <2>4. \A r \in RRs : Unheard(r) /\ queue \subseteq queue'
      BY <2>1, <2>2, WriteIsHeard
    <2>5. QED
      BY <2>1, <2>3, <2>4
  <1>8. ASSUME NEW s \in RRs, RollOut(s) \/ Disrupt(s) \/ Poll(s)
        PROVE  /\ UNCHANGED worker /\ queue \subseteq queue' /\ UidsInv'
               /\ \A r \in RRs : Unheard(r)
    <2>1. /\ UNCHANGED <<rrs, caches, configMaps, services, adminServices, deployments, worker, uids>>
          /\ queue \subseteq queue'
      BY <1>8 DEF RollOut, Disrupt, Poll
    <2>2. \A r \in RRs : Seen(r)
      BY <2>1, SeenWhenUnchanged
    <2>3. UidsInv'
      BY <2>1 DEF UidsInv
    <2>4. QED
      BY <2>1, <2>2, <2>3 DEF Unheard
  (* Informers. *)
  <1>9. ASSUME NEW s \in RRs, DeliverRR(s) \/ DeliverAvailable(s)
        PROVE  /\ UNCHANGED worker /\ queue \subseteq queue' /\ UidsInv'
               /\ \A r \in RRs : Unheard(r)
    <2>1. /\ UNCHANGED <<rrs, cacheCRs, configMaps, services, adminServices, deployments, worker, uids>>
          /\ queue' = queue \cup {s}
          /\ \A r \in RRs : cacheRRs'[r] = cacheRRs[r] \/ (r = s /\ cacheRRs'[r] = rrs[r])
          /\ \A r \in RRs : r = s \/ (cacheRRs'[r] = cacheRRs[r] /\ cacheAvailable'[r] = cacheAvailable[r])
      BY <1>0, <1>9 DEF DeliverRR, DeliverAvailable, TypeInv, TypeOK
    <2>2. UidsInv'
      BY <2>1 DEF UidsInv
    <2>3. QED
      BY <2>1, <2>2 DEF Unheard, Seen, Stale
  <1>10. ASSUME NEW c \in CRs, DeliverCR(c)
         PROVE  /\ UNCHANGED worker /\ queue \subseteq queue' /\ UidsInv'
                /\ \A r \in RRs : Unheard(r)
    <2>1. /\ UNCHANGED <<rrs, cacheRRs, cacheAvailable, configMaps, services, adminServices,
                         deployments, worker, uids>>
          /\ queue' = queue \cup MapCRToRRs(c)
          /\ \A d \in CRs : d # c => cacheCRs'[d] = cacheCRs[d]
      BY <1>0, <1>10 DEF DeliverCR
    <2>2. ASSUME NEW r \in RRs, Exists(cacheRRs[r]), r \notin queue'
          PROVE  cacheCRs'[cacheRRs[r].ref] = cacheCRs[cacheRRs[r].ref]
      BY <1>0, <2>1, <2>2 DEF MapCRToRRs
    <2>3. UidsInv'
      BY <2>1 DEF UidsInv
    <2>4. QED
      BY <2>1, <2>2, <2>3 DEF Unheard, Seen, Stale
  <1>11. ASSUME NEW c \in CRs, DeliverCRStatus(c)
         PROVE  /\ UNCHANGED worker /\ queue \subseteq queue' /\ UidsInv'
                /\ \A r \in RRs : Unheard(r)
    <2>1. /\ UNCHANGED <<rrs, caches, configMaps, services, adminServices, deployments, worker, uids>>
          /\ queue \subseteq queue'
      BY <1>11 DEF DeliverCRStatus
    <2>2. \A r \in RRs : Seen(r)
      BY <2>1, SeenWhenUnchanged
    <2>3. UidsInv'
      BY <2>1 DEF UidsInv
    <2>4. QED
      BY <2>1, <2>2, <2>3 DEF Unheard
  <1>12. QED
    BY <1>3, <1>4, <1>5, <1>6, <1>7, <1>8, <1>9, <1>10, <1>11 DEF Environment

(* A reconciled RemoteRoute stays so while the controller's view of it is as it was. *)
LEMMA SeenStays ==
    ASSUME NEW r \in RRs, Exists(cacheRRs[r]), Seen(r), Stale(r) \/ Reconciled(r)
    PROVE  Stale(r)' \/ Reconciled(r)'
  BY DEF Seen, Reconciled, Applied

LEMMA EnvironmentQuiet == TypeInv /\ QuietInv /\ Environment => QuietInv'
  <1> SUFFICES ASSUME TypeInv, QuietInv, Environment PROVE QuietInv'
    OBVIOUS
  <1>1. /\ UNCHANGED worker /\ queue \subseteq queue' /\ UidsInv'
        /\ \A r \in RRs : Unheard(r)
    BY EnvironmentIsHeard DEF QuietInv
  <1>2. pc # "idle" => job \in RRs /\ Exists(snap)
    BY DEF TypeInv, TypeOK
  <1>3. DoneInv'
    <2> SUFFICES ASSUME NEW r \in RRs, r \notin queue', ~Busy(r)', Exists(cacheRRs'[r])
                 PROVE  Stale(r)' \/ Reconciled(r)'
      BY DEF DoneInv
    <2>1. Seen(r) /\ r \notin queue /\ ~Busy(r)
      BY <1>1 DEF Unheard, Busy, worker
    <2>2. Exists(cacheRRs[r])
      BY <2>1 DEF Seen
    <2>3. QED
      BY <2>1, <2>2, SeenStays DEF QuietInv, DoneInv
  <1>4. StageInv'
    BY <1>1 DEF worker, QuietInv, StageInv
  <1>5. CurrentInv'
    <2>1. CASE pc = "idle" \/ job \in queue'
      BY <1>1, <2>1 DEF worker, CurrentInv
    <2>2. CASE pc # "idle" /\ job \notin queue'
      <3>1. Seen(job) /\ job \notin queue
        BY <1>1, <1>2, <2>2 DEF Unheard
      <3>2. snap = cacheRRs[job]
        BY <2>2, <3>1 DEF QuietInv, CurrentInv
      <3>3. QED
        BY <1>1, <1>2, <2>2, <3>1, <3>2 DEF worker, Seen, QuietInv, CurrentInv
    <2>3. QED
      BY <2>1, <2>2
  <1>6. QED
    BY <1>1, <1>3, <1>4, <1>5 DEF QuietInv

(* The worker returns and will come back for what it had. *)
LEMMA RetryQuiet ==
    ASSUME TypeInv, QuietInv, pc # "idle", Retry,
           \A r \in RRs : r # job => rrs'[r] = rrs[r],
           UNCHANGED <<caches, owned>>, \A r \in RRs : rrs'[r].uid = rrs[r].uid, UNCHANGED uids
    PROVE  QuietInv'
  <1> USE DEF caches, owned
  <1>1. pc' = "idle" /\ queue' = queue \cup {job}
    BY DEF Retry, Rest
  <1>2. DoneInv'
    <2> SUFFICES ASSUME NEW r \in RRs, r \notin queue', Exists(cacheRRs'[r])
                 PROVE  Stale(r)' \/ Reconciled(r)'
      BY DEF DoneInv
    <2>1. r # job /\ r \notin queue /\ ~Busy(r) /\ Seen(r) /\ Exists(cacheRRs[r])
      BY <1>1 DEF Busy, Seen, Stale
    <2>2. QED
      BY <2>1, SeenStays DEF QuietInv, DoneInv
  <1>3. UidsInv'
    BY DEF QuietInv, UidsInv
  <1>4. QED
    BY <1>1, <1>2, <1>3 DEF QuietInv, StageInv, CurrentInv

LEMMA TakeQuiet ==
    ASSUME TypeInv, QuietInv, NEW r \in RRs, TakeRequest(r)
    PROVE  QuietInv'
  <1> USE DEF caches, owned, bounds
  <1> DEFINE rr == cacheRRs[r]
             cr == cacheCRs[rr.ref]
  <1>1. /\ queue' = queue \ {r} /\ pc = "idle"
        /\ UNCHANGED <<rrs, caches, owned, uids>>
    BY DEF TakeRequest
  <1>2. UidsInv'
    BY <1>1 DEF QuietInv, UidsInv
  <1>3. ASSUME NEW s \in RRs, s # r, s \notin queue', Exists(cacheRRs'[s])
        PROVE  Stale(s)' \/ Reconciled(s)'
    <2>1. s \notin queue /\ ~Busy(s) /\ Seen(s) /\ Exists(cacheRRs[s])
      BY <1>1, <1>3, SeenWhenUnchanged DEF Busy
    <2>2. QED
      BY <2>1, SeenStays DEF QuietInv, DoneInv
  <1>4. CASE ~Exists(rr)
    <2>1. pc' = "idle"
      BY <1>4 DEF TakeRequest, Rest
    <2>2. DoneInv'
      BY <1>1, <1>3, <1>4 DEF DoneInv
    <2>3. QED
      BY <1>2, <2>1, <2>2 DEF QuietInv, StageInv, CurrentInv
  <1>5. CASE Exists(rr)
    <2>1. job' = r /\ snap' = rr /\ parent' = cr
      BY <1>5 DEF TakeRequest
    <2>2. \/ /\ pc' = "reject" /\ ~Exists(cr)
             /\ draft' = [rr.status EXCEPT !.reason = "ContextRouteNotFound"]
          \/ pc' = "own"
          \/ /\ pc' = "reject" /\ Exists(cr) /\ OwnerRef(rr, cr) \in rr.owners
             /\ SpecError(rr, cr) # "none"
             /\ draft' = [rr.status EXCEPT !.reason = SpecError(rr, cr)]
          \/ /\ pc' = "configmap" /\ Exists(cr) /\ OwnerRef(rr, cr) \in rr.owners
             /\ SpecError(rr, cr) = "none"
      BY <1>5 DEF TakeRequest
    <2>3. rr.status \in Status
      BY DEF TypeInv, TypeOK, RemoteRoute
    <2>4. \A reason : [rr.status EXCEPT !.reason = reason].reason = reason
      BY <2>3 DEF Status
    <2>5. DoneInv'
      BY <1>3, <2>1, <2>2 DEF DoneInv, Busy
    <2>6. CurrentInv'
      BY <1>1, <2>1, <2>2 DEF CurrentInv
    <2> HIDE DEF rr, cr
    <2>7. StageInv'
      BY <2>1, <2>2, <2>4 DEF StageInv, OwnsIt, Reason
    <2>8. QED
      BY <1>2, <2>5, <2>6, <2>7 DEF QuietInv
  <1>6. QED
    BY <1>4, <1>5

(* An apply: what it writes is there, or its event brings the RemoteRoute back. *)
LEMMA ApplyQuiet ==
    ASSUME TypeInv, QuietInv,
           ApplyConfigMap \/ ApplyService \/ ApplyAdminService \/ ApplyDeployment
    PROVE  QuietInv'
  <1>0. /\ pc \in {"configmap", "service", "admin", "deployment"} /\ job \in RRs
        /\ UNCHANGED <<rrs, caches, job, snap, parent, uids>>
    BY DEF ApplyConfigMap, ApplyService, ApplyAdminService, ApplyDeployment, Goto, bounds,
           TypeInv, TypeOK
  <1>1. \A r \in RRs : Unheard(r) /\ queue \subseteq queue'
    <2>1. \/ \E cm : SetConfigMap(job, cm)
          \/ \E svc : SetService(job, svc)
          \/ \E uid : SetAdminService(job, uid)
          \/ \E d : SetDeployment(job, d)
      BY DEF ApplyConfigMap, ApplyService, ApplyAdminService, ApplyDeployment
    <2>2. QED
      BY <1>0, <2>1, WriteIsHeard
  <1>2. pc' \in {"service", "admin", "deployment", "observe"}
    BY DEF ApplyConfigMap, ApplyService, ApplyAdminService, ApplyDeployment, Goto
  <1>3. DoneInv'
    <2> SUFFICES ASSUME NEW r \in RRs, r \notin queue', ~Busy(r)', Exists(cacheRRs'[r])
                 PROVE  Stale(r)' \/ Reconciled(r)'
      BY DEF DoneInv
    <2>1. Seen(r) /\ r \notin queue /\ ~Busy(r)
      BY <1>0, <1>1, <1>2 DEF Unheard, Busy
    <2>2. Exists(cacheRRs[r])
      BY <2>1 DEF Seen
    <2>3. QED
      BY <2>1, <2>2, SeenStays DEF QuietInv, DoneInv
  <1>4. UidsInv'
    BY <1>0 DEF caches, QuietInv, UidsInv
  <1>5. StageInv'
    BY <1>0, <1>2 DEF QuietInv, StageInv
  <1>6. CurrentInv'
    <2> SUFFICES ASSUME job \notin queue' PROVE CurrentInv'
      BY <1>0 DEF CurrentInv
    <2>1. Seen(job) /\ job \notin queue /\ Exists(snap) /\ snap = cacheRRs[job]
      BY <1>0, <1>1 DEF Unheard, QuietInv, CurrentInv, TypeInv, TypeOK
    <2>2. /\ cacheRRs'[job] = snap /\ cacheCRs'[snap.ref] = parent
          /\ configMaps'[job] = configMaps[job] /\ services'[job] = services[job]
          /\ adminServices'[job] = adminServices[job] /\ deployments'[job] = deployments[job]
      BY <1>0, <2>1 DEF Seen, QuietInv, CurrentInv
    <2>3. /\ configMaps \in [RRs -> ConfigMap] /\ services \in [RRs -> Service]
          /\ adminServices \in [RRs -> Nat] /\ deployments \in [RRs -> Deployment]
      BY DEF TypeInv, TypeOK
    <2>4. CASE ApplyConfigMap
      <3>1. pc = "configmap" /\ pc' = "service" /\ configMaps'[job] = ConfigMapOf(snap)
        BY <1>0, <2>3, <2>4 DEF ApplyConfigMap, Goto, SetConfigMap, ConfigMapOf
      <3>2. QED
        BY <1>0, <2>2, <3>1 DEF CurrentInv
    <2>5. CASE ApplyService
      <3>1. pc = "service" /\ pc' = "admin" /\ services'[job] = ServiceOf(job, snap, parent)
        BY <1>0, <2>3, <2>5 DEF ApplyService, Goto, SetService, ServiceOf
      <3>2. QED
        BY <1>0, <2>1, <2>2, <3>1 DEF QuietInv, CurrentInv
    <2>6. CASE ApplyAdminService
      <3>1. pc = "admin" /\ pc' = "deployment" /\ adminServices'[job] = snap.uid
        BY <1>0, <2>3, <2>6 DEF ApplyAdminService, Goto, SetAdminService
      <3>2. QED
        BY <1>0, <2>1, <2>2, <3>1 DEF QuietInv, CurrentInv
    <2>7. CASE ApplyDeployment
      <3>1. pc = "deployment" /\ pc' = "observe" /\ deployments'[job] = DeploymentOf(snap)
        BY <1>0, <2>3, <2>7 DEF ApplyDeployment, Goto, SetDeployment, DeploymentOf
      <3>2. QED
        BY <1>0, <2>1, <2>2, <3>1 DEF QuietInv, CurrentInv
    <2>8. QED
      BY <2>4, <2>5, <2>6, <2>7
  <1>7. QED
    BY <1>3, <1>4, <1>5, <1>6 DEF QuietInv

(* The observation of the proxy: its reason follows from the availability as it is cached. *)
LEMMA ObserveQuiet ==
    ASSUME TypeInv, QuietInv, ObserveNoProxy \/ Scrape \/ ScrapeFails
    PROVE  QuietInv'
  <1> USE DEF caches, owned
  <1>0. /\ pc = "observe" /\ pc' = "report"
        /\ UNCHANGED <<rrs, caches, owned, queue, job, snap, parent, uids>>
    BY DEF ObserveNoProxy, Scrape, ScrapeFails, Goto, bounds, Move
  <1>1. draft'.reason = IF cacheAvailable[job] THEN "Reconciled" ELSE "ProxyNotReady"
    BY DEF ObserveNoProxy, Scrape, ScrapeFails, Report
  <1>2. DoneInv'
    BY <1>0 DEF QuietInv, DoneInv, Busy, Stale, Reconciled, Applied
  <1>3. UidsInv'
    BY <1>0 DEF QuietInv, UidsInv
  <1>4. StageInv'
    BY <1>0 DEF QuietInv, StageInv
  <1>5. CurrentInv'
    BY <1>0, <1>1 DEF QuietInv, CurrentInv
  <1>6. QED
    BY <1>2, <1>3, <1>4, <1>5 DEF QuietInv

(* The write of the status: it goes onto what was read, and either changes nothing or is yet
   to be seen. *)
LEMMA UpdateQuiet == ASSUME TypeInv, QuietInv, UpdateStatus PROVE QuietInv'
  <1> USE DEF caches, owned, bounds
  <1>0. /\ pc \in {"reject", "report"} /\ job \in RRs /\ Exists(snap) /\ snap \in RemoteRoute
        /\ rrs \in [RRs -> RemoteRoute] /\ draft \in Status
        /\ UNCHANGED <<caches, owned, uids>>
    BY DEF UpdateStatus, TypeInv, TypeOK
  <1>1. CASE rrs[job] # snap
    BY <1>0, <1>1, RetryQuiet DEF UpdateStatus
  <1>2. CASE rrs[job] = snap
    <2>0. PICK written \in Status : /\ rrs' = [rrs EXCEPT ![job].status = written]
                                   /\ SameButTime(written, draft)
      BY <1>2, StatusWritten DEF TypeInv
    <2>1. pc' = "idle" /\ UNCHANGED queue
      BY <1>2 DEF UpdateStatus, Rest
    <2>2. /\ \A r \in RRs \ {job} : rrs'[r] = rrs[r]
          /\ rrs'[job].status = written /\ rrs'[job].uid = snap.uid
      BY <1>0, <1>2, <2>0 DEF RemoteRoute
    <2>3. UidsInv'
      BY <1>0, <1>2, <2>2 DEF QuietInv, UidsInv
    <2>4. ASSUME NEW r \in RRs, r = job, r \notin queue
          PROVE  Stale(r)' \/ Reconciled(r)'
      <3>1. snap = cacheRRs[r] /\ parent = cacheCRs[snap.ref]
        BY <1>0, <2>4 DEF QuietInv, CurrentInv
      <3>2. CASE written # snap.status
        BY <1>0, <2>2, <2>4, <3>1, <3>2 DEF Stale
      <3>3. CASE written = snap.status
        <4>1. OwnsIt(snap, parent)
          BY <1>0 DEF QuietInv, StageInv
        <4>2. draft.reason = Reason(snap, parent, cacheAvailable[r])
          BY <1>0, <2>4 DEF QuietInv, StageInv, CurrentInv, Reason
        <4>3. Exists(parent) /\ SpecError(snap, parent) = "none" => Applied(r, snap, parent)
          BY <1>0, <2>4 DEF QuietInv, StageInv, CurrentInv, Applied
        <4>4. Reconciled(r)
          BY <2>0, <3>1, <3>3, <4>1, <4>2, <4>3 DEF Reconciled, SameButTime
        <4>5. QED
          BY <1>0, <4>4 DEF Reconciled, Applied
      <3>4. QED
        BY <3>2, <3>3
    <2>5. DoneInv'
      <3> SUFFICES ASSUME NEW r \in RRs, r \notin queue, Exists(cacheRRs[r])
                   PROVE  Stale(r)' \/ Reconciled(r)'
        BY <1>0, <2>1 DEF DoneInv
      <3>1. CASE r # job
        <4>1. Seen(r) /\ ~Busy(r)
          BY <1>0, <2>2, <3>1 DEF Seen, Stale, Busy
        <4>2. QED
          BY <4>1, SeenStays DEF QuietInv, DoneInv
      <3>2. QED
        BY <2>4, <3>1
    <2>6. QED
      BY <2>1, <2>3, <2>5 DEF QuietInv, StageInv, CurrentInv
  <1>3. QED
    BY <1>1, <1>2

LEMMA InstallQuiet == ASSUME TypeInv, QuietInv, InstallOwner PROVE QuietInv'
  <1>1. job \in RRs /\ rrs \in [RRs -> RemoteRoute]
    BY DEF InstallOwner, TypeInv, TypeOK
  <1>2. \A r \in RRs : r # job => rrs'[r] = rrs[r]
    BY <1>1 DEF InstallOwner
  <1>3. rrs'[job].uid = rrs[job].uid
    BY <1>1 DEF InstallOwner, RemoteRoute
  <1>4. QED
    BY <1>2, <1>3, RetryQuiet DEF InstallOwner, bounds

(* A new manager asks for everything there is. *)
LEMMA RestartQuiet == ASSUME TypeInv, QuietInv, Restart PROVE QuietInv'
  <1>1. /\ pc' = "idle" /\ cacheRRs' = rrs /\ queue' = {r \in RRs : Exists(rrs[r])}
        /\ UNCHANGED <<rrs, uids>>
    BY DEF Restart, Rest
  <1>2. DoneInv'
    BY <1>1 DEF DoneInv
  <1>3. UidsInv'
    BY <1>1 DEF QuietInv, UidsInv
  <1>4. QED
    BY <1>1, <1>2, <1>3 DEF QuietInv, StageInv, CurrentInv

LEMMA InitQuiet == Init => QuietInv
  <1> SUFFICES ASSUME Init PROVE QuietInv
    OBVIOUS
  <1>1. \A r \in RRs : rrs[r].uid = 0 /\ ~Exists(cacheRRs[r]) /\ cacheRRs[r].uid = 0 /\ uids[r] = 0
    BY DEF Init, Exists, NoRemoteRoute
  <1>2. pc = "idle"
    BY DEF Init
  <1>3. QED
    BY <1>1, <1>2 DEF QuietInv, DoneInv, UidsInv, StageInv, CurrentInv

LEMMA NextQuiet == TypeInv /\ QuietInv /\ [Next]_vars => QuietInv'
  <1> SUFFICES ASSUME TypeInv, QuietInv, [Next]_vars PROVE QuietInv'
    OBVIOUS
  <1>1. CASE Environment
    BY <1>1, EnvironmentQuiet
  <1>2. CASE \E r \in RRs : TakeRequest(r)
    BY <1>2, TakeQuiet
  <1>3. CASE Step
    BY <1>3, InstallQuiet, ApplyQuiet, ObserveQuiet, UpdateQuiet DEF Step
  <1>4. CASE WriteFails
    BY <1>4, RetryQuiet DEF WriteFails
  <1>5. CASE Restart
    BY <1>5, RestartQuiet
  <1>6. CASE UNCHANGED vars
    BY <1>6 DEF vars, owned, caches, worker, bounds, QuietInv, DoneInv, UidsInv, StageInv,
       CurrentInv, Busy, Stale, Reconciled, Applied
  <1>7. QED
    BY <1>1, <1>2, <1>3, <1>4, <1>5, <1>6 DEF Next, Environment

(* What the worker has seen last, it has reconciled, unless it is to come again. *)
THEOREM RemoteQuiet == Spec => [](TypeInv /\ QuietInv)
  BY InitTypeInv, NextTypeInv, InitQuiet, NextQuiet, PTL DEF Spec

LEMMA SettledIsReconciled ==
    ASSUME QuietInv, Settled, NEW r \in RRs, Exists(rrs[r])
    PROVE  LET rr == rrs[r]
               cr == crs[rr.ref]
           IN  /\ OwnsIt(rr, cr)
               /\ rr.status.reason = Reason(rr, cr, pods[r].up)
               /\ Exists(cr) /\ SpecError(rr, cr) = "none" => Applied(r, rr, cr)
  <1>1. ~Stale(r) /\ ~Busy(r)
    BY DEF Settled, Stale, Busy
  <1>2. Reconciled(r)
    BY <1>1 DEF Settled, QuietInv, DoneInv
  <1>3. QED
    BY <1>2 DEF Settled, Reconciled

(* Whatever edits, deletions, failed writes and restarts came in between: once nothing is
   under way, the Service of the proxy carries the labels its ContextRoute selects by now. *)
THEOREM RemoteProxyIsVariant == Spec => []ProxyIsVariant
  <1>1. QuietInv => ProxyIsVariant
    <2> SUFFICES ASSUME QuietInv, Settled, NEW r \in RRs, Servable(r)
                 PROVE  /\ services[r].owner = rrs[r].uid
                        /\ \A l \in crs[rrs[r].ref].selector.match :
                              l[1] # NameKey => l \in services[r].labels
      BY DEF ProxyIsVariant
    <2>1. services[r] = ServiceOf(r, rrs[r], crs[rrs[r].ref])
      BY SettledIsReconciled DEF Servable, Attached, Applied
    <2>2. QED
      BY <2>1 DEF ServiceOf, RRServiceLabels
  <1>2. QED
    BY <1>1, RemoteQuiet, PTL

(* ... the configuration of the present upstreams is installed and stamped on the Pods'
   template ... *)
THEOREM RemoteProxyIsConfigured == Spec => []ProxyIsConfigured
  <1>1. QuietInv => ProxyIsConfigured
    <2> SUFFICES ASSUME QuietInv, Settled, NEW r \in RRs, Servable(r)
                 PROVE  LET conf == RenderEnvoyConfig(rrs[r].upstreams) IN
                        /\ configMaps[r] = [owner |-> rrs[r].uid, conf |-> conf]
                        /\ deployments[r] = [owner |-> rrs[r].uid, checksum |-> conf]
                        /\ adminServices[r] = rrs[r].uid
      BY DEF ProxyIsConfigured
    <2>1. Applied(r, rrs[r], crs[rrs[r].ref])
      BY SettledIsReconciled DEF Servable, Attached
    <2>2. QED
      BY <2>1 DEF Applied, ConfigMapOf, DeploymentOf
  <1>2. QED
    BY <1>1, RemoteQuiet, PTL

(* ... and the Ready condition gives the present reason. *)
THEOREM RemoteReasonIsCurrent == Spec => []ReasonIsCurrent
  <1>1. QuietInv => ReasonIsCurrent
    BY SettledIsReconciled DEF ReasonIsCurrent, Reason
  <1>2. QED
    BY <1>1, RemoteQuiet, PTL
=============================================================================
