------------------------- MODULE RoutingIndexProofs -------------------------
(***************************************************************************)
(* Theorems about RoutingIndex, for any set of objects, any number of      *)
(* concurrent rebuilds, changes and restarts: what the API shows goes      *)
(* forward only, kind by kind, which is RoutingView.                       *)
(***************************************************************************)
EXTENDS RoutingIndex, LeastNumbers, TLAPS

-----------------------------------------------------------------------------
(* Owners. *)

(* A claimed routing key has an owner: the oldest ContextRoute, then the first by name. *)
LEMMA OwnerExists ==
    ASSUME NEW crs \in [CRs -> ContextRoute \cup {NoCR}], NEW c \in CRs, crs[c] # NoCR
    PROVE  \E d \in CRs : Owns(crs, d) /\ crs[d].key = crs[c].key
  <1> DEFINE claimants == {d \in CRs : crs[d] # NoCR /\ crs[d].key = crs[c].key}
             ages      == {crs[d].created : d \in claimants}
  <1>1. \A d \in claimants : crs[d] \in ContextRoute
    OBVIOUS
  <1>2. ages \in SUBSET Nat /\ ages # {}
    BY <1>1, OrderAssumption DEF ContextRoute
  <1>3. PICK t \in ages : \A u \in ages : t <= u
    BY <1>2, LeastNumber
  <1> DEFINE oldest == {d \in claimants : crs[d].created = t}
  <1>4. oldest \in SUBSET Nat /\ oldest # {}
    BY OrderAssumption
  <1>5. PICK d \in oldest : \A e \in oldest : d <= e
    <2> HIDE DEF oldest
    <2> QED BY <1>4, LeastNumber
  <1>6. \A e \in claimants : t <= crs[e].created /\ crs[e].created \in Nat
    BY <1>2, <1>3
  <1>7. ASSUME NEW e \in claimants
        PROVE  crs[d].created < crs[e].created \/ (crs[d].created = crs[e].created /\ d <= e)
    BY <1>2, <1>5, <1>6
  <1>8. QED
    BY <1>5, <1>7 DEF Owns

(* The owners are ContextRoutes, one for each key. *)
LEMMA OwnersType ==
    ASSUME NEW crs \in [CRs -> ContextRoute \cup {NoCR}]
    PROVE  Owners(crs) \in UNION {[K -> ContextRoute] : K \in SUBSET Keys}
  <1> DEFINE K == {crs[c].key : c \in {c \in CRs : crs[c] # NoCR}}
             o(k) == CHOOSE c \in CRs : Owns(crs, c) /\ crs[c].key = k
  <1>1. K \in SUBSET Keys
    BY DEF ContextRoute
  <1>2. ASSUME NEW k \in K
        PROVE  crs[o(k)] \in ContextRoute
    <2>1. \E d \in CRs : Owns(crs, d) /\ crs[d].key = k
      BY OwnerExists
    <2>2. o(k) \in CRs /\ Owns(crs, o(k))
      BY <2>1
    <2>3. QED
      BY <2>2 DEF Owns
  <1>3. Owners(crs) \in [K -> ContextRoute]
    BY <1>2 DEF Owners
  <1>4. QED
    BY <1>1, <1>3

-----------------------------------------------------------------------------
(* Type correctness. *)

Parts == UNION {[K -> SUBSET (Variants \cup {Self})] : K \in SUBSET Keys}
Held  == UNION {[K -> ContextRoute] : K \in SUBSET Keys}

LEMMA NoDraftType == NoDraft \in Draft /\ DOMAIN NoDraft.alts = {} /\ DOMAIN NoDraft.owners = {}
  <1>1. <<>> \in [{} -> ContextRoute] /\ <<>> \in [{} -> SUBSET (Variants \cup {Self})]
    OBVIOUS
  <1>2. <<>> \in Held /\ <<>> \in Parts
    BY <1>1 DEF Held, Parts
  <1>3. QED
    BY <1>2 DEF NoDraft, Draft, Held, Parts, Reachability

(* One more key in the map of alternatives. *)
LEMMA AltsGrow ==
    ASSUME NEW alts \in Parts, NEW k \in Keys, NEW a \in SUBSET (Variants \cup {Self}),
           NEW more, more = [j \in DOMAIN alts \cup {k} |-> IF j = k THEN a ELSE alts[j]]
    PROVE  more \in Parts /\ DOMAIN more = DOMAIN alts \cup {k} /\ more # <<>>
  <1>1. PICK K \in SUBSET Keys : alts \in [K -> SUBSET (Variants \cup {Self})]
    BY DEF Parts
  <1>2. more \in [K \cup {k} -> SUBSET (Variants \cup {Self})]
    BY <1>1
  <1>3. DOMAIN <<>> = {}
    OBVIOUS
  <1>4. QED
    BY <1>1, <1>2, <1>3 DEF Parts

(* buildAltEntry finds Services that may be variants. *)
LEMMA AlternativesType ==
    ASSUME NEW svcs, NEW cr
    PROVE  Alternatives(svcs, cr) \in SUBSET (Variants \cup {Self})
  BY DEF Alternatives

(* Every entry a rebuild makes is one. *)
LEMMA EntriesType ==
    ASSUME NEW owners \in Held, NEW alts \in Parts, DOMAIN alts = DOMAIN owners,
           NEW ets \in [Targets -> Cookies \cup {NoCookie}], NEW rrs \in [Variants -> Reachability]
    PROVE  Entries(owners, alts, ets, rrs) \in SUBSET TupleEntry
  <1>1. ASSUME NEW k \in DOMAIN owners, NEW a \in alts[k]
        PROVE  [service |-> owners[k].target, alternative |-> a, key |-> k,
                cookie |-> ets[owners[k].target],
                remote |-> IF a = Self THEN "none" ELSE rrs[a]] \in TupleEntry
    <2>1. k \in Keys /\ owners[k].target \in Targets /\ a \in Variants \cup {Self}
      BY DEF Held, Parts, ContextRoute
    <2>2. "none" \in Reachability
      BY DEF Reachability
    <2>3. QED
      BY <2>1, <2>2 DEF TupleEntry
  <1>2. QED
    BY <1>1 DEF Entries

(* The map of alternatives is filled in the last stage of a rebuild only. *)
AltsLast == \A g \in Goroutine : pc[g] # "svc" => draft[g].alts = <<>>

(* draft.owners is a map of ContextRoutes, draft.alts one of alternatives. *)
LEMMA DraftFields ==
    ASSUME NEW d
    PROVE  d \in Draft <=> d \in [owners : Held, et : [Targets -> Cookies \cup {NoCookie}],
                                   rr : [Variants -> Reachability], alts : Parts,
                                   revs : [Kinds -> Nat]]
  BY DEF Draft, Held, Parts

LEMMA InitTypeInv == Init => TypeOK /\ AltsLast
  <1>1. \A g \in Goroutine : NoDraft \in Draft /\ NoDraft.alts = <<>> /\ DOMAIN NoDraft.alts = {}
    BY NoDraftType DEF NoDraft
  <1>2. EmptySnapshot \in Snapshot
    BY DEF EmptySnapshot, Snapshot
  <1>3. ASSUME Init
        PROVE  /\ draft \in [Goroutine -> Draft]
               /\ \A g \in Goroutine : draft[g].alts = <<>> /\ DOMAIN draft[g].alts \subseteq DOMAIN draft[g].owners
    BY <1>1, <1>3 DEF Init
  <1>4. ASSUME Init
        PROVE  moves \in 0..MaxMoves /\ revs \in [Kinds -> Nat]
    BY <1>4, BoundsAssumption DEF Init
  <1>5. QED
    BY <1>2, <1>3, <1>4 DEF Init, TypeOK, AltsLast

(* A change of the cluster keeps the types if the objects of the kind keep theirs. *)
LEMMA ChangeTypeInv ==
    ASSUME TypeOK, AltsLast, NEW kind \in Kinds, NEW objs, Change(kind, objs),
           [store EXCEPT ![kind] = objs] \in Objects
    PROVE  TypeOK' /\ AltsLast'
  <1>1. moves' \in 0..MaxMoves
    BY BoundsAssumption DEF Change, Move, TypeOK
  <1>2. QED
    BY <1>1 DEF Change, TypeOK, AltsLast, caches, builds

LEMMA UserTypeInv ==
    ASSUME TypeOK, AltsLast,
           \/ \E c \in CRs : \/ \E spec \in CRSpecs, time \in Times : SetContextRoute(c, spec, time)
                             \/ DeleteContextRoute(c)
           \/ \E s \in Targets, cookie \in Cookies \cup {NoCookie} : SetEdgeTransformation(s, cookie)
           \/ \E s \in Variants : \/ \E reachable \in Reachability : SetRemoteRoute(s, reachable)
                                  \/ \E label \in Labels \cup {NoLabel} : SetService(s, label)
    PROVE  TypeOK' /\ AltsLast'
  <1>0. store \in Objects
    BY DEF TypeOK
  <1>1. ASSUME NEW c \in CRs, NEW spec \in CRSpecs, NEW time \in Times, SetContextRoute(c, spec, time)
        PROVE  TypeOK' /\ AltsLast'
    <2> DEFINE cr == [key |-> spec.key, target |-> spec.target, selector |-> spec.selector,
                      created |-> time]
    <2>1. cr \in ContextRoute
      BY BoundsAssumption DEF ContextRoute
    <2>2. [store EXCEPT !["cr"] = [store.cr EXCEPT ![c] = cr]] \in Objects
      BY <1>0, <2>1 DEF Objects
    <2>3. QED
      BY <1>1, <2>2, ChangeTypeInv DEF SetContextRoute, Kinds
  <1>2. ASSUME NEW c \in CRs, DeleteContextRoute(c)
        PROVE  TypeOK' /\ AltsLast'
    <2>1. [store EXCEPT !["cr"] = [store.cr EXCEPT ![c] = NoCR]] \in Objects
      BY <1>0 DEF Objects
    <2>2. QED
      BY <1>2, <2>1, ChangeTypeInv DEF DeleteContextRoute, Kinds
  <1>3. ASSUME NEW s \in Targets, NEW cookie \in Cookies \cup {NoCookie},
               SetEdgeTransformation(s, cookie)
        PROVE  TypeOK' /\ AltsLast'
    <2>1. [store EXCEPT !["et"] = [store.et EXCEPT ![s] = cookie]] \in Objects
      BY <1>0 DEF Objects
    <2>2. QED
      BY <1>3, <2>1, ChangeTypeInv DEF SetEdgeTransformation, Kinds
  <1>4. ASSUME NEW s \in Variants, NEW reachable \in Reachability, SetRemoteRoute(s, reachable)
        PROVE  TypeOK' /\ AltsLast'
    <2>1. [store EXCEPT !["rr"] = [store.rr EXCEPT ![s] = reachable]] \in Objects
      BY <1>0 DEF Objects
    <2>2. QED
      BY <1>4, <2>1, ChangeTypeInv DEF SetRemoteRoute, Kinds
  <1>5. ASSUME NEW s \in Variants, NEW label \in Labels \cup {NoLabel}, SetService(s, label)
        PROVE  TypeOK' /\ AltsLast'
    <2>1. [store EXCEPT !["svc"] = [store.svc EXCEPT ![s] = label]] \in Objects
      BY <1>0 DEF Objects
    <2>2. QED
      BY <1>5, <2>1, ChangeTypeInv DEF SetService, Kinds
  <1>6. QED
    BY <1>1, <1>2, <1>3, <1>4, <1>5

(* The stages of a rebuild fill in one field after the other. *)
LEMMA RebuildTypeInv ==
    ASSUME TypeOK, AltsLast, NEW g \in Goroutine, Rebuild(g)
    PROVE  TypeOK' /\ AltsLast'
  <1> USE DEF cluster, caches, Goto
  <1>0. /\ draft \in [Goroutine -> Draft] /\ pc[g] \in {"idle", "lock", "cr", "et", "rr", "svc"}
        /\ draft[g] \in [owners : Held, et : [Targets -> Cookies \cup {NoCookie}],
                          rr : [Variants -> Reachability], alts : Parts, revs : [Kinds -> Nat]]
        /\ \A kind \in Kinds : Read(g, kind) \in [Kinds -> Nat]
    BY DraftFields DEF TypeOK, Read
  <1>1. CASE Lock(g)
    BY <1>1 DEF Lock, TypeOK, AltsLast
  <1>2. CASE ListContextRoutes(g)
    <2>1. Owners(cache.cr) \in Held /\ Read(g, "cr") \in [Kinds -> Nat]
      BY <1>0, OwnersType DEF TypeOK, Objects, Held, Kinds
    <2>2. draft'[g] = [draft[g] EXCEPT !.owners = Owners(cache.cr), !.revs = Read(g, "cr")]
      BY <1>0, <1>2 DEF ListContextRoutes
    <2>3. draft'[g] \in Draft
      BY <1>0, <2>1, <2>2, DraftFields
    <2>4. draft' \in [Goroutine -> Draft] /\ \A h \in Goroutine \ {g} : draft'[h] = draft[h]
      BY <1>0, <1>2, <2>3 DEF ListContextRoutes
    <2>5. draft'[g].alts = <<>> /\ DOMAIN draft'[g].alts = {}
      BY <1>0, <1>2, <2>2 DEF ListContextRoutes, AltsLast
    <2>6. QED
      BY <1>2, <2>4, <2>5 DEF ListContextRoutes, TypeOK, AltsLast
  <1>3. CASE ListEdgeTransformations(g)
    <2>1. cache.et \in [Targets -> Cookies \cup {NoCookie}] /\ Read(g, "et") \in [Kinds -> Nat]
      BY <1>0 DEF TypeOK, Objects, Kinds
    <2>2. draft'[g] = [draft[g] EXCEPT !.et = cache.et, !.revs = Read(g, "et")]
      BY <1>0, <1>3 DEF ListEdgeTransformations
    <2>3. draft'[g] \in Draft
      BY <1>0, <2>1, <2>2, DraftFields
    <2>4. draft' \in [Goroutine -> Draft] /\ \A h \in Goroutine \ {g} : draft'[h] = draft[h]
      BY <1>0, <1>3, <2>3 DEF ListEdgeTransformations
    <2>5. draft'[g].alts = draft[g].alts /\ draft'[g].owners = draft[g].owners
      BY <1>0, <2>2
    <2>6. QED
      BY <1>3, <2>4, <2>5 DEF ListEdgeTransformations, TypeOK, AltsLast
  <1>4. CASE ListRemoteRoutes(g)
    <2>1. cache.rr \in [Variants -> Reachability] /\ Read(g, "rr") \in [Kinds -> Nat]
      BY <1>0 DEF TypeOK, Objects, Kinds
    <2>2. draft'[g] = [draft[g] EXCEPT !.rr = cache.rr, !.revs = Read(g, "rr")]
      BY <1>0, <1>4 DEF ListRemoteRoutes
    <2>3. draft'[g] \in Draft
      BY <1>0, <2>1, <2>2, DraftFields
    <2>4. draft' \in [Goroutine -> Draft] /\ \A h \in Goroutine \ {g} : draft'[h] = draft[h]
      BY <1>0, <1>4, <2>3 DEF ListRemoteRoutes
    <2>5. draft'[g].alts = draft[g].alts /\ draft'[g].owners = draft[g].owners
      BY <1>0, <2>2
    <2>6. QED
      BY <1>4, <2>4, <2>5 DEF ListRemoteRoutes, TypeOK, AltsLast
  <1>5. ASSUME NEW k \in Keys, ListServices(g, k)
        PROVE  TypeOK' /\ AltsLast'
    <2> DEFINE more == [j \in DOMAIN draft[g].alts \cup {k} |->
                          IF j = k THEN Alternatives(cache.svc, draft[g].owners[k])
                          ELSE draft[g].alts[j]]
               seen == IF draft[g].alts = <<>> THEN Read(g, "svc") ELSE draft[g].revs
    <2>1. more \in Parts /\ DOMAIN more = DOMAIN draft[g].alts \cup {k}
      <3> DEFINE a    == Alternatives(cache.svc, draft[g].owners[k])
                 alts == draft[g].alts
      <3>1. a \in SUBSET (Variants \cup {Self})
        BY AlternativesType
      <3>2. alts \in Parts
        BY <1>0
      <3>3. more = [j \in DOMAIN alts \cup {k} |-> IF j = k THEN a ELSE alts[j]]
        OBVIOUS
      <3> HIDE DEF a, alts, more
      <3>4. more \in Parts /\ DOMAIN more = DOMAIN alts \cup {k}
        BY <3>1, <3>2, <3>3, AltsGrow
      <3>5. QED
        BY <3>4 DEF alts
    <2>2. seen \in [Kinds -> Nat]
      BY <1>0 DEF Kinds
    <2>3. draft'[g] = [draft[g] EXCEPT !.alts = more, !.revs = seen]
      BY <1>0, <1>5 DEF ListServices
    <2> HIDE DEF more, seen
    <2>4. draft'[g] \in Draft
      BY <1>0, <2>1, <2>2, <2>3, DraftFields
    <2>5. draft' \in [Goroutine -> Draft] /\ \A h \in Goroutine \ {g} : draft'[h] = draft[h]
      BY <1>0, <1>5, <2>4 DEF ListServices
    <2>6. DOMAIN draft'[g].alts \subseteq DOMAIN draft'[g].owners
      <3>1. DOMAIN draft[g].alts \subseteq DOMAIN draft[g].owners /\ k \in DOMAIN draft[g].owners
        BY <1>5 DEF ListServices, TypeOK
      <3>2. draft'[g].alts = more /\ draft'[g].owners = draft[g].owners
        BY <1>0, <2>3
      <3>3. QED
        BY <2>1, <3>1, <3>2
    <2>7. pc[g] = "svc" /\ UNCHANGED <<store, revs, cache, cacheRevs, timer, serving, lock, pc, snap, moves>>
      BY <1>5 DEF ListServices
    <2>8. QED
      BY <2>5, <2>6, <2>7 DEF TypeOK, AltsLast
  <1>6. CASE Publish(g)
    <2>1. Entries(draft[g].owners, draft[g].alts, draft[g].et, draft[g].rr) \in SUBSET TupleEntry
      BY <1>0, <1>6, EntriesType DEF Publish
    <2>2. (IF draft[g].alts = <<>> THEN Read(g, "svc") ELSE draft[g].revs) \in [Kinds -> Nat]
      BY <1>0 DEF Kinds
    <2>3. snap' \in Snapshot
      BY <1>6, <2>1, <2>2 DEF Publish, Snapshot
    <2>4. /\ draft' \in [Goroutine -> Draft]
          /\ \A h \in Goroutine : draft'[h] = (IF h = g THEN NoDraft ELSE draft[h])
      BY <1>0, <1>6, NoDraftType DEF Publish
    <2>5. NoDraft.alts = <<>> /\ DOMAIN NoDraft.alts \subseteq DOMAIN NoDraft.owners
      BY NoDraftType DEF NoDraft
    <2>6. serving' \in BOOLEAN
      BY <1>6 DEF Publish, TypeOK
    <2>7. QED
      BY <1>6, <2>3, <2>4, <2>5, <2>6 DEF Publish, TypeOK, AltsLast
  <1>7. QED
    BY <1>1, <1>2, <1>3, <1>4, <1>5, <1>6 DEF Rebuild

LEMMA NextTypeInv == TypeOK /\ AltsLast /\ [Next]_vars => TypeOK' /\ AltsLast'
  <1> SUFFICES ASSUME TypeOK, AltsLast, [Next]_vars PROVE TypeOK' /\ AltsLast'
    OBVIOUS
  <1>1. ASSUME NEW kind \in Kinds, Deliver(kind)
        PROVE  TypeOK' /\ AltsLast'
    <2>1. cache' \in Objects
      BY <1>1 DEF Deliver, TypeOK, Objects, Kinds
    <2>2. QED
      BY <1>1, <2>1 DEF Deliver, TypeOK, AltsLast, cluster, builds
  <1>2. ASSUME NEW g \in Goroutine, Fire(g)
        PROVE  TypeOK' /\ AltsLast'
    BY <1>2 DEF Fire, TypeOK, AltsLast, cluster, caches
  <1>3. CASE Restart
    <2>1. EmptySnapshot \in Snapshot /\ moves' \in 0..MaxMoves
      BY <1>3, BoundsAssumption DEF EmptySnapshot, Snapshot, Restart, Move, TypeOK
    <2>2. NoDraft \in Draft /\ NoDraft.alts = <<>> /\ DOMAIN NoDraft.alts \subseteq DOMAIN NoDraft.owners
      BY NoDraftType DEF NoDraft
    <2>3. QED
      BY <1>3, <2>1, <2>2 DEF Restart, Fresh, TypeOK, AltsLast, cluster
  <1>4. CASE UNCHANGED vars
    BY <1>4 DEF vars, cluster, caches, builds, TypeOK, AltsLast
  <1>5. QED
    BY <1>1, <1>2, <1>3, <1>4, UserTypeInv, RebuildTypeInv DEF Next

(* The index keeps its types: the owners of the keys exist, alternatives are only made for
   keys that have one, and every published entry is well-formed. *)
THEOREM IndexTypeCorrect == Spec => []TypeOK
  <1>1. TypeOK /\ AltsLast /\ [Next]_vars => (TypeOK /\ AltsLast)'
    BY NextTypeInv
  <1>2. QED
    BY <1>1, InitTypeInv, PTL DEF Spec

-----------------------------------------------------------------------------
(* Refinement of RoutingView. *)

(* The kinds the rebuild on g has looked at. *)
Seen(g) == {k \in Kinds : \/ k = "cr"  /\ pc[g] \in {"et", "rr", "svc"}
                          \/ k = "et"  /\ pc[g] \in {"rr", "svc"}
                          \/ k = "rr"  /\ pc[g] = "svc"
                          \/ k = "svc" /\ pc[g] = "svc" /\ draft[g].alts # <<>>}

(* What is shown is no newer than the cache, which is no newer than the cluster. *)
Behind == \A k \in Kinds : snap.revs[k] <= cacheRevs[k] /\ cacheRevs[k] <= revs[k]

(* Only the holder of rebuildMu is between Lock and Publish. *)
Exclusive == \A g \in Goroutine : pc[g] \in {"cr", "et", "rr", "svc"} => lock = g

(* What a rebuild has listed is no older than the snapshot: nobody publishes meanwhile. *)
Between == \A g \in Goroutine : \A k \in Seen(g) :
               snap.revs[k] <= draft[g].revs[k] /\ draft[g].revs[k] <= cacheRevs[k]

Ordered == Behind /\ Exclusive /\ Between

TypeInv == TypeOK /\ AltsLast

LEMMA InitOrdered == Init => Ordered
  <1> SUFFICES ASSUME Init PROVE Ordered
    OBVIOUS
  <1>1. Behind
    BY DEF Init, EmptySnapshot, Behind
  <1>2. \A g \in Goroutine : pc[g] \in {"idle", "lock"}
    BY DEF Init
  <1>3. QED
    BY <1>1, <1>2 DEF Ordered, Exclusive, Between, Seen

(* Steps that leave rebuilds and the snapshot alone only move the cluster and the caches
   forward. *)
LEMMA ForwardOrdered ==
    ASSUME TypeInv, Ordered, TypeInv', UNCHANGED <<lock, pc, draft, snap>>,
           \A k \in Kinds : cacheRevs[k] <= cacheRevs'[k] /\ cacheRevs'[k] <= revs'[k]
    PROVE  Ordered'
  <1>1. /\ revs \in [Kinds -> Nat] /\ cacheRevs \in [Kinds -> Nat] /\ revs' \in [Kinds -> Nat]
        /\ cacheRevs' \in [Kinds -> Nat] /\ snap.revs \in [Kinds -> Nat]
        /\ \A g \in Goroutine : draft[g].revs \in [Kinds -> Nat]
    BY DEF TypeInv, TypeOK, Snapshot, Draft
  <1>2. Behind'
    BY <1>1 DEF Ordered, Behind
  <1>3. Exclusive' /\ \A g : Seen(g)' = Seen(g)
    BY DEF Ordered, Exclusive, Seen
  <1>4. Between'
    <2> SUFFICES ASSUME NEW g \in Goroutine, NEW k \in Seen(g)
                 PROVE  snap.revs[k] <= draft[g].revs[k] /\ draft[g].revs[k] <= cacheRevs'[k]
      BY <1>3 DEF Between
    <2>1. k \in Kinds
      BY DEF Seen
    <2>2. QED
      BY <1>1, <2>1 DEF Ordered, Between
  <1>5. QED
    BY <1>2, <1>3, <1>4 DEF Ordered

(* A stage that lists one kind: the cache is between what is shown and the cluster. *)
LEMMA ListOrdered ==
    ASSUME TypeInv, Ordered, TypeInv', NEW g \in Goroutine, NEW kind \in Kinds,
           UNCHANGED <<revs, cacheRevs, lock, snap>>,
           pc[g] \in {"cr", "et", "rr", "svc"},
           \A h \in Goroutine \ {g} : pc'[h] = pc[h] /\ draft'[h] = draft[h],
           draft'[g].revs = Read(g, kind), Seen(g)' = Seen(g) \cup {kind}
    PROVE  Ordered'
  <1>1. /\ revs \in [Kinds -> Nat] /\ cacheRevs \in [Kinds -> Nat] /\ snap.revs \in [Kinds -> Nat]
        /\ \A h \in Goroutine : draft[h].revs \in [Kinds -> Nat]
    BY DEF TypeInv, TypeOK, Snapshot, Draft
  <1>2. Behind'
    BY DEF Ordered, Behind
  <1>3. Exclusive'
    BY DEF Ordered, Exclusive
  <1>4. Between'
    <2> SUFFICES ASSUME NEW h \in Goroutine, NEW k \in Seen(h)'
                 PROVE  snap.revs[k] <= draft'[h].revs[k] /\ draft'[h].revs[k] <= cacheRevs[k]
      BY DEF Between
    <2>1. CASE h # g
      <3>1. k \in Seen(h) /\ draft'[h] = draft[h]
        BY <2>1 DEF Seen
      <3>2. QED
        BY <3>1 DEF Ordered, Between
    <2>2. CASE h = g /\ k = kind
      <3>1. draft'[h].revs[k] = cacheRevs[k]
        BY <1>1, <2>2 DEF Read
      <3>2. QED
        BY <1>1, <2>2, <3>1 DEF Ordered, Behind
    <2>3. CASE h = g /\ k # kind
      <3>1. k \in Seen(g) /\ draft'[g].revs[k] = draft[g].revs[k]
        BY <1>1, <2>3 DEF Read, Seen
      <3>2. QED
        BY <2>3, <3>1 DEF Ordered, Between
    <2>4. QED
      BY <2>1, <2>2, <2>3
  <1>5. QED
    BY <1>2, <1>3, <1>4 DEF Ordered

(* The published revisions: at the end every kind has been looked at, and without an owner
   the Services are those of the moment. *)
LEMMA PublishedBetween ==
    ASSUME TypeInv, Ordered, NEW g \in Goroutine, Publish(g)
    PROVE  /\ snap'.revs \in [Kinds -> Nat]
           /\ \A k \in Kinds : snap.revs[k] <= snap'.revs[k] /\ snap'.revs[k] <= cacheRevs[k]
  <1> DEFINE shown == IF draft[g].alts = <<>> THEN Read(g, "svc") ELSE draft[g].revs
  <1>1. /\ cacheRevs \in [Kinds -> Nat] /\ snap.revs \in [Kinds -> Nat]
        /\ draft[g].revs \in [Kinds -> Nat]
    BY DEF TypeInv, TypeOK, Snapshot, Draft
  <1>2. pc[g] = "svc" /\ snap'.revs = shown
    BY DEF Publish
  <1>3. \A k \in {"cr", "et", "rr"} : k \in Seen(g) /\ shown[k] = draft[g].revs[k]
    BY <1>1, <1>2 DEF Seen, Kinds, Read
  <1>4. \/ "svc" \in Seen(g) /\ shown["svc"] = draft[g].revs["svc"]
        \/ shown["svc"] = cacheRevs["svc"]
    BY <1>1, <1>2 DEF Seen, Kinds, Read
  <1>5. \A k \in Kinds : snap.revs[k] <= cacheRevs[k] /\ cacheRevs[k] \in Nat
    BY <1>1 DEF Ordered, Behind
  <1>6. \A k \in Seen(g) : snap.revs[k] <= draft[g].revs[k] /\ draft[g].revs[k] <= cacheRevs[k]
    BY DEF Ordered, Between
  <1>7. shown \in [Kinds -> Nat]
    BY <1>1 DEF Read, Kinds
  <1> HIDE DEF shown
  <1>8. \A k \in Kinds : snap.revs[k] <= shown[k] /\ shown[k] <= cacheRevs[k]
    BY <1>3, <1>4, <1>5, <1>6 DEF Kinds
  <1>9. QED
    BY <1>2, <1>7, <1>8

LEMMA RebuildOrdered ==
    ASSUME TypeInv, Ordered, TypeInv', NEW g \in Goroutine, Rebuild(g)
    PROVE  Ordered'
  <1> USE DEF cluster, caches, Goto
  <1>0. pc \in [Goroutine -> {"idle", "lock", "cr", "et", "rr", "svc"}] /\ draft \in [Goroutine -> Draft]
    BY DEF TypeInv, TypeOK
  <1>1. CASE Lock(g)
    <2>1. \A h \in Goroutine \ {g} : pc'[h] = pc[h] /\ pc[h] \in {"idle", "lock"}
      BY <1>0, <1>1, BoundsAssumption DEF Lock, Ordered, Exclusive, Goroutine
    <2>2. pc'[g] = "cr" /\ lock' = g
      BY <1>0, <1>1 DEF Lock
    <2>3. \A h \in Goroutine : Seen(h)' = {}
      BY <2>1, <2>2 DEF Seen
    <2>4. QED
      BY <1>1, <2>1, <2>2, <2>3 DEF Lock, Ordered, Behind, Exclusive, Between
  <1>2. CASE ListContextRoutes(g)
    <2>1. draft'[g].revs = Read(g, "cr") /\ Seen(g)' = Seen(g) \cup {"cr"}
      BY <1>0, <1>2 DEF ListContextRoutes, Seen, Kinds, Draft
    <2>2. QED
      BY <1>0, <1>2, <2>1, ListOrdered DEF ListContextRoutes, Kinds
  <1>3. CASE ListEdgeTransformations(g)
    <2>1. draft'[g].revs = Read(g, "et") /\ Seen(g)' = Seen(g) \cup {"et"}
      BY <1>0, <1>3 DEF ListEdgeTransformations, Seen, Kinds, Draft
    <2>2. QED
      BY <1>0, <1>3, <2>1, ListOrdered DEF ListEdgeTransformations, Kinds
  <1>4. CASE ListRemoteRoutes(g)
    <2>1. draft'[g].revs = Read(g, "rr") /\ draft'[g].alts = <<>>
      BY <1>0, <1>4 DEF ListRemoteRoutes, TypeInv, AltsLast, Draft
    <2>2. Seen(g)' = Seen(g) \cup {"rr"}
      BY <1>0, <1>4, <2>1 DEF ListRemoteRoutes, Seen, Kinds
    <2>3. QED
      BY <1>0, <1>4, <2>1, <2>2, ListOrdered DEF ListRemoteRoutes, Kinds
  <1>5. ASSUME NEW k \in Keys, ListServices(g, k)
        PROVE  Ordered'
    <2>1. /\ pc[g] = "svc" /\ UNCHANGED <<revs, cacheRevs, lock, pc, snap>>
          /\ \A h \in Goroutine \ {g} : draft'[h] = draft[h]
      BY <1>0, <1>5 DEF ListServices
    <2>2. draft'[g].alts # <<>>
      <3>1. k \in DOMAIN draft'[g].alts
        BY <1>0, <1>5 DEF ListServices, Draft
      <3>2. QED
        BY <3>1
    <2>3. CASE draft[g].alts = <<>>
      <3>1. draft'[g].revs = Read(g, "svc") /\ Seen(g)' = Seen(g) \cup {"svc"}
        BY <1>0, <1>5, <2>1, <2>2, <2>3 DEF ListServices, Seen, Kinds, Draft
      <3>2. QED
        BY <2>1, <3>1, ListOrdered DEF Kinds
    <2>4. CASE draft[g].alts # <<>>
      <3>1. draft'[g].revs = draft[g].revs
        BY <1>0, <1>5, <2>4 DEF ListServices, Draft
      <3>2. \A h \in Goroutine : Seen(h)' = Seen(h) /\ draft'[h].revs = draft[h].revs
        BY <2>1, <2>2, <2>4, <3>1 DEF Seen
      <3>3. QED
        BY <2>1, <3>2 DEF Ordered, Behind, Exclusive, Between
    <2>5. QED
      BY <2>3, <2>4
  <1>6. CASE Publish(g)
    <2>1. \A h \in Goroutine \ {g} : pc'[h] = pc[h] /\ pc[h] \in {"idle", "lock"}
      BY <1>0, <1>6 DEF Publish, Ordered, Exclusive
    <2>2. pc'[g] = "idle"
      BY <1>0, <1>6 DEF Publish
    <2>3. \A h \in Goroutine : pc'[h] \in {"idle", "lock"} /\ Seen(h)' = {}
      BY <2>1, <2>2 DEF Seen
    <2>4. Behind'
      BY <1>6, PublishedBetween DEF Publish, Ordered, Behind
    <2>5. QED
      BY <2>3, <2>4 DEF Ordered, Exclusive, Between
  <1>7. QED
    BY <1>1, <1>2, <1>3, <1>4, <1>5, <1>6 DEF Rebuild

(* A change of the cluster by a user or another controller. *)
Changes == \E kind \in Kinds : \E objs : Change(kind, objs)

LEMMA NextCases ==
    ASSUME Next
    PROVE  \/ Changes
           \/ \E k \in Kinds : Deliver(k)
           \/ \E g \in Goroutine : Fire(g) \/ Rebuild(g)
           \/ Restart
  BY DEF Next, Changes, Kinds, SetContextRoute, DeleteContextRoute, SetEdgeTransformation,
         SetRemoteRoute, SetService

LEMMA NextOrdered == TypeInv /\ Ordered /\ [Next]_vars => Ordered'
  <1> SUFFICES ASSUME TypeInv, Ordered, [Next]_vars PROVE Ordered'
    OBVIOUS
  <1>0. TypeInv'
    BY NextTypeInv DEF TypeInv
  <1>1. /\ revs \in [Kinds -> Nat] /\ cacheRevs \in [Kinds -> Nat]
        /\ \A k \in Kinds : cacheRevs[k] <= revs[k]
    BY DEF TypeInv, TypeOK, Ordered, Behind
  <1>2. CASE Changes
    BY <1>0, <1>1, <1>2, ForwardOrdered DEF Changes, Change, caches, builds
  <1>3. ASSUME NEW k \in Kinds, Deliver(k)
        PROVE  Ordered'
    BY <1>0, <1>1, <1>3, ForwardOrdered DEF Deliver, cluster, builds
  <1>4. ASSUME NEW g \in Goroutine, Fire(g)
        PROVE  Ordered'
    <2>1. pc'[g] = "lock" /\ \A h \in Goroutine \ {g} : pc'[h] = pc[h]
      BY <1>4 DEF Fire, TypeInv, TypeOK
    <2>2. \A h \in Goroutine : Seen(h)' = Seen(h)
      BY <1>4, <2>1 DEF Fire, Seen
    <2>3. QED
      BY <1>4, <2>1, <2>2 DEF Fire, Ordered, Behind, Exclusive, Between, cluster, caches
  <1>5. CASE Restart
    <2>1. \A g \in Goroutine : pc'[g] \in {"idle", "lock"} /\ Seen(g)' = {}
      BY <1>5 DEF Restart, Fresh, Seen
    <2>2. Behind'
      BY <1>1, <1>5 DEF Restart, Fresh, Behind, cluster, EmptySnapshot
    <2>3. QED
      BY <2>1, <2>2 DEF Ordered, Exclusive, Between
  <1>6. CASE UNCHANGED vars
    BY <1>6 DEF vars, cluster, caches, builds, Ordered, Behind, Exclusive, Between, Seen
  <1>7. QED
    BY <1>0, <1>2, <1>3, <1>4, <1>5, <1>6, NextCases, RebuildOrdered

(* A step of the index is a step of the view or shows nothing new. *)
LEMMA StepRefinesView ==
    ASSUME TypeInv, Ordered, [Next]_vars
    PROVE  [View!Next]_(View!vars)
  <1> USE DEF View!vars
  <1>1. CASE Changes
    BY <1>1 DEF Changes, Change, View!Next, View!Change
  <1>2. ASSUME NEW g \in Goroutine, Publish(g)
        PROVE  View!Publish
    <2>1. revs \in [Kinds -> Nat] /\ cacheRevs \in [Kinds -> Nat] /\ UNCHANGED revs
      BY <1>2 DEF TypeInv, TypeOK, Publish, cluster
    <2>2. \A k \in Kinds : snap'.revs[k] \in Nat /\ cacheRevs[k] <= revs[k]
      BY <1>2, PublishedBetween DEF Ordered, Behind
    <2>3. QED
      BY <1>2, <2>1, <2>2, PublishedBetween DEF View!Publish
  <1>3. ASSUME NEW g \in Goroutine, Rebuild(g), ~Publish(g)
        PROVE  UNCHANGED <<revs, snap>>
    BY <1>3 DEF Rebuild, Lock, ListContextRoutes, ListEdgeTransformations, ListRemoteRoutes,
                ListServices, cluster
  <1>4. CASE Restart
    BY <1>4 DEF Restart, Fresh, cluster, EmptySnapshot, View!Next, View!Restart
  <1>5. CASE UNCHANGED vars
    BY <1>5 DEF vars, cluster
  <1>6. ASSUME NEW k \in Kinds, Deliver(k)
        PROVE  UNCHANGED <<revs, snap>>
    BY <1>6 DEF Deliver, cluster
  <1>7. ASSUME NEW g \in Goroutine, Fire(g)
        PROVE  UNCHANGED <<revs, snap>>
    BY <1>7 DEF Fire, cluster
  <1>8. QED
    BY <1>1, <1>2, <1>3, <1>4, <1>5, <1>6, <1>7, NextCases DEF View!Next

LEMMA InitRefinesView == Init => View!Init
  BY DEF Init, EmptySnapshot, View!Init

(* Of each kind the API only ever shows states the cluster has been in, in the order in which
   it was in them, except when a new process starts from nothing: rebuildMu keeps a rebuild
   that listed earlier from publishing after one that listed later. *)
THEOREM IndexRefinesView == Spec => NeverGoesBack
  <1>1. Init => TypeInv /\ Ordered
    BY InitTypeInv, InitOrdered DEF TypeInv
  <1>2. TypeInv /\ Ordered /\ [Next]_vars => TypeInv' /\ Ordered'
    BY NextTypeInv, NextOrdered DEF TypeInv
  <1>3. TypeInv /\ Ordered /\ [Next]_vars => [View!Next]_(View!vars)
    BY StepRefinesView
  <1>4. QED
    BY <1>1, <1>2, <1>3, InitRefinesView, PTL DEF Spec, NeverGoesBack, View!Spec

-----------------------------------------------------------------------------
(* No change is lost. *)

AltsOf(svcs, owners) == [k \in DOMAIN owners |-> Alternatives(svcs, owners[k])]

(* What a rebuild makes of these objects if none of them changes while it lists. *)
Ideal(objs) == Entries(Owners(objs.cr), AltsOf(objs.svc, Owners(objs.cr)), objs.et, objs.rr)

(* All that the rebuild on g has listed is still so. *)
Agrees(g) ==
    /\ pc[g] \in {"cr", "et", "rr", "svc"}
    /\ pc[g] \in {"et", "rr", "svc"} => draft[g].owners = Owners(cache.cr)
    /\ pc[g] \in {"rr", "svc"} => draft[g].et = cache.et
    /\ pc[g] = "svc" =>
          /\ draft[g].rr = cache.rr
          /\ \A k \in DOMAIN draft[g].alts :
                draft[g].alts[k] = Alternatives(cache.svc, draft[g].owners[k])

Quiet == \A g \in Goroutine : pc[g] \in {"idle", "lock"}

(* The caches are in the snapshot or will be: a timer runs, a rebuild waits for the mutex,
   or one is under way that has missed nothing. *)
Upcoming ==
    \/ timer
    \/ \E g \in Goroutine : pc[g] = "lock"
    \/ \E g \in Goroutine : Agrees(g)
    \/ Quiet /\ snap.entries = Ideal(cache)

(* A cache that has seen the last change holds the objects as they are. *)
Delivered == \A k \in Kinds : cacheRevs[k] = revs[k] => cache[k] = store[k]

(* Of the claimants of a key one is the owner. *)
LEMMA OwnerUnique ==
    ASSUME NEW crs \in [CRs -> ContextRoute \cup {NoCR}], NEW c \in CRs, NEW d \in CRs,
           Owns(crs, c), Owns(crs, d), crs[c].key = crs[d].key
    PROVE  c = d
  <1>1. crs[c] \in ContextRoute /\ crs[d] \in ContextRoute
    BY DEF Owns
  <1>2. /\ crs[c].created \in Nat /\ crs[d].created \in Nat /\ c \in Nat /\ d \in Nat
    BY <1>1, OrderAssumption DEF ContextRoute
  <1>3. QED
    BY <1>2 DEF Owns

LEMMA OwnersValue ==
    ASSUME NEW crs \in [CRs -> ContextRoute \cup {NoCR}], NEW c \in CRs, Owns(crs, c)
    PROVE  crs[c].key \in DOMAIN Owners(crs) /\ Owners(crs)[crs[c].key] = crs[c]
  <1> DEFINE d == CHOOSE d \in CRs : Owns(crs, d) /\ crs[d].key = crs[c].key
  <1>1. d \in CRs /\ Owns(crs, d) /\ crs[d].key = crs[c].key
    OBVIOUS
  <1>2. d = c
    <2> HIDE DEF d
    <2> QED BY <1>1, OwnerUnique
  <1>3. QED
    BY <1>2 DEF Owners, Owns

LEMMA OwnersSource ==
    ASSUME NEW crs \in [CRs -> ContextRoute \cup {NoCR}], NEW k \in DOMAIN Owners(crs)
    PROVE  \E c \in CRs : Owns(crs, c) /\ crs[c].key = k /\ Owners(crs)[k] = crs[c]
  <1>1. PICK b \in CRs : crs[b] # NoCR /\ crs[b].key = k
    BY DEF Owners
  <1>2. PICK c \in CRs : Owns(crs, c) /\ crs[c].key = k
    BY <1>1, OwnerExists
  <1>3. QED
    BY <1>2, OwnersValue

(* A rebuild that misses nothing makes what the API should say. *)
LEMMA IdealIsCurrent ==
    ASSUME store \in Objects
    PROVE  Ideal(store) = Current
  <1> DEFINE owners == Owners(store.cr)
             alts   == AltsOf(store.svc, owners)
  <1>0. /\ store.cr \in [CRs -> ContextRoute \cup {NoCR}] /\ store.et \in [Targets -> Cookies \cup {NoCookie}]
        /\ store.rr \in [Variants -> Reachability]
    BY DEF Objects
  <1>1. Ideal(store) \subseteq TupleEntry
    <2>1. owners \in Held
      BY <1>0, OwnersType DEF Held
    <2>2. alts \in Parts /\ DOMAIN alts = DOMAIN owners
      BY <2>1, AlternativesType DEF AltsOf, Held, Parts
    <2> HIDE DEF owners, alts
    <2>3. Entries(owners, alts, store.et, store.rr) \in SUBSET TupleEntry
      BY <1>0, <2>1, <2>2, EntriesType
    <2>4. QED
      BY <2>3 DEF Ideal, owners, alts
  <1>2. ASSUME NEW e \in Ideal(store)
        PROVE  e \in Current
    <2>1. PICK k \in DOMAIN owners : \E a \in Alternatives(store.svc, owners[k]) :
              e = [service |-> owners[k].target, alternative |-> a, key |-> k,
                   cookie |-> store.et[owners[k].target],
                   remote |-> IF a = Self THEN "none" ELSE store.rr[a]]
      BY <1>2 DEF Ideal, Entries, AltsOf
    <2>2. PICK a \in Alternatives(store.svc, owners[k]) :
              e = [service |-> owners[k].target, alternative |-> a, key |-> k,
                   cookie |-> store.et[owners[k].target],
                   remote |-> IF a = Self THEN "none" ELSE store.rr[a]]
      BY <2>1
    <2>3. PICK c \in CRs : Owns(store.cr, c) /\ store.cr[c].key = k /\ owners[k] = store.cr[c]
      BY <1>0, OwnersSource
    <2>4. \/ a = Self
          \/ a # Self /\ a # store.cr[c].target /\ store.svc[a] = store.cr[c].selector
      BY <2>2, <2>3, BoundsAssumption DEF Alternatives
    <2>5. e \in TupleEntry
      BY <1>1, <1>2
    <2>6. QED
      BY <2>2, <2>3, <2>4, <2>5 DEF Current
  <1>3. ASSUME NEW e \in Current
        PROVE  e \in Ideal(store)
    <2>1. PICK c \in CRs :
              LET cr == store.cr[c] IN
              /\ Owns(store.cr, c) /\ e.key = cr.key /\ e.service = cr.target
              /\ e.cookie = store.et[cr.target]
              /\ \/ e.alternative = Self /\ e.remote = "none"
                 \/ /\ e.alternative # cr.target /\ e.alternative # Self
                    /\ store.svc[e.alternative] = cr.selector
                    /\ e.remote = store.rr[e.alternative]
      BY <1>3 DEF Current
    <2>2. e.key \in DOMAIN owners /\ owners[e.key] = store.cr[c]
      BY <1>0, <2>1, OwnersValue
    <2>3. e \in TupleEntry
      BY <1>3 DEF Current
    <2>4. e.alternative \in Alternatives(store.svc, owners[e.key])
      BY <2>1, <2>2, <2>3 DEF Alternatives, TupleEntry
    <2>5. e = [service |-> owners[e.key].target, alternative |-> e.alternative, key |-> e.key,
               cookie |-> store.et[owners[e.key].target],
               remote |-> IF e.alternative = Self THEN "none" ELSE store.rr[e.alternative]]
      BY <2>1, <2>2, <2>3 DEF TupleEntry
    <2>6. QED
      BY <2>2, <2>4, <2>5 DEF Ideal, Entries, AltsOf
  <1>4. QED
    BY <1>2, <1>3

LEMMA InitUpcoming == Init => Upcoming /\ Delivered
  BY DEF Init, Upcoming, Delivered

(* A stage keeps what Upcoming says: who waits goes on, who agrees goes on agreeing, and
   nobody else is under way. *)
LEMMA RebuildUpcoming ==
    ASSUME TypeInv, Ordered, Upcoming, NEW g \in Goroutine, Rebuild(g)
    PROVE  Upcoming'
  <1> USE DEF cluster, caches, Goto
  <1>0. pc \in [Goroutine -> {"idle", "lock", "cr", "et", "rr", "svc"}] /\ draft \in [Goroutine -> Draft]
    BY DEF TypeInv, TypeOK
  <1>a. UNCHANGED <<timer, cache>>
    BY DEF Rebuild, Lock, ListContextRoutes, ListEdgeTransformations, ListRemoteRoutes,
           ListServices, Publish
  <1>1. CASE Lock(g)
    <2>1. Agrees(g)'
      BY <1>0, <1>1 DEF Lock, Agrees
    <2>2. QED
      BY <2>1 DEF Upcoming
  <1>b. CASE ~Lock(g)
    <2>0. \A h \in Goroutine \ {g} : pc'[h] = pc[h] /\ pc[h] \in {"idle", "lock"}
      BY <1>0, <1>b DEF Rebuild, ListContextRoutes, ListEdgeTransformations, ListRemoteRoutes,
                   ListServices, Publish, Ordered, Exclusive
    <2>1. pc[g] \in {"cr", "et", "rr", "svc"}
      BY <1>b DEF Rebuild, ListContextRoutes, ListEdgeTransformations, ListRemoteRoutes,
                   ListServices, Publish
    <2>2. CASE timer \/ \E h \in Goroutine : pc[h] = "lock"
      BY <1>a, <2>0, <2>1, <2>2 DEF Upcoming
    <2>3. CASE \E h \in Goroutine : Agrees(h)
      <3>1. Agrees(g)
        BY <2>0, <2>3 DEF Agrees
      <3>2. CASE ListContextRoutes(g)
        <4>1. draft'[g].owners = Owners(cache.cr)
          BY <1>0, <3>2 DEF ListContextRoutes, Draft
        <4>2. Agrees(g)'
          BY <1>0, <1>a, <3>2, <4>1 DEF ListContextRoutes, Agrees
        <4>3. QED
          BY <4>2 DEF Upcoming
      <3>3. CASE ListEdgeTransformations(g)
        <4>1. draft'[g].owners = draft[g].owners /\ draft'[g].et = cache.et
          BY <1>0, <3>3 DEF ListEdgeTransformations, Draft
        <4>2. Agrees(g)'
          BY <1>0, <1>a, <3>1, <3>3, <4>1 DEF ListEdgeTransformations, Agrees
        <4>3. QED
          BY <4>2 DEF Upcoming
      <3>4. CASE ListRemoteRoutes(g)
        <4>1. /\ draft'[g].owners = draft[g].owners /\ draft'[g].et = draft[g].et
              /\ draft'[g].rr = cache.rr /\ draft'[g].alts = <<>>
          BY <1>0, <3>4 DEF ListRemoteRoutes, Draft, TypeInv, AltsLast
        <4>2. DOMAIN draft'[g].alts = {} /\ pc'[g] = "svc" /\ pc[g] = "rr"
          BY <1>0, <3>4, <4>1 DEF ListRemoteRoutes
        <4>3. Agrees(g)'
          BY <1>a, <3>1, <4>1, <4>2 DEF Agrees
        <4>4. QED
          BY <4>3 DEF Upcoming
      <3>5. ASSUME NEW k \in Keys, ListServices(g, k)
            PROVE  Upcoming'
        <4>1. /\ draft'[g].owners = draft[g].owners /\ draft'[g].et = draft[g].et
              /\ draft'[g].rr = draft[g].rr
              /\ draft'[g].alts = [j \in DOMAIN draft[g].alts \cup {k} |->
                      IF j = k THEN Alternatives(cache.svc, draft[g].owners[k])
                      ELSE draft[g].alts[j]]
          BY <1>0, <3>5 DEF ListServices, Draft
        <4>2. pc'[g] = "svc" /\ pc[g] = "svc"
          BY <3>5 DEF ListServices
        <4>3. \A j \in DOMAIN draft'[g].alts :
                  draft'[g].alts[j] = Alternatives(cache.svc, draft[g].owners[j])
          BY <3>1, <4>1, <4>2 DEF Agrees
        <4>4. Agrees(g)'
          BY <1>a, <3>1, <4>1, <4>2, <4>3 DEF Agrees
        <4>5. QED
          BY <4>4 DEF Upcoming
      <3>6. CASE Publish(g)
        <4>1. Quiet'
          BY <1>0, <2>0, <3>6 DEF Publish, Quiet
        <4>2. draft[g].alts = AltsOf(cache.svc, draft[g].owners)
          <5>1. draft[g].alts \in Parts /\ DOMAIN draft[g].alts = DOMAIN draft[g].owners
            BY <1>0, <3>6, DraftFields DEF Publish
          <5>2. draft[g].alts = [k \in DOMAIN draft[g].alts |-> draft[g].alts[k]]
            BY <5>1 DEF Parts
          <5>3. QED
            BY <2>1, <3>1, <3>6, <5>1, <5>2 DEF Agrees, AltsOf, Publish
        <4>3. snap'.entries = Ideal(cache)
          BY <3>1, <3>6, <4>2 DEF Publish, Agrees, Ideal
        <4>4. Ideal(cache)' = Ideal(cache)
          BY <1>a
        <4>5. QED
          BY <4>1, <4>3, <4>4 DEF Upcoming
      <3>7. QED
        BY <1>b, <3>2, <3>3, <3>4, <3>5, <3>6 DEF Rebuild
    <2>4. CASE Quiet
      BY <2>1, <2>4 DEF Quiet
    <2>5. QED
      BY <2>2, <2>3, <2>4 DEF Upcoming
  <1>2. QED
    BY <1>1, <1>b

LEMMA NextUpcoming ==
    ASSUME TypeInv, Ordered, Upcoming, Delivered, [Next]_vars
    PROVE  Upcoming' /\ Delivered'
  <1>0. /\ revs \in [Kinds -> Nat] /\ cacheRevs \in [Kinds -> Nat]
        /\ \A k \in Kinds : cacheRevs[k] <= revs[k]
        /\ store \in Objects /\ cache \in Objects
    BY DEF TypeInv, TypeOK, Ordered, Behind
  <1>1. CASE Changes
    <2>0. PICK kind \in Kinds : \E objs : Change(kind, objs)
      BY <1>1 DEF Changes
    <2>1. PICK objs : Change(kind, objs)
      BY <2>0
    <2>2. UNCHANGED <<timer, pc, draft, cache, cacheRevs, snap>>
      BY <2>1 DEF Change, caches, builds
    <2>3. Upcoming'
      BY <2>2 DEF Upcoming, Agrees, Quiet, Ideal
    <2>4. \A k \in Kinds \ {kind} : revs'[k] = revs[k] /\ store'[k] = store[k]
      BY <1>0, <2>1 DEF Change, Objects, Kinds
    <2>5. cacheRevs[kind] # revs'[kind]
      BY <1>0, <2>1 DEF Change
    <2>6. QED
      BY <2>2, <2>3, <2>4, <2>5 DEF Delivered
  <1>2. ASSUME NEW kind \in Kinds, Deliver(kind)
        PROVE  Upcoming' /\ Delivered'
    <2>1. Upcoming'
      BY <1>2 DEF Deliver, Upcoming
    <2>2. cache'[kind] = store[kind] /\ cacheRevs'[kind] = revs[kind]
      BY <1>0, <1>2 DEF Deliver, Objects, Kinds
    <2>3. \A k \in Kinds \ {kind} : cache'[k] = cache[k] /\ cacheRevs'[k] = cacheRevs[k]
      BY <1>0, <1>2 DEF Deliver, Objects, Kinds
    <2>4. QED
      BY <1>2, <2>1, <2>2, <2>3 DEF Deliver, Delivered, cluster
  <1>3. ASSUME NEW g \in Goroutine, Fire(g)
        PROVE  Upcoming' /\ Delivered'
    <2>1. pc'[g] = "lock"
      BY <1>3 DEF Fire, TypeInv, TypeOK
    <2>2. QED
      BY <1>3, <2>1 DEF Fire, Upcoming, Delivered, cluster, caches
  <1>4. ASSUME NEW g \in Goroutine, Rebuild(g)
        PROVE  Upcoming' /\ Delivered'
    <2>1. UNCHANGED <<store, revs, cache, cacheRevs>>
      BY <1>4 DEF Rebuild, Lock, ListContextRoutes, ListEdgeTransformations, ListRemoteRoutes,
                  ListServices, Publish, cluster, caches
    <2>2. QED
      BY <1>4, <2>1, RebuildUpcoming DEF Delivered
  <1>5. CASE Restart
    BY <1>5 DEF Restart, Fresh, Upcoming, Delivered, cluster
  <1>6. CASE UNCHANGED vars
    BY <1>6 DEF vars, cluster, caches, builds, Upcoming, Agrees, Quiet, Ideal, Delivered
  <1>7. QED
    BY <1>1, <1>2, <1>3, <1>4, <1>5, <1>6, NextCases

(* What Upcoming is for: when nothing is under way, the snapshot is right. *)
LEMMA UpcomingImpliesCurrent ==
    ASSUME TypeInv, Upcoming, Delivered
    PROVE  SnapshotIsCurrent
  <1> SUFFICES ASSUME Settled PROVE snap.entries = Current
    BY DEF SnapshotIsCurrent
  <1>1. snap.entries = Ideal(cache)
    BY DEF Settled, Upcoming, Agrees
  <1>2. cache.cr = store.cr /\ cache.et = store.et /\ cache.rr = store.rr /\ cache.svc = store.svc
    <2>1. \A k \in Kinds : cache[k] = store[k]
      BY DEF Settled, Delivered
    <2>2. QED
      BY <2>1 DEF Kinds, TypeInv, TypeOK, Objects
  <1>3. Ideal(cache) = Ideal(store)
    BY <1>2 DEF Ideal
  <1>4. QED
    BY <1>1, <1>3, IdealIsCurrent DEF TypeInv, TypeOK

(* Once all is delivered and every rebuild is through, the API says of the cluster what is
   so: no change falls between the lists of a rebuild, the debouncer and the swap, however
   many rebuilds overlap. *)
THEOREM IndexSettlesCurrent == Spec => []SnapshotIsCurrent
  <1> DEFINE Inv == TypeInv /\ Ordered /\ Upcoming /\ Delivered
  <1>1. Init => Inv
    BY InitTypeInv, InitOrdered, InitUpcoming DEF TypeInv
  <1>2. Inv /\ [Next]_vars => Inv'
    BY NextTypeInv, NextOrdered, NextUpcoming DEF TypeInv
  <1>3. Inv => SnapshotIsCurrent
    BY UpcomingImpliesCurrent
  <1>4. QED
    BY <1>1, <1>2, <1>3, PTL DEF Spec

=============================================================================
