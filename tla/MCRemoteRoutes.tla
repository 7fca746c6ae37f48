--------------------------- MODULE MCRemoteRoutes ---------------------------
(* Small instances of RemoteRoutes. *)
EXTENDS RemoteRoutes

Url(h, s) == [host |-> h, scheme |-> s]
Single(n, h, s) == [name |-> n, urls |-> <<Url(h, s)>>, mode |-> "none"]

\* Two upstreams, one of them alone, and a list that is rejected.
Both    == <<Single("x", "h1", "http"), Single("y", "h2", "http")>>
Alone   == <<Single("y", "h2", "http")>>
Mixed   == <<Single("x", "h1", "http"), Single("y", "h2", "https"), Single("x", "h1", "bad")>>
Lists   == {Both, Alone, Mixed}
TwoLists == {Both, Alone}

On(v) == [match |-> {<<"tier", v>>}, expressions |-> FALSE]
Blue == {On("blue")}
Selectable == {On("blue"), On("green"), [match |-> {}, expressions |-> FALSE]}

AllThere  == [c \in CRs |-> [uid |-> 1, selector |-> On("blue")]]
NoneThere == [c \in CRs |-> NoContextRoute]

\* RemoteRoute r1 hangs on c1, is not reconciled yet, and its ContextRoute may still be
\* missing.
Base(routes, up) ==
    /\ rrs = [r \in RRs |-> IF r = "r1"
                 THEN [NoRemoteRoute EXCEPT !.uid = 1, !.ref = "c1", !.upstreams = Both]
                 ELSE NoRemoteRoute]
    /\ cacheRRs = [r \in RRs |-> NoRemoteRoute]
    /\ crs \in routes /\ cacheCRs = crs
    /\ configMaps = [r \in RRs |-> NoConfigMap] /\ services = [r \in RRs |-> NoService]
    /\ adminServices = [r \in RRs |-> 0] /\ deployments = [r \in RRs |-> NoDeployment]
    /\ pods = [r \in RRs |-> NoPod] /\ cacheAvailable = [r \in RRs |-> FALSE]
    /\ passing = up
    /\ queue = {} /\ timers = {}
    /\ pc = "idle" /\ job = NoRR /\ snap = NoRemoteRoute /\ parent = NoContextRoute
    /\ draft = NoStatus
    /\ uids = [n \in RRs \cup CRs |-> IF n \in CRs THEN crs[n].uid ELSE rrs[n].uid]
    /\ moves = 0

\* Something happens to the ContextRoute, once, or two things happen to everything else.
FairSmallSpec ==
    /\ Base({AllThere, NoneThere}, Hosts)
    /\ [][/\ Next
          /\ crs' # crs => moves = 0
          /\ moves' # moves => moves = 0 \/ crs = AllThere]_vars
    /\ Fairness

\* One host passes and the other does not, all the time.
QuietHostsSpec == Base({AllThere}, {"h1"}) /\ [][Next /\ UNCHANGED passing]_vars
=============================================================================
