----------------------------- MODULE ApiClients -----------------------------
(***************************************************************************)
(* Clients of the routing API while snapshots are swapped under them:      *)
(* somebody who follows nextCursor on one of the three lists, and the      *)
(* dashboard's panel of alternatives, which follows it for the selected    *)
(* target. What snapshots there may be is RoutingIndex's business; here    *)
(* one follows the other in any order.                                     *)
(***************************************************************************)
EXTENDS Listing

CONSTANTS
    Snapshots,  \* sets of entries
    Queries,    \* what the client asks for
    Targets,    \* routing keys to select in the dashboard
    PanelLimit, \* the page size the dashboard asks for
    NoTarget,
    MaxMoves    \* bound: swaps and selections together

NoFilter == [equals |-> <<>>, startswith |-> <<>>, fuzzy |-> <<>>]

\* A routing key has one owner, and with it one Service.
ASSUME SnapshotAssumption ==
    \A s \in Snapshots :
       /\ IsFiniteSet(s)
       /\ s \subseteq [key : Strings \ {<<>>}, service : Strings, alternative : Strings \ {<<>>}]
       /\ \A d, e \in s : d.key = e.key => d.service = e.service

\* The tuple endpoint knows fuzzy only.
ASSUME QueryAssumption ==
    /\ \A q \in Queries : /\ q.endpoint \in {"service", "alternative", "tuple"}
                          /\ q.filter \in Filter /\ q.limit \in Nat
                          /\ q.endpoint = "tuple" =>
                                q.filter.equals = <<>> /\ q.filter.startswith = <<>>
    /\ PanelLimit \in Nat /\ NoTarget \notin Targets /\ MaxMoves \in Nat

VARIABLES
    snap,       \* the published snapshot
    walk,       \* the client
    selected,   \* the dashboard's target,
    data,       \* what its panel shows,
    error,
    loads,      \* and the walks of its effects; only the last is not cancelled
    moves

vars  == <<snap, walk, selected, data, error, loads, moves>>
panel == <<selected, data, error, loads>>

-----------------------------------------------------------------------------
(* The handlers. *)

Colon == <<2>>

\* "<service>:<alternative>".
TupleString(e) == e.service \o Colon \o e.alternative

\* Entries sorted by Tuple: one string may stand there for several routing keys.
Tuples(s) ==
    LET Before(d, e) == \/ Less(TupleString(d), TupleString(e))
                        \/ TupleString(d) = TupleString(e) /\ Less(d.key, e.key)
        sorted == Ranked(s, {p \in s \X s : Before(p[1], p[2])})
    IN  [i \in DOMAIN sorted |-> TupleString(sorted[i])]

\* The list a request is about; a target that is gone has none.
Listed(s, q) ==
    CASE q.endpoint = "service"     -> Sorted({e.key : e \in s})
      [] q.endpoint = "alternative" ->
            Sorted({e.alternative : e \in {e \in s : e.key = q.target}})
      [] q.endpoint = "tuple"       -> Tuples(s)

Query(t) == [endpoint |-> "alternative", target |-> t, filter |-> NoFilter, limit |-> PanelLimit]

\* What the handler leaves of the list, and what the request asks for, string by string.
Filtered(q, list) == IF q.endpoint = "tuple" THEN ApplyTupleFilter(q.filter.fuzzy, list)
                     ELSE ApplyFilter(q.filter, list)
AskedFor(q, x)    == IF q.endpoint = "tuple" THEN HasSubstring(x, q.filter.fuzzy)
                     ELSE Wanted(q.filter, x)

\* Both for every snapshot and request.
Requests == Queries \cup {Query(t) : t \in Targets}
Lists    == [s \in Snapshots |-> [q \in Requests |-> Listed(s, q)]]
Matched  == [s \in Snapshots |-> [q \in Requests |-> Filtered(q, Lists[s][q])]]
Asked    == [s \in Snapshots |-> [q \in Requests |->
                {x \in ToSet(Lists[s][q]) : AskedFor(q, x)}]]

\* One answer, from the snapshot of the moment.
Answer(q, cursor) == Paginate(Matched[snap][q], cursor, ParseLimit(q.limit))

NotFound(q) == q.endpoint = "alternative" /\ Lists[snap][q] = <<>>

-----------------------------------------------------------------------------
(* Following nextCursor. seen is what a walk has got, twice what it has got again;       *)
(* steady is what it asked for and every snapshot so far had; double says that one had a *)
(* string twice.                                                                         *)

Start(q) == [query |-> q, pc |-> "walking", cursor |-> <<>>, first |-> TRUE,
             seen |-> {}, twice |-> {}, steady |-> {}, double |-> FALSE, live |-> TRUE]

Advance(w) ==
    LET list  == Lists[snap][w.query]
        page  == Answer(w.query, w.cursor)
        items == ToSet(page.items)
        asked == Asked[snap][w.query]
    IN  [w EXCEPT
            !.cursor = page.next, !.first = FALSE,
            !.pc     = IF page.next = <<>> THEN "done" ELSE "walking",
            !.seen   = @ \cup items,
            !.twice  = @ \cup (IF Cardinality(items) = Len(page.items) THEN items \cap w.seen
                               ELSE items),
            !.steady = IF w.first THEN asked ELSE @ \cap asked,
            !.double = @ \/ Cardinality(ToSet(list)) # Len(list)]

Failed(w) == [w EXCEPT !.pc = "failed"]

NextPage ==
    /\ walk.pc = "walking"
    /\ walk' = IF NotFound(walk.query) THEN Failed(walk) ELSE Advance(walk)
    /\ UNCHANGED <<snap, panel, moves>>

\* Another snapshot is swapped in, or the process has restarted.
Swap(s) ==
    /\ moves < MaxMoves /\ moves' = moves + 1
    /\ snap # s /\ snap' = s
    /\ UNCHANGED <<walk, panel>>

-----------------------------------------------------------------------------
(* The dashboard's panel. *)

\* Mutant: the effect has no clean-up.
SelectOnly(t) ==
    /\ moves < MaxMoves /\ moves' = moves + 1
    /\ t # selected /\ selected' = t
    /\ error' = FALSE
    /\ IF t = NoTarget THEN data' = NoTarget /\ UNCHANGED loads
       ELSE loads' = loads \cup {Start(Query(t))} /\ UNCHANGED data
    /\ UNCHANGED <<snap, walk>>

\* The effect on another target: its clean-up cancels the last load; the data of the last
\* target stay until there are new ones.
Select(t) ==
    /\ moves < MaxMoves /\ moves' = moves + 1
    /\ t # selected /\ selected' = t
    /\ error' = FALSE
    /\ LET cancelled == {[w EXCEPT !.live = FALSE] : w \in loads}
       IN  IF t = NoTarget THEN data' = NoTarget /\ loads' = cancelled
           ELSE loads' = cancelled \cup {Start(Query(t))} /\ UNCHANGED data
    /\ UNCHANGED <<snap, walk>>

\* One round of the loop, or its end. A load that was cancelled runs on and sets nothing.
Load(w) ==
    /\ w \in loads
    /\ LET next == IF NotFound(w.query) THEN Failed(w) ELSE Advance(w)
       IN  /\ loads' = (loads \ {w}) \cup (IF next.pc = "walking" THEN {next} ELSE {})
           /\ data'  = IF next.pc = "done" /\ w.live THEN next ELSE data
           /\ error' = (error \/ (next.pc = "failed" /\ w.live))
    /\ UNCHANGED <<snap, walk, selected, moves>>

-----------------------------------------------------------------------------
Init ==
    /\ snap \in Snapshots
    /\ \E q \in Queries : walk = Start(q)
    /\ selected = NoTarget /\ data = NoTarget /\ error = FALSE /\ loads = {}
    /\ moves = 0

Next ==
    \/ NextPage
    \/ \E s \in Snapshots : Swap(s)
    \/ \E t \in Targets \cup {NoTarget} : Select(t)
    \/ \E w \in loads : Load(w)

Spec == Init /\ [][Next]_vars

-----------------------------------------------------------------------------
(* Properties. *)

\* Where a client can be.
Walks == [query : Requests, pc : {"walking", "done", "failed"}, cursor : Strings,
          first : BOOLEAN, seen : SUBSET Strings, twice : SUBSET Strings,
          steady : SUBSET Strings, double : BOOLEAN, live : BOOLEAN]

ASSUME NoWalkAssumption == NoTarget \notin Walks

TypeOK ==
    /\ snap \in Snapshots /\ walk \in Walks
    /\ selected \in Targets \cup {NoTarget} /\ data \in Walks \cup {NoTarget}
    /\ error \in BOOLEAN
    /\ \A w \in loads : w \in Walks /\ w.pc = "walking"
    /\ Cardinality({w \in loads : w.live}) <= 1
    /\ moves \in 0..MaxMoves

Exact(w) ==
    /\ ~FuzzyIgnored(w.query.filter) => \A s \in w.seen : AskedFor(w.query, s)
    /\ w.pc = "done" => w.steady \subseteq w.seen
    /\ w.twice # {} => w.double

\* A client that follows nextCursor while snapshots are swapped gets all that it asked for and
\* that was there the whole time; what it asked for only, unless it asked for equals and fuzzy
\* at once; and no string twice, unless a snapshot has it twice.
WalkIsExact == Exact(walk)

\* Every request gets what all of its filters ask for: "filter holds the per-request query
\* parameters. All filters are AND-ed" (api.go:194).
FiltersAreAnded == \A s \in walk.seen : AskedFor(walk.query, s)

\* Such a client comes to the end: every page that is not the last has a cursor behind the
\* cursor before it, whatever snapshot it is from, unless one has a string twice.
Onwards(w, next) == next.pc = "walking" => Less(w.cursor, next.cursor) \/ next.double
WalkEnds == [][walk' # walk => Onwards(walk, walk')]_vars

\* Once no load is under way, the panel shows the alternatives of the selected target, all
\* that were there while they were loaded, or an error: an answer to an earlier selection
\* that comes late does not replace them.
PanelFollowsSelection ==
    (\A w \in loads : ~w.live) /\ selected # NoTarget /\ ~error =>
        /\ data # NoTarget /\ data.query.target = selected
        /\ data.steady \subseteq data.seen
=============================================================================
