---------------------------- MODULE MCApiClients ----------------------------
(* A small instance of ApiClients. Letters are the numbers from 3 on, "." is 1. *)
EXTENDS ApiClients

a == <<3>>
b == <<4>>
ab == <<3, 4>>
dot == <<1>>

Entry(k, s, alt) == [key |-> k, service |-> s, alternative |-> alt]

\* Keys that are prefixes of others, a key that comes and goes, variants that come and go,
\* and two keys on one Service.
Rich   == {Entry(a, a, dot), Entry(a, a, ab), Entry(a, a, b), Entry(ab, ab, dot),
           Entry(b, b, dot)}
Fewer  == {Entry(a, a, dot), Entry(a, a, b), Entry(b, b, dot)}
Other  == {Entry(ab, ab, dot), Entry(ab, ab, a), Entry(b, b, dot), Entry(b, b, a)}
Shared == {Entry(a, a, dot), Entry(a, a, b), Entry(ab, a, dot), Entry(ab, a, b)}
SnapshotSet == {{}, Rich, Fewer, Other, Shared}

Filters == {NoFilter, [NoFilter EXCEPT !.startswith = a], [NoFilter EXCEPT !.fuzzy = b],
            [NoFilter EXCEPT !.equals = ab, !.startswith = a],
            [NoFilter EXCEPT !.equals = b, !.startswith = a],
            [NoFilter EXCEPT !.equals = a, !.fuzzy = b]}
Alternatives == {[endpoint |-> "alternative", target |-> a, filter |-> f, limit |-> l] :
                    f \in Filters, l \in {1, 2}}
Services == {[endpoint |-> "service", filter |-> f, limit |-> l] : f \in Filters, l \in {0, 1, 9}}
\* "" and "b:" are in several tuples, "a:" is inside one and at the head of others.
TupleQueries == {[endpoint |-> "tuple", filter |-> [NoFilter EXCEPT !.fuzzy = p], limit |-> l] :
                    p \in {<<>>, a \o Colon, b \o Colon}, l \in {1, 2}}
QuerySet == Alternatives \cup Services \cup TupleQueries

Selectable == {a, ab}
=============================================================================
