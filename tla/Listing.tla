------------------------------ MODULE Listing ------------------------------
(***************************************************************************)
(* How the routing API filters and pages a sorted list                     *)
(* (internal/apiserver/api.go). A string is a sequence of numbers, its     *)
(* characters in their order; letter case is left out, because listed      *)
(* names are in lower case and patterns are brought to it.                 *)
(***************************************************************************)
EXTENDS Naturals, Sequences, SequencesExt

CONSTANTS DefaultLimit, MaxLimit

ASSUME LimitAssumption ==
    /\ DefaultLimit \in Nat \ {0} /\ MaxLimit \in Nat \ {0} /\ DefaultLimit <= MaxLimit

Strings == Seq(Nat)
Filter  == [equals : Strings, startswith : Strings, fuzzy : Strings]

\* Go's order of strings.
Less(s, t) ==
    \/ IsStrictPrefix(s, t)
    \/ \E i \in DOMAIN s \cap DOMAIN t :
          s[i] < t[i] /\ \A j \in 1..(i - 1) : s[j] = t[j]

\* Go's sort.Search over 0..n-1, with a test that holds of the numbers in passed.
Search(n, passed) ==
    LET find[w \in (0..n) \X (0..n)] ==
            LET h == (w[1] + w[2]) \div 2
            IN  IF w[1] >= w[2] THEN w[1]
                ELSE IF h \in passed THEN find[<<w[1], h>>] ELSE find[<<h + 1, w[2]>>]
    IN  find[<<0, n>>]

SearchStrings(sorted, s) ==
    Search(Len(sorted), {i \in 0..(Len(sorted) - 1) : ~Less(sorted[i + 1], s)})

\* The members of a finite set in the order of a set of pairs.
Ranked(S, order) == [i \in 1..Cardinality(S) |->
                        CHOOSE x \in S : Cardinality({y \in S : <<y, x>> \in order}) = i - 1]

SubseqMatch(s, pattern) ==
    LET after[j \in 0..Len(s)] ==  \* how much of the pattern s has up to j
            IF j = 0 THEN 0
            ELSE LET i == after[j - 1]
                 IN  IF i < Len(pattern) /\ s[j] = pattern[i + 1] THEN i + 1 ELSE i
    IN  after[Len(s)] = Len(pattern)

\* What stands at some places of a list, in the list's order.
AtPlaces(list, places) ==
    LET rows == Ranked(places, {p \in places \X places : p[1] < p[2]})
    IN  [i \in DOMAIN rows |-> list[rows[i]]]

\* The three filters of a request, <<>> where it has none.
ApplyFilter(f, sorted) ==
    LET n   == Len(sorted)
        lo  == IF f.startswith = <<>> THEN 0 ELSE SearchStrings(sorted, f.startswith)
        hi  == IF f.startswith = <<>> THEN n
               ELSE lo + Search(n - lo, {j \in 0..(n - lo - 1) :
                                            ~IsPrefix(f.startswith, sorted[lo + j + 1])})
        at  == SearchStrings(sorted, f.equals)
    IN  IF f.equals # <<>>
        THEN IF at >= lo /\ at < hi /\ sorted[at + 1] = f.equals THEN <<f.equals>> ELSE <<>>
        ELSE AtPlaces(sorted, {i \in (lo + 1)..hi : SubseqMatch(sorted[i], f.fuzzy)})

\* strings.Contains.
HasSubstring(s, pattern) ==
    \E i \in 0..(Len(s) - Len(pattern)) : SubSeq(s, i + 1, i + Len(pattern)) = pattern

\* The tuple endpoint's one filter: a substring, and the whole list without one.
ApplyTupleFilter(fuzzy, sorted) ==
    AtPlaces(sorted, {i \in DOMAIN sorted : HasSubstring(sorted[i], fuzzy)})

\* What a filter asks for, string by string: "All filters are AND-ed" (api.go:194), and the
\* fuzzy pattern is a subsequence.
Wanted(f, s) ==
    /\ f.equals # <<>> => s = f.equals
    /\ IsPrefix(f.startswith, s)
    /\ \E at \in [DOMAIN f.fuzzy -> DOMAIN s] :
          \A i, j \in DOMAIN f.fuzzy :
             s[at[i]] = f.fuzzy[i] /\ (i < j => at[i] < at[j])

\* The requests whose fuzzy pattern apply never looks at.
FuzzyIgnored(f) == f.equals # <<>> /\ f.fuzzy # <<>>

ParseLimit(limit) ==
    IF limit = 0 THEN DefaultLimit ELSE IF limit > MaxLimit THEN MaxLimit ELSE limit

\* Mutant: the item the cursor names is listed again.
PaginateAgain(sorted, cursor, limit) ==
    LET start == IF cursor = <<>> THEN 0 ELSE SearchStrings(sorted, cursor)
        end   == IF start + limit < Len(sorted) THEN start + limit ELSE Len(sorted)
    IN  [items |-> SubSeq(sorted, start + 1, end),
         next  |-> IF end < Len(sorted) THEN sorted[end] ELSE <<>>]

\* Mutant: the item the cursor names is taken to be there still.
PaginateSkipping(sorted, cursor, limit) ==
    LET start == IF cursor = <<>> THEN 0 ELSE SearchStrings(sorted, cursor) + 1
        end   == IF start + limit < Len(sorted) THEN start + limit ELSE Len(sorted)
    IN  [items |-> SubSeq(sorted, start + 1, end),
         next  |-> IF end < Len(sorted) THEN sorted[end] ELSE <<>>]

\* A page and the cursor of the next one, <<>> on the last page.
Paginate(sorted, cursor, limit) ==
    LET at    == IF cursor = <<>> THEN 0 ELSE SearchStrings(sorted, cursor)
        start == IF cursor # <<>> /\ at < Len(sorted) /\ sorted[at + 1] = cursor THEN at + 1 ELSE at
        end   == IF start + limit < Len(sorted) THEN start + limit ELSE Len(sorted)
    IN  [items |-> SubSeq(sorted, start + 1, end),
         next  |-> IF start < Len(sorted) /\ end < Len(sorted) THEN sorted[end] ELSE <<>>]

\* A finite set of strings as a sorted sequence.
Sorted(S) == Ranked(S, {p \in S \X S : Less(p[1], p[2])})
=============================================================================
