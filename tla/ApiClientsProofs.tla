-------------------------- MODULE ApiClientsProofs --------------------------
(***************************************************************************)
(* Theorems about ApiClients: a client that follows nextCursor while       *)
(* snapshots are swapped gets what it should and comes to an end, and the  *)
(* dashboard's panel shows what is selected.                               *)
(***************************************************************************)
EXTENDS ApiClients, ListingProofs

-----------------------------------------------------------------------------
(* The lists of the three endpoints. *)

Entries == [key : Strings \ {<<>>}, service : Strings, alternative : Strings \ {<<>>}]

LEMMA TupleStrings ==
    ASSUME NEW e \in Entries
    PROVE  TupleString(e) \in Strings \ {<<>>}
  <1>1. e.service \in Seq(Nat) /\ e.alternative \in Seq(Nat) /\ e.alternative # <<>>
    BY DEF Entries, Strings
  <1>2. Colon \in Seq(Nat)
    BY DEF Colon
  <1>3. e.service \o Colon \in Seq(Nat)
    BY <1>1, <1>2, ConcatProperties
  <1>4. (e.service \o Colon) \o e.alternative \in Seq(Nat)
        /\ (e.service \o Colon) \o e.alternative # <<>>
    BY <1>1, <1>3, ConcatProperties, ConcatEqualIffEmpty
  <1>5. QED
    BY <1>4 DEF TupleString, Strings

(* Two entries of a snapshot with one key and one tuple are one entry. *)
LEMMA TuplesApart ==
    ASSUME NEW s \in Snapshots, NEW d \in s, NEW e \in s,
           TupleString(d) = TupleString(e), d.key = e.key
    PROVE  d = e
  <1>1. d \in Entries /\ e \in Entries /\ d.service = e.service
    BY SnapshotAssumption DEF Entries
  <1>2. /\ d.service \in Seq(Nat) /\ d.alternative \in Seq(Nat) /\ e.alternative \in Seq(Nat)
        /\ Colon \in Seq(Nat)
    BY <1>1 DEF Entries, Strings, Colon
  <1>3. PICK head : head = d.service \o Colon
    OBVIOUS
  <1>4. head \in Seq(Nat)
    BY <1>2, <1>3, ConcatProperties
  <1>5. head \o d.alternative = head \o e.alternative
    BY <1>1, <1>3 DEF TupleString
  <1>6. d.alternative = e.alternative
    BY <1>2, <1>4, <1>5, ConcatSimplifications
  <1>7. QED
    BY <1>1, <1>6 DEF Entries

(* The tuples of a snapshot, in their order; one may stand there several times. *)
LEMMA TuplesList ==
    ASSUME NEW s \in Snapshots
    PROVE  /\ Tuples(s) \in Seq(Strings) /\ Ascending(Tuples(s))
           /\ <<>> \notin ToSet(Tuples(s))
  <1> DEFINE Before(d, e) == \/ Less(TupleString(d), TupleString(e))
                             \/ TupleString(d) = TupleString(e) /\ Less(d.key, e.key)
             order  == {p \in s \X s : Before(p[1], p[2])}
             sorted == Ranked(s, order)
  <1>1. IsFiniteSet(s) /\ \A e \in s : e \in Entries
    BY SnapshotAssumption DEF Entries
  <1>2. \A e \in s : /\ TupleString(e) \in Strings /\ TupleString(e) # <<>>
                     /\ e.key \in Strings
    BY <1>1, TupleStrings DEF Entries
  <1>3. \A d \in s : ~Before(d, d)
    BY <1>2, LessIrreflexive
  <1>4. ASSUME NEW d \in s, NEW e \in s, NEW g \in s, Before(d, e), Before(e, g)
        PROVE  Before(d, g)
    BY <1>2, <1>4, LessTransitive
  <1>5. ASSUME NEW d \in s, NEW e \in s, d # e
        PROVE  Before(d, e) \/ Before(e, d)
    BY <1>2, <1>5, LessTotal, TuplesApart
  <1>6. \A d, e \in s : Before(d, e) => ~Less(TupleString(e), TupleString(d))
    BY <1>2, LessIrreflexive, LessAsymmetric
  <1>7. Tuples(s) = [i \in DOMAIN sorted |-> TupleString(sorted[i])]
    BY DEF Tuples
  <1> HIDE DEF Before
  <1>8. \A d, e \in s : <<d, e>> \in order <=> Before(d, e)
    OBVIOUS
  <1> HIDE DEF order
  <1>9. PICK n \in Nat : n = Cardinality(s)
    BY <1>1, FS_CardinalityType
  <1>10. /\ Ranked(s, order) \in [1..n -> s]
         /\ \A i, j \in 1..n : i < j => <<Ranked(s, order)[i], Ranked(s, order)[j]>> \in order
    BY <1>1, <1>3, <1>4, <1>5, <1>8, <1>9, RankedOrders
  <1>11. sorted \in [1..n -> s] /\ \A i, j \in 1..n : i < j => Before(sorted[i], sorted[j])
    <2>1. \A i \in 1..n : Ranked(s, order)[i] \in s
      BY <1>10
    <2>2. QED
      BY <1>8, <1>10, <2>1
  <1> HIDE DEF sorted
  <1>12. PICK list : list = Tuples(s)
    OBVIOUS
  <1>13. \A i \in 1..n : /\ sorted[i] \in s /\ list[i] = TupleString(sorted[i])
                         /\ list[i] \in Strings /\ list[i] # <<>>
    BY <1>2, <1>7, <1>11, <1>12
  <1>14. list \in Seq(Strings) /\ Len(list) = n /\ DOMAIN list = 1..n
    <2>1. list = [i \in 1..n |-> TupleString(sorted[i])]
      BY <1>7, <1>11, <1>12
    <2>2. list \in [1..n -> Strings]
      BY <1>13, <2>1
    <2>3. QED
      BY <2>2
  <1>15. Ascending(list)
    BY <1>6, <1>11, <1>13, <1>14 DEF Ascending
  <1>16. <<>> \notin ToSet(list)
    BY <1>13, <1>14 DEF ToSet
  <1>17. QED
    BY <1>12, <1>14, <1>15, <1>16

LEMMA RequestTypes ==
    ASSUME NEW q \in Requests
    PROVE  /\ q.endpoint \in {"service", "alternative", "tuple"}
           /\ q.filter \in Filter /\ q.limit \in Nat
  <1>1. CASE q \in Queries
    BY <1>1, QueryAssumption
  <1>2. CASE q \in {Query(t) : t \in Targets}
    <2>1. PICK t \in Targets : q = Query(t)
      BY <1>2
    <2>2. <<>> \in Strings
      BY EmptySeq DEF Strings
    <2>3. NoFilter \in Filter
      BY <2>2 DEF NoFilter, Filter
    <2>4. QED
      BY <2>1, <2>3, QueryAssumption DEF Query
  <1>3. QED
    BY <1>1, <1>2 DEF Requests

(* What a request is about, in order. *)
LEMMA ListedAscends ==
    ASSUME NEW s \in Snapshots, NEW q \in Requests
    PROVE  /\ Listed(s, q) \in Seq(Strings) /\ Ascending(Listed(s, q))
           /\ <<>> \notin ToSet(Listed(s, q))
  <1>1. IsFiniteSet(s) /\ \A e \in s : e \in Entries
    BY SnapshotAssumption DEF Entries
  <1>2. CASE q.endpoint = "service"
    <2> DEFINE S == {e.key : e \in s}
    <2>1. IsFiniteSet(S)
      <3>1. [e \in s |-> e.key] \in Surjection(s, S)
        BY DEF Surjection
      <3> HIDE DEF S
      <3>2. QED
        BY <1>1, <3>1, FS_Surjection
    <2>2. S \in SUBSET Strings /\ <<>> \notin S
      BY <1>1 DEF Entries
    <2>3. Listed(s, q) = Sorted(S)
      BY <1>2 DEF Listed
    <2> HIDE DEF S
    <2>4. QED
      BY <2>1, <2>2, <2>3, SortedSorts, StrictAscends
  <1>3. CASE q.endpoint = "alternative"
    <2> DEFINE T == {e \in s : e.key = q.target}
               S == {e.alternative : e \in T}
    <2>1. IsFiniteSet(T)
      BY <1>1, FS_Subset
    <2>2. T \subseteq s
      OBVIOUS
    <2>3. Listed(s, q) = Sorted(S)
      BY <1>3 DEF Listed
    <2> HIDE DEF T
    <2>4. IsFiniteSet(S)
      <3>1. [e \in T |-> e.alternative] \in Surjection(T, S)
        BY DEF Surjection
      <3> HIDE DEF S
      <3>2. QED
        BY <2>1, <3>1, FS_Surjection
    <2>5. S \in SUBSET Strings /\ <<>> \notin S
      BY <1>1, <2>2 DEF Entries
    <2> HIDE DEF S
    <2>6. QED
      BY <2>3, <2>4, <2>5, SortedSorts, StrictAscends
  <1>4. CASE q.endpoint = "tuple"
    BY <1>4, TuplesList DEF Listed
  <1>5. QED
    BY <1>2, <1>3, <1>4, RequestTypes
-----------------------------------------------------------------------------
(* Walks. *)

(* Where a walk stands: it has got all that it has seen the whole time and that is not      *)
(* behind its cursor, and nothing that is.                                                 *)
WalkInv(w) ==
    /\ ~FuzzyIgnored(w.query.filter) => \A x \in w.seen : AskedFor(w.query, x)
    /\ w.first => w.cursor = <<>> /\ w.seen = {} /\ w.twice = {} /\ w.steady = {}
    /\ w.pc = "walking" =>
          /\ ~w.first => w.cursor # <<>>
          /\ \A x \in w.seen : ~Less(w.cursor, x)
          /\ \A x \in w.steady : x \in w.seen \/ Less(w.cursor, x)
    /\ w.pc = "done" => w.cursor = <<>> /\ w.steady \subseteq w.seen
    /\ w.twice # {} => w.double

(* What an answer holds of what was asked for, and what it may hold again where many       *)
(* says that the list has a string twice.                                                  *)
IsAnswer(asked, q, cursor, items, next, many) ==
    /\ items \subseteq Strings /\ asked \subseteq Strings /\ next \in Strings
    /\ ~FuzzyIgnored(q.filter) => \A x \in items : AskedFor(q, x)
    /\ \A x \in asked : \/ x \in items
                        \/ cursor # <<>> /\ ~Less(cursor, x)
                        \/ next # <<>> /\ Less(next, x)
    /\ next # <<>> => next \in items
    /\ \A x \in items : next # <<>> => ~Less(next, x)
    /\ \A x \in items : cursor # <<>> => ~Less(x, cursor) /\ (~many => Less(cursor, x))

LEMMA AnswerHolds ==
    ASSUME NEW s \in Snapshots, s = snap, NEW q \in Requests, NEW cursor \in Strings,
           NEW items, items = ToSet(Answer(q, cursor).items),
           NEW next, next = Answer(q, cursor).next,
           NEW many \in BOOLEAN, many <=> Cardinality(ToSet(Lists[s][q])) # Len(Lists[s][q])
    PROVE  /\ IsAnswer(Asked[s][q], q, cursor, items, next, many)
           /\ ~many => Cardinality(items) = Len(Answer(q, cursor).items)
  <1>1. PICK list : list = Listed(s, q)
    OBVIOUS
  <1>2. list \in Seq(Strings) /\ Ascending(list) /\ <<>> \notin ToSet(list)
    BY <1>1, ListedAscends
  <1>3. Lists[s][q] = list
    BY <1>1 DEF Lists
  <1>4. PICK matched : matched = Filtered(q, list)
    OBVIOUS
  <1>5. Matched[s][q] = matched
    BY <1>3, <1>4 DEF Matched
  <1>6. Asked[s][q] = {x \in ToSet(list) : AskedFor(q, x)}
    BY <1>3 DEF Asked
  <1>7. /\ matched \in Seq(Strings) /\ Ascending(matched) /\ (Strict(list) => Strict(matched))
        /\ ToSet(matched) \subseteq ToSet(list)
        /\ \A x \in ToSet(list) : AskedFor(q, x) => x \in ToSet(matched)
        /\ ~FuzzyIgnored(q.filter) => \A x \in ToSet(matched) : AskedFor(q, x)
    <2>1. CASE q.endpoint = "tuple"
      <3>1. matched = ApplyTupleFilter(q.filter.fuzzy, list)
        BY <1>4, <2>1 DEF Filtered
      <3>2. \A x : AskedFor(q, x) <=> HasSubstring(x, q.filter.fuzzy)
        BY <2>1 DEF AskedFor
      <3>3. QED
        BY <1>2, <3>1, <3>2, TupleFilterMembers
    <2>2. CASE q.endpoint # "tuple"
      <3>1. matched = ApplyFilter(q.filter, list)
        BY <1>4, <2>2 DEF Filtered
      <3>2. \A x : AskedFor(q, x) <=> Wanted(q.filter, x)
        BY <2>2 DEF AskedFor
      <3>3. QED
        BY <1>2, <3>1, <3>2, RequestTypes, FilterMembers
    <2>3. QED
      BY <2>1, <2>2
  <1>8. PICK limit \in Nat \ {0} : limit = ParseLimit(q.limit)
    BY RequestTypes, ParseLimitPositive
  <1>9. Answer(q, cursor) = Paginate(matched, cursor, limit)
    BY <1>5, <1>8 DEF Answer
  <1>10. <<>> \notin ToSet(matched)
    BY <1>2, <1>7
  <1>11. ToSet(list) \subseteq Strings
    <2>1. DOMAIN list = 1..Len(list) /\ \A i \in 1..Len(list) : list[i] \in Strings
      BY <1>2, LenProperties, ElementOfSeq
    <2>2. QED
      BY <2>1 DEF ToSet
  <1>12. items = ToSet(Paginate(matched, cursor, limit).items)
         /\ next = Paginate(matched, cursor, limit).next
    BY <1>9
  <1>13. /\ IsPage(matched, cursor, items, next)
         /\ Strict(matched) => Cardinality(items) = Len(Paginate(matched, cursor, limit).items)
    BY <1>7, <1>10, <1>12, PageMembers
  <1>14. ~many => Strict(matched)
    BY <1>2, <1>3, <1>7, SingleStrict
  <1>15. IsAnswer(Asked[s][q], q, cursor, items, next, many)
    <2>1. PICK asked : asked = Asked[s][q]
      OBVIOUS
    <2>2. /\ asked \subseteq ToSet(matched) /\ ToSet(matched) \subseteq Strings
          /\ ~FuzzyIgnored(q.filter) => \A x \in ToSet(matched) : AskedFor(q, x)
      BY <1>6, <1>7, <1>11, <2>1
    <2>3. IsAnswer(asked, q, cursor, items, next, many)
      BY <1>13, <1>14, <2>2 DEF IsPage, IsAnswer
    <2>4. QED
      BY <2>1, <2>3
  <1>16. QED
    BY <1>9, <1>13, <1>14, <1>15

LEMMA EmptyIsLess ==
    ASSUME NEW s \in Strings, s # <<>>
    PROVE  Less(<<>>, s)
  <1>1. <<>> \in Strings /\ Len(<<>>) = 0 /\ Len(s) \in Nat
    BY EmptySeq, LenProperties DEF Strings
  <1>2. IsPrefix(<<>>, s)
    BY <1>1, PrefixAgrees
  <1>3. QED
    BY <1>2 DEF Less, IsStrictPrefix

(* One answer takes a walk on: it keeps where the walk stands, and a walk that is not at    *)
(* its end has gone forward, unless a list had a string twice.                             *)
LEMMA AdvanceKeeps ==
    ASSUME snap \in Snapshots, NEW w \in Walks, w.pc = "walking", WalkInv(w)
    PROVE  /\ Advance(w) \in Walks /\ WalkInv(Advance(w)) /\ Onwards(w, Advance(w))
           /\ Advance(w).query = w.query /\ Advance(w).live = w.live
           /\ Advance(w).pc \in {"walking", "done"}
  <1>1. /\ w.query \in Requests /\ w.cursor \in Strings /\ w.first \in BOOLEAN
        /\ w.seen \subseteq Strings /\ w.twice \subseteq Strings /\ w.steady \subseteq Strings
        /\ w.double \in BOOLEAN /\ w.live \in BOOLEAN
    BY DEF Walks
  <1>2. PICK q \in Requests : q = w.query
    BY <1>1
  <1>3. PICK cursor \in Strings : cursor = w.cursor
    BY <1>1
  <1>4. PICK items : items = ToSet(Answer(q, cursor).items)
    OBVIOUS
  <1>5. PICK next : next = Answer(q, cursor).next
    OBVIOUS
  <1>6. PICK asked : asked = Asked[snap][q]
    OBVIOUS
  <1>7. PICK many \in BOOLEAN :
           many <=> Cardinality(ToSet(Lists[snap][q])) # Len(Lists[snap][q])
    OBVIOUS
  <1>8. PICK again : again = IF Cardinality(items) = Len(Answer(q, cursor).items)
                             THEN items \cap w.seen ELSE items
    OBVIOUS
  <1>9. /\ IsAnswer(asked, q, cursor, items, next, many)
        /\ ~many => Cardinality(items) = Len(Answer(q, cursor).items)
    BY <1>4, <1>5, <1>6, <1>7, AnswerHolds
  <1>10. PICK v : v = Advance(w)
    OBVIOUS
  <1>11. v = [w EXCEPT !.cursor = next, !.first = FALSE,
                       !.pc     = IF next = <<>> THEN "done" ELSE "walking",
                       !.seen   = w.seen \cup items,
                       !.twice  = w.twice \cup again,
                       !.steady = IF w.first THEN asked ELSE w.steady \cap asked,
                       !.double = w.double \/ many]
    BY <1>2, <1>3, <1>4, <1>5, <1>6, <1>7, <1>8, <1>10 DEF Advance
  <1>12. again \subseteq items /\ (Cardinality(items) = Len(Answer(q, cursor).items) =>
                                     again \subseteq w.seen)
    BY <1>8
  <1>13. v \in Walks
    <2>1. items \subseteq Strings /\ again \subseteq Strings
      BY <1>9, <1>12 DEF IsAnswer
    <2>2. QED
      BY <1>1, <1>9, <1>11, <2>1 DEF Walks, IsAnswer
  <1>14. /\ v.query = q /\ v.cursor = next /\ v.first = FALSE
         /\ v.pc = IF next = <<>> THEN "done" ELSE "walking"
         /\ v.seen = w.seen \cup items /\ v.twice = w.twice \cup again
         /\ v.steady = IF w.first THEN asked ELSE w.steady \cap asked
         /\ (v.double <=> w.double \/ many) /\ v.live = w.live
    BY <1>2, <1>11 DEF Walks
  <1>15. /\ ~FuzzyIgnored(q.filter) => \A x \in w.seen : AskedFor(q, x)
         /\ \A x \in w.seen : ~w.first /\ cursor # <<>> /\ ~Less(cursor, x)
         /\ w.first => cursor = <<>>
         /\ ~w.first => cursor # <<>> /\ \A x \in w.steady : x \in w.seen \/ Less(cursor, x)
         /\ w.twice # {} => w.double
    BY <1>1, <1>2, <1>3 DEF WalkInv
  <1>16. ~FuzzyIgnored(q.filter) => \A x \in v.seen : AskedFor(q, x)
    BY <1>9, <1>14, <1>15 DEF IsAnswer
  <1>17. \A x \in v.steady : x \in v.seen \/ (next # <<>> /\ Less(next, x))
    <2>1. SUFFICES ASSUME NEW x \in v.steady, x \notin v.seen
                   PROVE  next # <<>> /\ Less(next, x)
      OBVIOUS
    <2>2. x \in asked /\ x \notin items /\ x \notin w.seen /\ (w.first \/ x \in w.steady)
      BY <1>14, <2>1
    <2>3. ~(cursor # <<>> /\ ~Less(cursor, x))
      BY <1>15, <2>2
    <2>4. QED
      BY <1>9, <2>2, <2>3 DEF IsAnswer
  <1>18. ASSUME next # <<>>
         PROVE  \A x \in v.seen : ~Less(next, x)
    <2>1. ASSUME NEW x \in w.seen
          PROVE  ~Less(next, x)
      <3>1. SUFFICES ASSUME Less(next, x) PROVE FALSE
        OBVIOUS
      <3>2. cursor # <<>> /\ ~Less(cursor, x) /\ x \in Strings
        BY <1>1, <1>15, <2>1
      <3>3. Less(next, cursor)
        BY <1>9, <3>1, <3>2, LessTotal, LessTransitive DEF IsAnswer
      <3>4. QED
        BY <1>9, <1>18, <3>2, <3>3 DEF IsAnswer
    <2>2. QED
      BY <1>9, <1>14, <1>18, <2>1 DEF IsAnswer
  <1>19. v.twice # {} => v.double
    <2>1. SUFFICES ASSUME NEW x \in again, ~many PROVE FALSE
      BY <1>14, <1>15
    <2>2. x \in items /\ x \in w.seen /\ (cursor # <<>> => Less(cursor, x))
      BY <1>9, <1>12, <2>1 DEF IsAnswer
    <2>3. QED
      BY <1>15, <2>2
  <1>20. WalkInv(v)
    <2>1. v.pc = "walking" => next # <<>>
      BY <1>14
    <2>2. v.pc = "done" => next = <<>>
      BY <1>14
    <2>3. v.query = q /\ v.cursor = next /\ ~v.first
      BY <1>14
    <2>4. QED
      BY <1>16, <1>17, <1>18, <1>19, <2>1, <2>2, <2>3 DEF WalkInv
  <1>21. Onwards(w, v)
    <2>1. SUFFICES ASSUME next # <<>>, ~many PROVE Less(cursor, next)
      BY <1>3, <1>14 DEF Onwards
    <2>2. CASE cursor = <<>>
      BY <1>9, <2>1, <2>2, EmptyIsLess DEF IsAnswer
    <2>3. CASE cursor # <<>>
      BY <1>9, <2>1, <2>3 DEF IsAnswer
    <2>4. QED
      BY <2>2, <2>3
  <1>22. QED
    BY <1>2, <1>10, <1>13, <1>14, <1>20, <1>21
LEMMA StartHolds ==
    ASSUME NEW q \in Requests
    PROVE  /\ Start(q) \in Walks /\ WalkInv(Start(q))
           /\ Start(q).query = q /\ Start(q).pc = "walking" /\ Start(q).live = TRUE
  <1>1. <<>> \in Strings
    BY EmptySeq DEF Strings
  <1>2. Start(q) \in Walks
    BY <1>1 DEF Start, Walks
  <1>3. WalkInv(Start(q))
    BY DEF Start, WalkInv
  <1>4. QED
    BY <1>2, <1>3 DEF Start

LEMMA FailedKeeps ==
    ASSUME NEW w \in Walks, WalkInv(w)
    PROVE  /\ Failed(w) \in Walks /\ WalkInv(Failed(w))
           /\ Failed(w).query = w.query /\ Failed(w).live = w.live /\ Failed(w).pc = "failed"
  <1>1. Failed(w) \in Walks /\ Failed(w).pc = "failed"
    BY DEF Failed, Walks
  <1>2. /\ Failed(w).query = w.query /\ Failed(w).cursor = w.cursor /\ Failed(w).first = w.first
        /\ Failed(w).seen = w.seen /\ Failed(w).twice = w.twice /\ Failed(w).steady = w.steady
        /\ Failed(w).double = w.double /\ Failed(w).live = w.live
    BY DEF Failed, Walks
  <1>3. WalkInv(Failed(w))
    BY <1>1, <1>2 DEF WalkInv
  <1>4. QED
    BY <1>1, <1>2, <1>3

LEMMA CancelledKeeps ==
    ASSUME NEW w \in Walks, WalkInv(w), NEW v, v = [w EXCEPT !.live = FALSE]
    PROVE  v \in Walks /\ WalkInv(v) /\ v.pc = w.pc /\ v.live = FALSE
  <1>1. v \in Walks /\ v.live = FALSE
    BY DEF Walks
  <1>2. /\ v.query = w.query /\ v.cursor = w.cursor /\ v.first = w.first /\ v.pc = w.pc
        /\ v.seen = w.seen /\ v.twice = w.twice /\ v.steady = w.steady /\ v.double = w.double
    BY DEF Walks
  <1>3. WalkInv(v)
    BY <1>2 DEF WalkInv
  <1>4. QED
    BY <1>1, <1>2, <1>3

-----------------------------------------------------------------------------
(* The client and the panel. *)

Typed ==
    /\ snap \in Snapshots /\ walk \in Walks
    /\ selected \in Targets \cup {NoTarget} /\ data \in Walks \cup {NoTarget}
    /\ error \in BOOLEAN /\ moves \in 0..MaxMoves
    /\ \A w \in loads : w \in Walks /\ w.pc = "walking"

(* The one load that was not cancelled is for the selected target. *)
LoadsInv ==
    /\ \A w \in loads : WalkInv(w)
    /\ \A w \in loads : w.live => selected # NoTarget /\ w.query = Query(selected)
    /\ \A v, w \in loads : v.live /\ w.live => v = w

(* What is shown came to its end, and is for the selected target unless a load or an error  *)
(* is there.                                                                               *)
DataInv ==
    /\ data # NoTarget => WalkInv(data) /\ data.pc = "done"
    /\ \/ selected = NoTarget
       \/ error
       \/ \E w \in loads : w.live
       \/ data # NoTarget /\ data.query = Query(selected)

IInv == Typed /\ WalkInv(walk) /\ LoadsInv /\ DataInv

LEMMA InitHolds == Init => IInv
  <1> SUFFICES ASSUME Init PROVE IInv
    OBVIOUS
  <1>1. PICK q \in Queries : walk = Start(q)
    BY DEF Init
  <1>2. q \in Requests
    BY DEF Requests
  <1>3. walk \in Walks /\ WalkInv(walk)
    BY <1>1, <1>2, StartHolds
  <1>4. 0 \in 0..MaxMoves
    BY QueryAssumption
  <1>5. Typed
    BY <1>3, <1>4 DEF Init, Typed
  <1>6. LoadsInv /\ DataInv
    BY DEF Init, LoadsInv, DataInv
  <1>7. QED
    BY <1>3, <1>5, <1>6 DEF IInv

LEMMA NextPageKeeps ==
    ASSUME IInv, NextPage
    PROVE  IInv' /\ Onwards(walk, walk')
  <1>1. /\ walk \in Walks /\ walk.pc = "walking" /\ WalkInv(walk) /\ snap \in Snapshots
        /\ walk' = IF NotFound(walk.query) THEN Failed(walk) ELSE Advance(walk)
        /\ UNCHANGED <<snap, selected, data, error, loads, moves>>
    BY DEF IInv, Typed, NextPage, panel
  <1>2. walk' \in Walks /\ WalkInv(walk') /\ Onwards(walk, walk')
    <2>1. CASE NotFound(walk.query)
      <3>1. walk' = Failed(walk)
        BY <1>1, <2>1
      <3>2. Failed(walk) \in Walks /\ WalkInv(Failed(walk)) /\ Failed(walk).pc = "failed"
        BY <1>1, FailedKeeps
      <3>3. Onwards(walk, Failed(walk))
        BY <3>2 DEF Onwards
      <3>4. QED
        BY <3>1, <3>2, <3>3
    <2>2. CASE ~NotFound(walk.query)
      <3>1. walk' = Advance(walk)
        BY <1>1, <2>2
      <3>2. Advance(walk) \in Walks /\ WalkInv(Advance(walk)) /\ Onwards(walk, Advance(walk))
        BY <1>1, AdvanceKeeps
      <3>3. QED
        BY <3>1, <3>2
    <2>3. QED
      BY <2>1, <2>2
  <1>3. Typed'
    BY <1>1, <1>2 DEF IInv, Typed
  <1>4. WalkInv(walk)'
    BY <1>2 DEF WalkInv
  <1>5. LoadsInv' /\ DataInv'
    BY <1>1 DEF IInv, LoadsInv, DataInv, WalkInv, Query, NoFilter
  <1>6. QED
    BY <1>2, <1>3, <1>4, <1>5 DEF IInv

LEMMA SwapKeeps ==
    ASSUME IInv, NEW s \in Snapshots, Swap(s)
    PROVE  IInv' /\ walk' = walk
  <1>1. /\ snap' = s /\ moves < MaxMoves /\ moves' = moves + 1
        /\ UNCHANGED <<walk, selected, data, error, loads>>
    BY DEF Swap, panel
  <1>2. moves' \in 0..MaxMoves
    BY <1>1, QueryAssumption DEF IInv, Typed
  <1>3. Typed'
    BY <1>1, <1>2 DEF IInv, Typed
  <1>4. WalkInv(walk)' /\ LoadsInv' /\ DataInv'
    BY <1>1 DEF IInv, LoadsInv, DataInv, WalkInv, Query, NoFilter
  <1>5. QED
    BY <1>1, <1>3, <1>4 DEF IInv

(* A selection leaves one live load, of the target it is about, or none. *)
LEMMA SelectKeeps ==
    ASSUME IInv, NEW t \in Targets \cup {NoTarget}, Select(t)
    PROVE  IInv' /\ walk' = walk
  <1> DEFINE cancelled == {[w EXCEPT !.live = FALSE] : w \in loads}
  <1>1. /\ moves < MaxMoves /\ moves' = moves + 1 /\ selected' = t /\ error' = FALSE
        /\ t = NoTarget => data' = NoTarget /\ loads' = cancelled
        /\ t # NoTarget => data' = data /\ loads' = cancelled \cup {Start(Query(t))}
        /\ UNCHANGED <<snap, walk>>
    BY DEF Select
  <1>2. \A v \in cancelled : v \in Walks /\ WalkInv(v) /\ v.pc = "walking" /\ ~v.live
    <2>1. TAKE v \in cancelled
    <2>2. PICK w \in loads : v = [w EXCEPT !.live = FALSE]
      OBVIOUS
    <2>3. w \in Walks /\ WalkInv(w) /\ w.pc = "walking"
      BY DEF IInv, Typed, LoadsInv
    <2>4. QED
      BY <2>2, <2>3, CancelledKeeps
  <1> HIDE DEF cancelled
  <1>3. moves' \in 0..MaxMoves
    BY <1>1, QueryAssumption DEF IInv, Typed
  <1>4. CASE t = NoTarget
    <2>1. Typed'
      BY <1>1, <1>2, <1>3, <1>4 DEF IInv, Typed
    <2>2. LoadsInv'
      BY <1>1, <1>2, <1>4 DEF LoadsInv, WalkInv
    <2>3. DataInv'
      BY <1>1, <1>4 DEF DataInv
    <2>4. WalkInv(walk)'
      BY <1>1 DEF IInv, WalkInv
    <2>5. QED
      BY <1>1, <2>1, <2>2, <2>3, <2>4 DEF IInv
  <1>5. CASE t # NoTarget
    <2>1. PICK w : w = Start(Query(t))
      OBVIOUS
    <2>2. Query(t) \in Requests
      BY <1>5 DEF Requests
    <2>3. w \in Walks /\ WalkInv(w) /\ w.query = Query(t) /\ w.pc = "walking" /\ w.live
      BY <2>1, <2>2, StartHolds
    <2>4. loads' = cancelled \cup {w} /\ data' = data
      BY <1>1, <1>5, <2>1
    <2>5. Typed'
      BY <1>1, <1>2, <1>3, <2>3, <2>4 DEF IInv, Typed
    <2>6. LoadsInv'
      BY <1>1, <1>2, <1>5, <2>3, <2>4 DEF LoadsInv, WalkInv, Query, NoFilter
    <2>7. DataInv'
      BY <2>3, <2>4 DEF IInv, DataInv, WalkInv
    <2>8. WalkInv(walk)'
      BY <1>1 DEF IInv, WalkInv
    <2>9. QED
      BY <1>1, <2>5, <2>6, <2>7, <2>8 DEF IInv
  <1>6. QED
    BY <1>4, <1>5

(* A load that goes on stays the one it was; one that ends gives way to its data or to an  *)
(* error, unless it was cancelled.                                                         *)
LEMMA LoadKeeps ==
    ASSUME IInv, NEW w \in loads, Load(w)
    PROVE  IInv' /\ walk' = walk
  <1>1. w \in Walks /\ w.pc = "walking" /\ WalkInv(w) /\ snap \in Snapshots /\ w.live \in BOOLEAN
    BY DEF IInv, Typed, LoadsInv, Walks
  <1>2. PICK next : next = IF NotFound(w.query) THEN Failed(w) ELSE Advance(w)
    OBVIOUS
  <1>3. /\ loads' = (loads \ {w}) \cup (IF next.pc = "walking" THEN {next} ELSE {})
        /\ data'  = IF next.pc = "done" /\ w.live THEN next ELSE data
        /\ error' = (error \/ (next.pc = "failed" /\ w.live))
        /\ UNCHANGED <<snap, walk, selected, moves>>
    BY <1>2 DEF Load
  <1>4. /\ next \in Walks /\ WalkInv(next) /\ next.query = w.query /\ next.live = w.live
        /\ next.pc \in {"walking", "done", "failed"}
    <2>1. CASE NotFound(w.query)
      BY <1>1, <1>2, <2>1, FailedKeeps
    <2>2. CASE ~NotFound(w.query)
      BY <1>1, <1>2, <2>2, AdvanceKeeps
    <2>3. QED
      BY <2>1, <2>2
  <1>5. \A v \in loads' : (v \in loads /\ v # w) \/ (v = next /\ next.pc = "walking")
    BY <1>3
  <1>6. Typed'
    <2>1. data' \in Walks \cup {NoTarget} /\ error' \in BOOLEAN
      BY <1>3, <1>4 DEF IInv, Typed
    <2>2. \A v \in loads' : v \in Walks /\ v.pc = "walking"
      BY <1>4, <1>5 DEF IInv, Typed
    <2>3. QED
      BY <1>3, <2>1, <2>2 DEF IInv, Typed
  <1>7. LoadsInv'
    <2>1. \A v \in loads' : WalkInv(v)
      BY <1>4, <1>5 DEF IInv, LoadsInv
    <2>2. \A v \in loads' : v.live => selected # NoTarget /\ v.query = Query(selected)
      BY <1>4, <1>5 DEF IInv, LoadsInv
    <2>3. \A u, v \in loads' : u.live /\ v.live => u = v
      BY <1>4, <1>5 DEF IInv, LoadsInv
    <2>4. QED
      BY <1>3, <2>1, <2>2, <2>3 DEF LoadsInv, WalkInv, Query, NoFilter
  <1>8. DataInv'
    <2>1. data' # NoTarget => WalkInv(data') /\ data'.pc = "done"
      BY <1>3, <1>4 DEF IInv, DataInv
    <2>2. \/ selected = NoTarget
          \/ error'
          \/ \E v \in loads' : v.live
          \/ data' # NoTarget /\ data'.query = Query(selected)
      <3>1. CASE ~w.live
        <4>1. data' = data /\ (error' <=> error)
          BY <1>3, <3>1 DEF IInv, Typed
        <4>2. \A v \in loads : v.live => v \in loads'
          BY <1>3, <3>1
        <4>3. QED
          BY <4>1, <4>2 DEF IInv, DataInv
      <3>2. CASE w.live /\ next.pc = "walking"
        <4>1. next \in loads' /\ next.live
          BY <1>3, <1>4, <3>2
        <4>2. QED
          BY <4>1
      <3>3. CASE w.live /\ next.pc = "failed"
        BY <1>3, <3>3
      <3>4. CASE w.live /\ next.pc = "done"
        <4>1. data' = next /\ next # NoTarget
          BY <1>3, <1>4, <3>4, NoWalkAssumption
        <4>2. next.query = Query(selected)
          BY <1>4, <3>4 DEF IInv, LoadsInv
        <4>3. QED
          BY <4>1, <4>2
      <3>5. QED
        BY <1>4, <3>1, <3>2, <3>3, <3>4
    <2>3. QED
      BY <1>3, <2>1, <2>2 DEF DataInv, WalkInv, Query, NoFilter
  <1>9. WalkInv(walk)'
    BY <1>3 DEF IInv, WalkInv
  <1>10. QED
    BY <1>3, <1>6, <1>7, <1>8, <1>9 DEF IInv

LEMMA NextKeeps ==
    ASSUME IInv, [Next]_vars
    PROVE  IInv' /\ (walk' # walk => Onwards(walk, walk'))
  <1>1. CASE NextPage
    BY <1>1, NextPageKeeps
  <1>2. ASSUME NEW s \in Snapshots, Swap(s)
        PROVE  IInv' /\ walk' = walk
    BY <1>2, SwapKeeps
  <1>3. ASSUME NEW t \in Targets \cup {NoTarget}, Select(t)
        PROVE  IInv' /\ walk' = walk
    BY <1>3, SelectKeeps
  <1>4. ASSUME NEW w \in loads, Load(w)
        PROVE  IInv' /\ walk' = walk
    BY <1>4, LoadKeeps
  <1>5. CASE UNCHANGED vars
    <2>1. UNCHANGED <<snap, walk, selected, data, error, loads, moves>>
      BY <1>5 DEF vars
    <2>2. IInv'
      BY <2>1 DEF IInv, Typed, LoadsInv, DataInv, WalkInv, Query, NoFilter
    <2>3. QED
      BY <2>1, <2>2
  <1>6. QED
    BY <1>1, <1>2, <1>3, <1>4, <1>5 DEF Next

(* Where the client and the panel stand, after any number of answers, swaps and selections. *)
LEMMA AlwaysIInv == Spec => []IInv
  <1>1. Init => IInv
    BY InitHolds
  <1>2. IInv /\ [Next]_vars => IInv'
    BY NextKeeps
  <1>3. QED
    BY <1>1, <1>2, PTL DEF Spec

(* Every variable keeps its type, and no more than one load is not cancelled: the clean-up  *)
(* of the panel's effect runs before the next effect. *)
THEOREM ClientsTyped == Spec => []TypeOK
  <1>1. IInv => TypeOK
    <2>1. SUFFICES ASSUME IInv PROVE TypeOK
      OBVIOUS
    <2> DEFINE live == {w \in loads : w.live}
    <2>2. Cardinality(live) <= 1
      <3>1. CASE live = {}
        BY <3>1, FS_EmptySet
      <3>2. CASE live # {}
        <4>1. PICK w \in live : TRUE
          BY <3>2
        <4>2. live = {w}
          BY <2>1 DEF IInv, LoadsInv
        <4> HIDE DEF live
        <4>3. Cardinality(live) = 1
          BY <4>2, FS_Singleton
        <4>4. QED
          BY <4>3
      <3>3. QED
        BY <3>1, <3>2
    <2>3. QED
      BY <2>1, <2>2 DEF IInv, Typed, TypeOK
  <1>2. QED
    BY <1>1, AlwaysIInv, PTL

(* A client that follows nextCursor while snapshots are swapped under it, as handleList...  *)
(* and paginate serve it, gets everything it asked for that was there the whole time,      *)
(* nothing twice unless a list had it twice, and nothing it did not ask for, unless it     *)
(* asked for equals and fuzzy at once. *)
THEOREM WalksAreExact == Spec => []WalkIsExact
  <1>1. IInv => WalkIsExact
    BY DEF IInv, WalkInv, WalkIsExact, Exact
  <1>2. QED
    BY <1>1, AlwaysIInv, PTL

(* Such a client comes to an end: every cursor it is given lies behind the one before. *)
THEOREM WalksGoOn == Spec => WalkEnds
  <1>1. IInv /\ [Next]_vars => [walk' # walk => Onwards(walk, walk')]_vars
    BY NextKeeps
  <1>2. QED
    BY <1>1, AlwaysIInv, PTL DEF Spec, WalkEnds

(* The dashboard's panel of alternatives shows the selected target's, and all that were     *)
(* there while they were loaded, once no load is under way and there is no error.          *)
THEOREM PanelShowsSelection == Spec => []PanelFollowsSelection
  <1>1. IInv => PanelFollowsSelection
    <2>1. SUFFICES ASSUME IInv, \A w \in loads : ~w.live, selected # NoTarget, ~error
                   PROVE  /\ data # NoTarget /\ data.query.target = selected
                          /\ data.steady \subseteq data.seen
      BY DEF PanelFollowsSelection
    <2>2. data # NoTarget /\ data.query = Query(selected) /\ WalkInv(data) /\ data.pc = "done"
      BY <2>1 DEF IInv, DataInv
    <2>3. data.query.target = selected
      BY <2>2 DEF Query
    <2>4. QED
      BY <2>2, <2>3 DEF WalkInv
  <1>2. QED
    BY <1>1, AlwaysIInv, PTL
=============================================================================
